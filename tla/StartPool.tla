------------------------------ MODULE StartPool ------------------------------
(***************************************************************************)
(* The comparison of candidate loops with reference loops: start.py splits *)
(* the targets into chunks and gives each to a worker of a process pool; a *)
(* worker runs SymbolicExecution for every pair of its chunk, one process  *)
(* after the other; a comparison with matches writes a match file into the *)
(* shared directory; match_info.pl reads these files afterwards.           *)
(*                                                                         *)
(* What a comparison finds is given (FormulaMatching models how it is      *)
(* found).  The name of a match file is the number of matches and ten      *)
(* characters drawn from a generator seeded with the time in seconds: two  *)
(* comparisons with as many matches in the same second choose the same     *)
(* name.                                                                   *)
(***************************************************************************)
EXTENDS Integers, Sequences, FiniteSets

CONSTANTS
  Settings,        (* what start.py may be started with                    *)
  Finds,           (* what the comparisons may find                        *)
  MaxRefSize,      (* 100000                                               *)
  SizeThreshold,   (* 2000                                                 *)
  MaxProcesses,    (* bound of the model: the largest -p                   *)
  LongFormula,     (* 8: match_info.pl's $LONG_FORMULA                     *)
  MaxClock,        (* bound of the model: seconds the run may take         *)
  Faults           (* of "vanish" and "kill", those that may happen, once  *)

ASSUME SettingsAssumption ==
  \A s \in Settings :
    /\ s.refs # <<>> /\ s.refs \in Seq(DOMAIN s.size)
    /\ s.targets # <<>> /\ s.targets \in Seq(DOMAIN s.size)
    /\ s.size \in [DOMAIN s.size -> Nat]
    /\ s.threshold \in BOOLEAN
    /\ s.processes \in Nat \ {0}

ASSUME FindsAssumption ==
  \A s \in Settings, f \in Finds :
    \A p \in (1 .. Len(s.refs)) \X (1 .. Len(s.targets)) :
      f[p] \in [matches : Nat, length : Nat]

ASSUME ClockAssumption == MaxClock \in Nat

VARIABLES
  setting,     (* file lists, sizes and options                            *)
  finds,       (* for each pair: matches found, length of the longest      *)
               (* matching formula                                         *)
  main,        (* the main process                                         *)
  submitted,   (* the chunks given to apply_async                          *)
  queue,       (* the pool's task queue: numbers of chunks                 *)
  worker,      (* what each process of the pool does                       *)
  ended,       (* chunks whose result, or exception, has come back         *)
  raised,      (* chunks whose worker raised: nobody asks for the result   *)
  started,     (* how often each pair was compared                         *)
  failed,      (* pairs with a line "Command failed"                       *)
  files,       (* the match files                                          *)
  named,       (* history: the pairs that chose each name                  *)
  clock,
  gone,        (* files that were removed                                  *)
  faults       (* the faults still to come                                 *)

poolVars == <<main, submitted, queue, ended, raised>>
matchVars == <<files, named>>
vars == <<setting, finds, main, submitted, queue, worker, ended, raised, started,
          failed, files, named, clock, gone, faults>>

-----------------------------------------------------------------------------
(* chunks(target_list, len / num_process + 1), with Python's integer       *)
(* division, after num_process was cut down to the number of targets.      *)
ProcessNumber(s) ==
  IF Len(s.targets) < s.processes THEN Len(s.targets) ELSE s.processes

ChunkSize(s) == Len(s.targets) \div ProcessNumber(s) + 1

ChunkNumber(s) == (Len(s.targets) + ChunkSize(s) - 1) \div ChunkSize(s)

(* Where chunk c ends: the slice of a list stops at its end.               *)
ChunkEnd_OneLess(s, c) ==
  IF c * ChunkSize(s) < Len(s.targets) THEN c * ChunkSize(s) ELSE Len(s.targets) - 1

ChunkEnd(s, c) ==
  IF c * ChunkSize(s) < Len(s.targets) THEN c * ChunkSize(s) ELSE Len(s.targets)

ChunkStart(s, c) == (c - 1) * ChunkSize(s) + 1

(* A pair is a reference and a target, by their places in the lists.       *)
Pairs(s) == (1 .. Len(s.refs)) \X (1 .. Len(s.targets))
ChunkOf(s, p) == (p[2] - 1) \div ChunkSize(s) + 1
Chunks(s) == 1 .. ChunkNumber(s)

RefOf(p) == setting.refs[p[1]]
TargetOf(p) == setting.targets[p[2]]
Distance(a, b) == IF a < b THEN b - a ELSE a - b

TooLarge(p) == setting.size[RefOf(p)] > MaxRefSize
TooFar(p) ==
  /\ setting.threshold
  /\ Distance(setting.size[RefOf(p)], setting.size[TargetOf(p)]) > SizeThreshold

(* os.path.getsize of a file that is not there.                            *)
SizeUnknown(p) ==
  \/ RefOf(p) \in gone
  \/ ~ TooLarge(p) /\ setting.threshold /\ TargetOf(p) \in gone

Workers == 1 .. ProcessNumber(setting)

NoPair == <<0, 0>>
Idle == [chunk |-> 0, at |-> NoPair, step |-> "idle", name |-> <<0, 0>>]

(* match_<number of matches>_<ten characters>.txt                          *)
MatchName_OfCount(p) == <<finds[p].matches, 0>>

MatchName(p) == <<finds[p].matches, clock>>

(* A match file without blocks, or none.                                   *)
Empty == [pair |-> NoPair, rest |-> NoPair]

-----------------------------------------------------------------------------
Init ==
  /\ setting \in Settings
  /\ finds \in Finds
  /\ main = "submitting"
  /\ submitted = 0
  /\ queue = <<>>
  /\ worker = [w \in Workers |-> Idle]
  /\ ended = {}
  /\ raised = {}
  /\ started = [p \in Pairs(setting) |-> 0]
  /\ failed = {}
  /\ files = [n \in { <<finds[p].matches, t>> :
                        p \in Pairs(setting), t \in 0 .. MaxClock } |-> Empty]
  /\ named = {}
  /\ clock = 0
  /\ gone = {}
  /\ faults = Faults

(* One p.apply_async of the loop in main.                                  *)
ApplyAsync ==
  /\ main = "submitting"
  /\ submitted < ChunkNumber(setting)
  /\ submitted' = submitted + 1
  /\ queue' = Append(queue, submitted')
  /\ UNCHANGED <<setting, finds, main, worker, ended, raised, started, failed, files,
                 named, clock, gone, faults>>

(* p.close()                                                               *)
Close ==
  /\ main = "submitting"
  /\ submitted = ChunkNumber(setting)
  /\ main' = "joining"
  /\ UNCHANGED <<setting, finds, submitted, queue, worker, ended, raised, started,
                 failed, files, named, clock, gone, faults>>

(* p.join() returns when every task has come back, by result or exception; *)
(* then "Finished" is logged.                                              *)
Join ==
  /\ main = "joining"
  /\ ended = Chunks(setting)
  /\ main' = "finished"
  /\ UNCHANGED <<setting, finds, submitted, queue, worker, ended, raised, started,
                 failed, files, named, clock, gone, faults>>

-----------------------------------------------------------------------------
(* A process of the pool takes the next task.                              *)
Take(w) ==
  /\ worker[w].step = "idle"
  /\ queue # <<>>
  /\ queue' = Tail(queue)
  /\ worker' = [worker EXCEPT ![w] =
                  [Idle EXCEPT !.chunk = Head(queue), !.step = "pair",
                               !.at = <<1, ChunkStart(setting, Head(queue))>>]]
  /\ UNCHANGED <<setting, finds, main, submitted, ended, raised, started, failed,
                 files, named, clock, gone, faults>>

(* An inner loop that starts over without the next reference.              *)
AfterPair_SameRef(s, c, p) ==
  IF p[2] < ChunkEnd(s, c) THEN <<p[1], p[2] + 1>> ELSE <<p[1], ChunkStart(s, c)>>

(* The two loops of start_run, the references outside.                     *)
AfterPair(s, c, p) ==
  IF p[2] < ChunkEnd(s, c) THEN <<p[1], p[2] + 1>> ELSE <<p[1] + 1, ChunkStart(s, c)>>

GoOn(w) ==
  worker' = [worker EXCEPT ![w] =
               [Idle EXCEPT !.chunk = worker[w].chunk, !.step = "pair",
                            !.at = AfterPair(setting, worker[w].chunk, worker[w].at)]]

AtPair(w) == worker[w].step = "pair" /\ worker[w].at[1] <= Len(setting.refs)

(* getsize raises OSError: the exception leaves start_run, the rest of the *)
(* chunk is not compared, and the pool keeps it in a result nobody reads.  *)
Raise(w) ==
  /\ AtPair(w)
  /\ SizeUnknown(worker[w].at)
  /\ worker' = [worker EXCEPT ![w] = Idle]
  /\ ended' = ended \cup {worker[w].chunk}
  /\ raised' = raised \cup {worker[w].chunk}
  /\ UNCHANGED <<setting, finds, main, submitted, queue, started, failed, files,
                 named, clock, gone, faults>>

SkipPair(w) ==
  /\ AtPair(w)
  /\ ~ SizeUnknown(worker[w].at)
  /\ TooLarge(worker[w].at) \/ TooFar(worker[w].at)
  /\ GoOn(w)
  /\ UNCHANGED <<setting, finds, poolVars, started, failed, matchVars, clock, gone, faults>>

(* os.system: SymbolicExecution starts.                                    *)
StartComparison(w) ==
  LET p == worker[w].at
  IN  /\ AtPair(w)
      /\ ~ SizeUnknown(p)
      /\ ~ TooLarge(p) /\ ~ TooFar(p)
      /\ started' = [started EXCEPT ![p] = @ + 1]
      /\ worker' = [worker EXCEPT ![w].step = "comparing"]
      /\ UNCHANGED <<setting, finds, poolVars, failed, matchVars, clock, gone, faults>>

(* SymbolicExecution cannot open one of its files and exits with 1, or it  *)
(* aborts before it has a match: that is logged, and the worker goes on.   *)
ComparisonFails(w) ==
  LET p == worker[w].at
  IN  /\ worker[w].step = "comparing"
      /\ RefOf(p) \in gone \/ TargetOf(p) \in gone \/ finds[p].matches = 0
      /\ failed' = failed \cup {p}
      /\ GoOn(w)
      /\ UNCHANGED <<setting, finds, poolVars, started, matchVars, clock, gone, faults>>

NoMatch(w) ==
  /\ worker[w].step = "comparing"
  /\ finds[worker[w].at].matches = 0
  /\ GoOn(w)
  /\ UNCHANGED <<setting, finds, poolVars, started, failed, matchVars, clock, gone, faults>>

(* random_string seeds the generator anew; opening truncates the file.     *)
OpenMatchFile(w) ==
  LET p == worker[w].at
  IN  /\ worker[w].step = "comparing"
      /\ finds[p].matches > 0
      /\ worker' = [worker EXCEPT ![w] = [@ EXCEPT !.step = "writing", !.name = MatchName(p)]]
      /\ files' = [files EXCEPT ![MatchName(p)] = Empty]
      /\ named' = named \cup { <<finds[p].matches, clock, p>> }
      /\ UNCHANGED <<setting, finds, poolVars, started, failed, clock, gone, faults>>

(* Writing starts at the beginning: of a longer text that another process  *)
(* has written since the file was opened, the end is left.                 *)
Written(old, p) ==
  [pair |-> p,
   rest |-> IF old.pair # NoPair /\ finds[old.pair].length > finds[p].length
            THEN old.pair ELSE NoPair]

CloseMatchFile(w) ==
  LET p == worker[w].at
      n == worker[w].name
  IN  /\ worker[w].step = "writing"
      /\ files' = [files EXCEPT ![n] = Written(files[n], p)]
      /\ GoOn(w)
      /\ UNCHANGED <<setting, finds, poolVars, started, failed, named, clock, gone, faults>>

(* start_run returns.                                                      *)
EndChunk(w) ==
  /\ worker[w].step = "pair"
  /\ worker[w].at[1] > Len(setting.refs)
  /\ worker' = [worker EXCEPT ![w] = Idle]
  /\ ended' = ended \cup {worker[w].chunk}
  /\ UNCHANGED <<setting, finds, main, submitted, queue, raised, started, failed,
                 files, named, clock, gone, faults>>

Step(w) ==
  \/ Take(w) \/ Raise(w) \/ SkipPair(w) \/ StartComparison(w)
  \/ ComparisonFails(w) \/ NoMatch(w) \/ OpenMatchFile(w) \/ CloseMatchFile(w)
  \/ EndChunk(w)

-----------------------------------------------------------------------------
Tick ==
  /\ clock < MaxClock
  /\ main # "finished"
  /\ clock' = clock + 1
  /\ UNCHANGED <<setting, finds, poolVars, worker, started, failed, matchVars, gone,
                 faults>>

(* Somebody removes a loop file during the run.                            *)
Vanish(f) ==
  /\ "vanish" \in faults
  /\ main # "finished"
  /\ faults' = faults \ {"vanish"}
  /\ gone' = {f}
  /\ UNCHANGED <<setting, finds, poolVars, worker, started, failed, matchVars, clock>>

(* A worker is killed between two comparisons.  The pool starts another    *)
(* process in its place, but the chunk's result will never come.  (Killed  *)
(* during a comparison, it leaves a SymbolicExecution that goes on to its  *)
(* end; the model kills the worker after that end.)                        *)
Kill(w) ==
  /\ "kill" \in faults
  /\ worker[w].step = "pair"
  /\ faults' = faults \ {"kill"}
  /\ worker' = [worker EXCEPT ![w] = Idle]
  /\ UNCHANGED <<setting, finds, poolVars, started, failed, matchVars, clock, gone>>

MainStep == ApplyAsync \/ Close \/ Join

Files(s) == DOMAIN s.size

Killed == "kill" \in Faults \ faults

(* The program has ended, or it waits for a chunk that a killed worker had.*)
Stopped ==
  /\ main = "finished" \/ Killed
  /\ UNCHANGED vars

Next ==
  \/ MainStep
  \/ \E w \in Workers : Step(w) \/ Kill(w)
  \/ Tick
  \/ \E f \in Files(setting) : Vanish(f)
  \/ Stopped

Spec == Init /\ [][Next]_vars

(* Every process is scheduled: workers keep running, and nothing but join  *)
(* blocks main.                                                            *)
FairSpec ==
  /\ Spec
  /\ WF_vars(MainStep)
  /\ \A w \in 1 .. MaxProcesses : WF_vars(w \in Workers /\ Step(w))

-----------------------------------------------------------------------------
Busy(w) == worker[w].step # "idle"

TypeOK ==
  /\ setting \in Settings
  /\ main \in {"submitting", "joining", "finished"}
  /\ submitted \in 0 .. ChunkNumber(setting)
  /\ queue \in Seq(Chunks(setting))
  /\ ended \subseteq Chunks(setting)
  /\ raised \subseteq ended
  /\ \A w \in Workers : Busy(w) => worker[w].chunk \in Chunks(setting)

(* However the targets are cut into chunks, and in whatever order workers  *)
(* finish: once "Finished" is logged every pair whose sizes allow it was   *)
(* compared, and none twice - except in the chunk of a worker that raised, *)
(* which takes no other chunk with it.                                     *)
ComparedOnce ==
  /\ \A p \in Pairs(setting) : started[p] <= 1
  /\ main = "finished" =>
       \A p \in Pairs(setting) :
         IF TooLarge(p) \/ TooFar(p) THEN started[p] = 0
         ELSE started[p] = 1 \/ ChunkOf(setting, p) \in raised

(* What match_info.pl reports: the header's pair, when the file has a long *)
(* formula; it skips files without blocks.                                 *)
Long(p) == p # NoPair /\ finds[p].length > LongFormula
Reported ==
  { f.pair : f \in { files[n] : n \in { m \in DOMAIN files :
                   /\ files[m] # Empty
                   /\ Long(files[m].pair) \/ Long(files[m].rest) } } }

Matching == { m[3] : m \in named }
GoodMatches == { p \in Matching : Long(p) }

(* Two comparisons found as many matches in the same second.               *)
SameSecond ==
  \E m, n \in named : m # n /\ m[1] = n[1] /\ m[2] = n[2]

(* Although all comparisons write into one directory without a lock, what  *)
(* is reported in the end is exactly what was found - unless two           *)
(* comparisons found as many matches in the same second; even then only    *)
(* pairs with matches are reported.                                        *)
ReportExact ==
  main = "finished" =>
    /\ Reported \subseteq Matching
    /\ ~ SameSecond => Reported = GoodMatches

(* The run comes to its end, files that vanish included, unless a worker   *)
(* is killed.                                                              *)
Finishes == <>(main = "finished" \/ Killed)
=============================================================================
