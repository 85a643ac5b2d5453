--------------------------- MODULE LoopDetection ---------------------------
(***************************************************************************)
(* CryptoHunt's loop detector (lib/Loop.cpp, loopDetection and             *)
(* loopDetectionFast): one pass over an execution trace that guesses where *)
(* a loop body may start to repeat, follows every guess one instruction at *)
(* a time, and reports a body once its second iteration has been seen in   *)
(* full.  The third and later iterations of a body just reported are       *)
(* skipped in whole strides.                                               *)
(*                                                                         *)
(* An iterator of the code is a position; 1..N are the vector and N+1 is   *)
(* cend().  The pass ends only when its iterator equals cend(), and an     *)
(* accepted stride may jump over cend(): then the pass goes on over the    *)
(* memory behind the vector, proposes, compares and confirms there, and    *)
(* ends in a crash that writes no report.  What is read around the vector  *)
(* is chosen by \E anew in each turn; so are the ids read there, and with  *)
(* them the loop starts a finder proposes; and any such read may crash.    *)
(*                                                                         *)
(* Inside the vector the model takes Inst_Base::id to be the position,     *)
(* which is what parse_trace gives a trace without a Start header.         *)
(***************************************************************************)
EXTENDS Integers, Sequences, FiniteSets

CONSTANTS
  Opcodes,      (* x86 instruction ids                                     *)
  Operands,     (* operand lists (Inst_Base::oprs), compared only for =    *)
  Traces,       (* the traces examined                                     *)
  MinLoop,      (* MIN_LOOP_LENGTH, 20 in lib/ins_types.hpp                *)
  MaxHistory,   (* MAX_LOOP_HISTORY, 2000 in lib/ins_types.hpp             *)
  Spare,        (* positions on either side of the vector that can be read *)
  Surroundings  (* what may lie there: before the vector from -Spare to -1 *)
                (* and behind it from 1 to Spare                           *)

Instr == [op : Opcodes, oprs : Operands]

ASSUME TracesAssumption == Traces \subseteq Seq(Instr)
ASSUME BoundsAssumption == MinLoop \in Nat /\ MinLoop >= 2 /\ MaxHistory \in Nat
ASSUME SurroundingsAssumption ==
  /\ Spare \in Nat /\ Spare >= 2
  /\ Surroundings \subseteq [(-Spare .. -1) \cup (1 .. Spare) -> Instr]

VARIABLES
  trace,        (* the instruction vector, fixed                           *)
  fast,         (* TRUE: loopDetectionFast, which looks candidates up in   *)
                (* an InstructionMap; FALSE: loopDetection; fixed          *)
  it,           (* the pass's iterator                                     *)
  candidates,   (* potential_loops: [begin, end, cur]                      *)
  current,      (* current_loop: the body being skipped, NoLoop if none    *)
  confirmed,    (* confirmLoop: the loops to report                        *)
  indexed,      (* positions entered in the InstructionMap (fast only)     *)
  pass,         (* "running", "reported" or "killed"                       *)
  reports       (* the loops outPrintLoops has written                     *)

vars == <<trace, fast, it, candidates, current, confirmed, indexed, pass, reports>>

N == Len(trace)

Loop      == [begin : Int, end : Nat]
Candidate == [begin : Int, end : Nat, cur : Int]

NoLoop  == [begin |-> 0, end |-> 0]
Size(l) == l.end - l.begin

(* What a report says of a loop: its body, not the detector's cursor.      *)
Body(l) == [begin |-> l.begin, end |-> l.end]

(* What the code reads at position i, and where it may read at all.        *)
At(i, around) ==
  IF i \in 1 .. N THEN trace[i] ELSE around[IF i < 1 THEN i - 1 ELSE i - N]

Readable(i) == 1 - Spare <= i /\ i <= N + Spare

(* Loop::operator==: opcodes and operands agree pairwise.                  *)
SameBody(x, y, around) ==
  /\ Size(x) = Size(y)
  /\ \A k \in 0 .. Size(x) - 1 : At(x.begin + k, around) = At(y.begin + k, around)

-----------------------------------------------------------------------------
(* The stride [it, it + Size(current)) compared with the current body.     *)
StrideMatches(around) ==
  \A k \in 0 .. Size(current) - 1 :
     Readable(it + k) /\ At(it + k, around) = At(current.begin + k, around)

StrideDiffers(around) ==
  \E k \in 0 .. Size(current) - 1 :
     Readable(it + k) /\ At(it + k, around) # At(current.begin + k, around)

(* The four lookahead distances findPotentialLoop tests, for their end and *)
(* for their opcodes.                                                      *)
Lookahead == {1, 2, 3, 5}

InsideLookahead == \A d \in Lookahead : it + d # N + 1

LookaheadAgrees(b, around) ==
  \A d \in Lookahead :
     Readable(it + d) /\ At(b + d, around).op = At(it + d, around).op

(* The earlier positions whose lookahead a finder reads when the pass is   *)
(* at it: only InstructionMap has the minimal length tested first.         *)
Recent ==
  { b \in (IF fast THEN { i \in indexed : MinLoop <= it - i } ELSE 1 .. it - 1) :
      it - b <= MaxHistory /\ trace[b].op = trace[it].op }

(* The loop starts that findPotentialLoop and InstructionMap propose there.*)
Starts(around) ==
  { b \in Recent : MinLoop <= it - b /\ InsideLookahead /\ LookaheadAgrees(b, around) }

(* The positions they may propose behind the vector, where the distance to *)
(* a start comes from the ids that are read.                               *)
StrayStarts(around) ==
  { b \in it - MaxHistory .. it - MinLoop :
      /\ Readable(b)
      /\ fast \/ At(b, around).op = At(it, around).op
      /\ LookaheadAgrees(b, around) }

NewCandidates(starts) ==
  { [begin |-> b, end |-> it, cur |-> b] : b \in starts }

(* Loop::checkLoopCurrent on every live candidate: advance, then compare   *)
(* the opcode only.                                                        *)
Advanced(live) == { [c EXCEPT !.cur = @ + 1] : c \in live }
Matching(live, around) ==
  { c \in Advanced(live) : At(c.cur, around).op = At(it, around).op }

(* A check that finishes one instruction early.                            *)
Finished_Early(live, around) == { c \in Matching(live, around) : c.cur + 2 >= c.end }

(* A finish that the advance-then-compare order steps over.                *)
Finished_Late(live, around) == { c \in Matching(live, around) : c.cur = c.end }

(* Loop::isCheckedFinish.                                                  *)
Finished(live, around) == { c \in Matching(live, around) : c.cur + 1 = c.end }

(* The order of the candidate list: by the time they were spliced in, then *)
(* by the order the finder produced them.                                  *)
Before(x, y) ==
  \/ x.end < y.end
  \/ x.end = y.end /\ (IF fast THEN x.begin > y.begin ELSE x.begin < y.begin)

(* No std::find before push_back.                                          *)
Fresh_NoFind(done, around) == { Body(x) : x \in done }

(* The finished bodies pushed to confirmLoop: std::find has not met the    *)
(* same body, earlier in this very iteration included.                     *)
Fresh(done, around) ==
  { Body(x) : x \in { c \in done :
      /\ \A l \in confirmed : ~ SameBody(l, c, around)
      /\ \A y \in done : Before(y, c) => ~ SameBody(y, c, around) } }

LastOf(S) == CHOOSE x \in S : \A y \in S : x = y \/ Before(y, x)

-----------------------------------------------------------------------------
Init ==
  /\ trace \in Traces
  /\ fast \in BOOLEAN
  /\ it = 1
  /\ candidates = {}
  /\ current = NoLoop
  /\ confirmed = {}
  /\ indexed = {}
  /\ pass = "running"
  /\ reports = {}

(* Another iteration of the current body: jump over it, past cend() if it  *)
(* overruns the vector.  Nothing else is touched, so candidates go stale   *)
(* and positions go unindexed.                                             *)
SkipIteration ==
  /\ pass = "running" /\ it # N + 1
  /\ current # NoLoop
  /\ \E around \in Surroundings : StrideMatches(around)
  /\ it' = it + Size(current)
  /\ UNCHANGED <<trace, fast, candidates, current, confirmed, indexed, pass, reports>>

(* The candidates that survive the check of the current body.              *)
LiveCandidates == IF current = NoLoop THEN candidates ELSE {}

(* An ordinary turn of the for loop.  A current body that does not match   *)
(* is dropped together with every candidate.  (The ids that a turn behind  *)
(* the vector enters in the map only feed StrayStarts.)                    *)
ScanInstruction ==
  /\ pass = "running" /\ it # N + 1 /\ Readable(it)
  /\ \E around \in Surroundings :
       LET live  == LiveCandidates
           done  == Finished(live, around)
           fresh == Fresh(done, around)
       IN  /\ current # NoLoop => StrideDiffers(around)
           /\ confirmed' = confirmed \cup fresh
           /\ current' = IF fresh = {} THEN NoLoop ELSE LastOf(fresh)
           /\ \E starts \in IF it <= N THEN {Starts(around)} ELSE SUBSET StrayStarts(around) :
                candidates' = (Matching(live, around) \ done) \cup NewCandidates(starts)
  /\ indexed' = IF fast /\ it <= N THEN indexed \cup {it} ELSE indexed
  /\ it' = it + 1
  /\ UNCHANGED <<trace, fast, pass, reports>>

(* The loop ends at cend(), and outPrintLoops writes the confirmed bodies. *)
WriteReports ==
  /\ pass = "running" /\ it = N + 1
  /\ pass' = "reported"
  /\ reports' = confirmed
  /\ UNCHANGED <<trace, fast, it, candidates, current, confirmed, indexed>>

(* The turn at it reads past the vector: at it itself, in a stride that    *)
(* agrees up to the end, or in a lookahead of which three opcodes agree.   *)
StrideReadsPast ==
  /\ it + Size(current) > N + 1
  /\ \A k \in 0 .. N - it : trace[it + k] = trace[current.begin + k]

LookaheadReadsPast ==
  /\ it = N - 3
  /\ current # NoLoop =>
       \E k \in 0 .. Size(current) - 1 :
          it + k <= N /\ trace[it + k] # trace[current.begin + k]
  /\ \E b \in Recent : \A d \in Lookahead \ {5} : trace[b + d].op = trace[it + d].op

(* Such a read may kill the process; no file is written then.              *)
Crash ==
  /\ pass = "running"
  /\ \/ it > N + 1
     \/ it <= N /\ current # NoLoop /\ StrideReadsPast
     \/ LookaheadReadsPast
  /\ pass' = "killed"
  /\ UNCHANGED <<trace, fast, it, candidates, current, confirmed, indexed, reports>>

Ended == pass # "running" /\ UNCHANGED vars

Next == SkipIteration \/ ScanInstruction \/ WriteReports \/ Crash \/ Ended

Spec == Init /\ [][Next]_vars

-----------------------------------------------------------------------------
TypeOK ==
  /\ trace \in Seq(Instr)
  /\ fast \in BOOLEAN
  /\ it \in Nat \ {0}
  /\ candidates \in SUBSET Candidate
  /\ current \in Loop
  /\ confirmed \in SUBSET Loop
  /\ indexed \in SUBSET (1 .. N)
  /\ pass \in {"running", "reported", "killed"}
  /\ reports \in SUBSET Loop

(* Loop body b..e-1 occurs twice in a row, opcode for opcode.              *)
Repeats(l) ==
  /\ 1 <= l.begin /\ l.begin < l.end
  /\ l.end + Size(l) - 1 <= N
  /\ \A k \in 0 .. Size(l) - 1 : trace[l.begin + k].op = trace[l.end + k].op

(* The pass has jumped over cend().                                        *)
Astray == it > N + 1

(* Every confirmed loop is a body that the trace really executes twice in  *)
(* a row, even though the lookahead of findPotentialLoop samples only a    *)
(* few instructions (and may sample past the end of the vector), and       *)
(* though strides are skipped while candidates stay in the list.  The      *)
(* exception are loops confirmed after a stride has jumped over cend():    *)
(* their second run lies behind the vector as a whole.                     *)
ConfirmedRepeat == \A l \in confirmed : Repeats(l) \/ (Astray /\ l.end > N + 1)

(* What makes it so: a candidate that will be advanced is in step with the *)
(* pass and, unless the pass is astray, everything it has passed matched.  *)
(* This is why a mismatch of the current body must throw the candidates    *)
(* away: they missed the instructions of the strides.                      *)
Aligned(c) ==
  /\ c.begin <= c.cur /\ c.cur + 1 < c.end
  /\ it = c.end + (c.cur - c.begin) + 1
  /\ Astray => c.end > N + 1
  /\ ~ Astray =>
       /\ 1 <= c.begin
       /\ \A k \in 0 .. c.cur - c.begin :
            trace[c.begin + k].op = trace[c.end + k].op

CandidatesAligned == current = NoLoop => \A c \in candidates : Aligned(c)

(* A body the finder can see: it repeats, its length is in the window, the *)
(* lookahead stays inside the vector and agrees (for a body of more than   *)
(* five instructions the repetition implies that).                         *)
Visible(l) ==
  /\ Repeats(l)
  /\ MinLoop <= Size(l) /\ Size(l) <= MaxHistory
  /\ l.end + 5 <= N
  /\ \A d \in Lookahead : trace[l.begin + d].op = trace[l.end + d].op

(* Nothing visible is missed before the first report: as long as nothing   *)
(* is confirmed, no visible body has been passed to its end.  (After the   *)
(* first report strides are skipped, and loops inside them can be missed.) *)
FirstLoopFound ==
  confirmed = {} =>
    \A b, e \in 1 .. N :
      LET l == [begin |-> b, end |-> e]
      IN  Visible(l) => it < e + Size(l)

(* The detector implements the report it promises: see LoopReport.         *)
Report == INSTANCE LoopReport
ReportSpec == Report!Spec
=============================================================================
