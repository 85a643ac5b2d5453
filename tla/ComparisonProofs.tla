-------------------------- MODULE ComparisonProofs --------------------------
(***************************************************************************)
(* Theorems about the comparison of traces, in two parts.                  *)
(*                                                                         *)
(* StartPool: for every list of references and targets, every number of    *)
(* processes and every interleaving of the workers, the pairs of files are *)
(* compared as they should be, and the match files hold what was found.    *)
(*                                                                         *)
(* BitMapping: whatever the tests of the formulas count, and however often *)
(* bitVarmap calls itself, its mappings are injective, reduce finds what   *)
(* it takes for granted, and no bit is lost.                               *)
(***************************************************************************)
EXTENDS StartPool, BitMapping, FiniteSetTheorems, WellFoundedInduction, TLAPS

-----------------------------------------------------------------------------
(* How the targets are cut into chunks.                                    *)
LEMMA Division ==
  ASSUME NEW a \in Int, NEW b \in Nat \ {0}
  PROVE  /\ a \div b \in Int
         /\ (a \div b) * b <= a
         /\ a < (a \div b) * b + b
OBVIOUS

LEMMA QuotientIs ==
  ASSUME NEW a \in Int, NEW b \in Nat \ {0}, NEW q \in Int, q * b <= a, a < q * b + b
  PROVE  a \div b = q
BY Division

LEMMA NextMultiple ==
  ASSUME NEW x \in Int, NEW y \in Int, NEW b \in Nat \ {0}
  PROVE  /\ x * b \in Int /\ (x + 1) * b = x * b + b /\ (x - 1) * b = x * b - b
         /\ x < y => x * b + b <= y * b
         /\ x <= y => x * b <= y * b
OBVIOUS

LEMMA SettingTypes ==
  ASSUME NEW s \in Settings
  PROVE  /\ Len(s.refs) \in Nat \ {0}
         /\ Len(s.targets) \in Nat \ {0}
         /\ ProcessNumber(s) \in Nat \ {0}
         /\ ChunkSize(s) \in Nat \ {0}
         /\ ChunkNumber(s) \in Nat
<1>1. Len(s.refs) \in Nat \ {0} /\ Len(s.targets) \in Nat \ {0} /\ s.processes \in Nat \ {0}
  BY SettingsAssumption
<1>2. ProcessNumber(s) \in Nat \ {0}
  BY <1>1 DEF ProcessNumber
<1>3. ChunkSize(s) \in Nat \ {0}
  <2>1. Len(s.targets) \div ProcessNumber(s) \in Nat
    BY <1>1, <1>2
  <2> QED
    BY <2>1 DEF ChunkSize
<1>4. ChunkNumber(s) \in Nat
  BY <1>1, <1>3 DEF ChunkNumber
<1> QED
  BY <1>1, <1>2, <1>3, <1>4

(* The last chunk is neither empty nor beyond the end.                     *)
LEMMA ChunksCover ==
  ASSUME NEW s \in Settings
  PROVE  /\ Len(s.targets) <= ChunkNumber(s) * ChunkSize(s)
         /\ (ChunkNumber(s) - 1) * ChunkSize(s) < Len(s.targets)
<1> DEFINE n == Len(s.targets)
           b == ChunkSize(s)
           q == ChunkNumber(s)
<1>1. n \in Nat \ {0} /\ b \in Nat \ {0} /\ q \in Nat
  BY SettingTypes
<1>2. q = (n + b - 1) \div b
  BY DEF ChunkNumber
<1> HIDE DEF n, b, q
<1>3. q * b <= n + b - 1 /\ n + b - 1 < q * b + b
  <2>1. n + b - 1 \in Int
    BY <1>1
  <2> QED
    BY <1>1, <1>2, <2>1, Division
<1>4. (q - 1) * b = q * b - b /\ q * b \in Int
  BY <1>1, NextMultiple
<1>5. n <= q * b /\ (q - 1) * b < n
  BY <1>1, <1>3, <1>4
<1> QED
  BY <1>5 DEF n, b, q

(* A chunk is a stretch of the list, with at least one target.             *)
LEMMA ChunkBounds ==
  ASSUME NEW s \in Settings, NEW c \in Chunks(s)
  PROVE  /\ ChunkStart(s, c) \in 1 .. Len(s.targets)
         /\ ChunkEnd(s, c) \in ChunkStart(s, c) .. Len(s.targets)
<1> DEFINE n == Len(s.targets)
           b == ChunkSize(s)
           q == ChunkNumber(s)
<1>1. n \in Nat \ {0} /\ b \in Nat \ {0} /\ q \in Nat /\ c \in 1 .. q
  BY SettingTypes DEF Chunks
<1>2. (q - 1) * b < n
  BY ChunksCover
<1>3. /\ ChunkStart(s, c) = (c - 1) * b + 1
      /\ ChunkEnd(s, c) = IF c * b < n THEN c * b ELSE n
  BY DEF ChunkStart, ChunkEnd
<1> HIDE DEF n, b, q
<1>4. /\ (c - 1) * b <= (q - 1) * b /\ (q - 1) * b \in Int
      /\ (c - 1) * b = c * b - b /\ c * b \in Int
  BY <1>1, NextMultiple
<1>5. 0 <= (c - 1) * b
  BY <1>1
<1>6. /\ ChunkStart(s, c) \in 1 .. n
      /\ ChunkEnd(s, c) \in ChunkStart(s, c) .. n
  BY <1>1, <1>2, <1>3, <1>4, <1>5
<1> QED
  BY <1>6 DEF n

(* Every target is in one chunk, the one between whose ends it lies.       *)
LEMMA ChunkOfPair ==
  ASSUME NEW s \in Settings, NEW p \in Pairs(s)
  PROVE  /\ ChunkOf(s, p) \in Chunks(s)
         /\ \A c \in Chunks(s) :
              ChunkOf(s, p) = c <=> ChunkStart(s, c) <= p[2] /\ p[2] <= ChunkEnd(s, c)
<1> DEFINE n == Len(s.targets)
           b == ChunkSize(s)
           q == ChunkNumber(s)
           t == p[2]
           d == (t - 1) \div b
<1>1. n \in Nat \ {0} /\ b \in Nat \ {0} /\ q \in Nat
  BY SettingTypes
<1>2. t \in 1 .. n
  BY DEF Pairs
<1>3. ChunkOf(s, p) = d + 1
  BY DEF ChunkOf
<1>4. n <= q * b
  BY ChunksCover
<1> HIDE DEF n, b, q, t
<1>5. d \in Int /\ d * b <= t - 1 /\ t - 1 < d * b + b
  <2>1. t - 1 \in Int
    BY <1>1, <1>2
  <2> QED
    BY <1>1, <2>1, Division
<1> HIDE DEF d
<1>6. d + 1 \in 1 .. q
  <2>1. d >= 0
    <3> SUFFICES ASSUME d < 0 PROVE FALSE
      BY <1>5
    <3>1. d * b + b <= 0 * b
      BY <1>1, <1>5, NextMultiple
    <3>2. d * b \in Int
      BY <1>1, <1>5, NextMultiple
    <3> QED
      BY <1>1, <1>2, <1>5, <3>1, <3>2
  <2>2. d < q
    <3> SUFFICES ASSUME q <= d PROVE FALSE
      BY <1>1, <1>5
    <3>1. q * b <= d * b /\ q * b \in Int /\ d * b \in Int
      BY <1>1, <1>5, NextMultiple
    <3> QED
      BY <1>1, <1>2, <1>4, <1>5, <3>1
  <2> QED
    BY <1>1, <1>5, <2>1, <2>2
<1>7. ASSUME NEW c \in 1 .. q
      PROVE  d + 1 = c <=> (c - 1) * b + 1 <= t /\ t <= IF c * b < n THEN c * b ELSE n
  <2>1. c \in Int /\ c - 1 \in Int /\ c * b \in Int /\ (c - 1) * b = c * b - b
    BY <1>1, <1>7, NextMultiple
  <2>2. ASSUME d + 1 = c
        PROVE  (c - 1) * b + 1 <= t /\ t <= IF c * b < n THEN c * b ELSE n
    <3>1. d = c - 1 /\ d * b = (c - 1) * b /\ d * b \in Int
      BY <1>1, <1>5, <2>1, <2>2
    <3> QED
      BY <1>1, <1>2, <1>5, <2>1, <3>1
  <2>3. ASSUME (c - 1) * b + 1 <= t, t <= IF c * b < n THEN c * b ELSE n
        PROVE  d + 1 = c
    <3>1. t <= c * b
      BY <1>1, <1>2, <2>1, <2>3
    <3>2. (c - 1) * b <= t - 1 /\ t - 1 < (c - 1) * b + b
      BY <1>1, <1>2, <2>1, <2>3, <3>1
    <3>3. (t - 1) \div b = c - 1
      BY <1>1, <1>2, <2>1, <3>2, QuotientIs
    <3> QED
      BY <1>5, <2>1, <3>3 DEF d
  <2> QED
    BY <2>2, <2>3
<1>8. ASSUME NEW c \in Chunks(s)
      PROVE  ChunkOf(s, p) = c <=> ChunkStart(s, c) <= p[2] /\ p[2] <= ChunkEnd(s, c)
  <2>1. c \in 1 .. q
    BY DEF Chunks, q
  <2>2. /\ ChunkStart(s, c) = (c - 1) * b + 1
        /\ ChunkEnd(s, c) = IF c * b < n THEN c * b ELSE n
    BY DEF ChunkStart, ChunkEnd, b, n
  <2> QED
    BY <1>3, <1>7, <2>1, <2>2 DEF t
<1>9. ChunkOf(s, p) \in Chunks(s)
  BY <1>3, <1>6 DEF Chunks, q
<1> QED
  BY <1>8, <1>9

-----------------------------------------------------------------------------
(* The invariant.  A pair is passed by the worker that has its chunk when  *)
(* both loops of start_run are beyond it, or its comparison has begun.     *)
Before(p, a) == p[1] < a[1] \/ (p[1] = a[1] /\ p[2] < a[2])

Passed(w, p) ==
  Before(p, worker[w].at) \/ (worker[w].step # "pair" /\ p = worker[w].at)

Eligible(p) == ~ TooLarge(p) /\ ~ TooFar(p)

Queued(c) == \E i \in 1 .. Len(queue) : queue[i] = c

Names == { <<finds[p].matches, t>> : p \in Pairs(setting), t \in 0 .. MaxClock }

WorkerState ==
  [chunk : Nat, at : Nat \X Nat, step : {"idle", "pair", "comparing", "writing"},
   name : Names \cup {<<0, 0>>}]

StateOK ==
  /\ finds \in Finds
  /\ worker \in [Workers -> WorkerState]
  /\ started \in [Pairs(setting) -> Nat]
  /\ clock \in 0 .. MaxClock

(* A chunk is in one place: still to be submitted, in the queue once, with *)
(* one worker, or ended; or it was lost with a worker that was killed.     *)
OnePlace ==
  /\ \A i, j \in 1 .. Len(queue) : i < j => queue[i] < queue[j]
  /\ \A i \in 1 .. Len(queue) : queue[i] <= submitted /\ queue[i] \notin ended
  /\ \A c \in ended : c <= submitted
  /\ \A w \in Workers :
       Busy(w) => /\ worker[w].chunk <= submitted
                  /\ worker[w].chunk \notin ended
                  /\ ~ Queued(worker[w].chunk)
  /\ \A v, w \in Workers :
       Busy(v) /\ Busy(w) /\ worker[v].chunk = worker[w].chunk => v = w
  /\ main = "finished" => ended = Chunks(setting)

(* A worker is at a target of its chunk, or it has compared all; only      *)
(* pairs of files that are small and close enough are compared.            *)
Positioned ==
  \A w \in Workers : Busy(w) =>
    /\ worker[w].at[1] \in 1 .. Len(setting.refs) + 1
    /\ worker[w].at[2] \in ChunkStart(setting, worker[w].chunk) ..
                           ChunkEnd(setting, worker[w].chunk)
    /\ worker[w].step # "pair" =>
         worker[w].at[1] <= Len(setting.refs) /\ Eligible(worker[w].at)

(* How often a pair was compared follows from where its chunk is.          *)
Counted ==
  \A p \in Pairs(setting) :
    /\ started[p] <= 1
    /\ ~ Eligible(p) => started[p] = 0
    /\ ChunkOf(setting, p) > submitted \/ Queued(ChunkOf(setting, p)) => started[p] = 0
    /\ \A w \in Workers :
         Busy(w) /\ worker[w].chunk = ChunkOf(setting, p) /\ Eligible(p) =>
           started[p] = IF Passed(w, p) THEN 1 ELSE 0
    /\ ChunkOf(setting, p) \in ended \ raised /\ Eligible(p) => started[p] = 1

PoolInv == TypeOK /\ StateOK /\ OnePlace /\ Positioned /\ Counted

-----------------------------------------------------------------------------
(* While the setting stays, so do workers, files and sizes.                *)
LEMMA SettingKept ==
  ASSUME setting' = setting, finds' = finds
  PROVE  /\ Workers' = Workers
         /\ Names' = Names
         /\ WorkerState' = WorkerState
         /\ \A p : Eligible(p)' <=> Eligible(p)
<1>1. Workers' = Workers /\ Names' = Names
  BY DEF Workers, Names
<1>2. ASSUME NEW p PROVE Eligible(p)' <=> Eligible(p)
  BY DEF Eligible, TooLarge, TooFar, RefOf, TargetOf
<1> QED
  BY <1>1, <1>2 DEF WorkerState

(* What is at hand when a worker makes a step.                             *)
LEMMA BusyWorker ==
  ASSUME PoolInv, NEW w \in Workers, Busy(w)
  PROVE  /\ setting \in Settings
         /\ worker[w] \in WorkerState
         /\ worker[w].chunk \in Chunks(setting)
         /\ worker[w].chunk \in Nat /\ submitted \in Nat
         /\ worker[w].at \in Nat \X Nat
         /\ worker[w].at = <<worker[w].at[1], worker[w].at[2]>>
         /\ worker[w].at[1] \in Nat /\ worker[w].at[2] \in Nat
         /\ Len(setting.refs) \in Nat /\ Len(setting.targets) \in Nat
         /\ ChunkStart(setting, worker[w].chunk) \in Nat
         /\ ChunkEnd(setting, worker[w].chunk) \in Nat
         /\ 1 <= ChunkStart(setting, worker[w].chunk)
         /\ ChunkStart(setting, worker[w].chunk) <= ChunkEnd(setting, worker[w].chunk)
         /\ ChunkEnd(setting, worker[w].chunk) <= Len(setting.targets)
         /\ worker[w].at[1] <= Len(setting.refs) =>
              /\ worker[w].at \in Pairs(setting)
              /\ ChunkOf(setting, worker[w].at) = worker[w].chunk
<1>1. setting \in Settings /\ worker[w] \in WorkerState /\ worker[w].chunk \in Chunks(setting)
  BY DEF PoolInv, TypeOK, StateOK
<1>2. worker[w].chunk \in Nat /\ submitted \in Nat /\ worker[w].at \in Nat \X Nat
  BY <1>1, SettingTypes DEF WorkerState, PoolInv, TypeOK
<1>3. Len(setting.refs) \in Nat /\ Len(setting.targets) \in Nat
  BY <1>1, SettingTypes
<1>4. /\ ChunkStart(setting, worker[w].chunk) \in 1 .. Len(setting.targets)
      /\ ChunkEnd(setting, worker[w].chunk) \in
           ChunkStart(setting, worker[w].chunk) .. Len(setting.targets)
  BY <1>1, ChunkBounds
<1>5. ASSUME worker[w].at[1] <= Len(setting.refs)
      PROVE  /\ worker[w].at \in Pairs(setting)
             /\ ChunkOf(setting, worker[w].at) = worker[w].chunk
  <2>1. /\ worker[w].at[1] \in 1 .. Len(setting.refs)
        /\ worker[w].at[2] \in ChunkStart(setting, worker[w].chunk) ..
                               ChunkEnd(setting, worker[w].chunk)
    BY <1>2, <1>3, <1>5 DEF PoolInv, Positioned
  <2>2. worker[w].at \in Pairs(setting)
    BY <1>2, <1>3, <1>4, <2>1 DEF Pairs
  <2> QED
    BY <1>1, <1>3, <1>4, <2>1, <2>2, ChunkOfPair
<1> QED
  BY <1>1, <1>2, <1>3, <1>4, <1>5

(* The pair after the one at hand is the next of the chunk: no pair of the *)
(* chunk lies between them, and after the last one there is none.          *)
LEMMA NextPair ==
  ASSUME NEW s \in Settings, NEW c \in Chunks(s), NEW a \in Nat \X Nat,
         a[1] \in 1 .. Len(s.refs), a[2] \in ChunkStart(s, c) .. ChunkEnd(s, c)
  PROVE  /\ AfterPair(s, c, a) \in Nat \X Nat
         /\ AfterPair(s, c, a)[1] \in 1 .. Len(s.refs) + 1
         /\ AfterPair(s, c, a)[2] \in ChunkStart(s, c) .. ChunkEnd(s, c)
         /\ \A p \in Pairs(s) : ChunkOf(s, p) = c =>
              (Before(p, AfterPair(s, c, a)) <=> Before(p, a) \/ p = a)
<1>1. /\ ChunkStart(s, c) \in Nat /\ ChunkEnd(s, c) \in Nat
      /\ ChunkStart(s, c) <= ChunkEnd(s, c) /\ Len(s.refs) \in Nat
  BY ChunkBounds, SettingTypes
<1>2. /\ AfterPair(s, c, a) \in Nat \X Nat
      /\ AfterPair(s, c, a)[1] \in 1 .. Len(s.refs) + 1
      /\ AfterPair(s, c, a)[2] \in ChunkStart(s, c) .. ChunkEnd(s, c)
  BY <1>1 DEF AfterPair
<1>3. ASSUME NEW p \in Pairs(s), ChunkOf(s, p) = c
      PROVE  Before(p, AfterPair(s, c, a)) <=> Before(p, a) \/ p = a
  <2>1. ChunkStart(s, c) <= p[2] /\ p[2] <= ChunkEnd(s, c)
    BY <1>3, ChunkOfPair
  <2>2. p[1] \in Nat /\ p[2] \in Nat /\ p = <<p[1], p[2]>> /\ a = <<a[1], a[2]>>
    BY SettingTypes DEF Pairs
  <2> QED
    BY <1>1, <2>1, <2>2 DEF AfterPair, Before
<1> QED
  BY <1>2, <1>3

-----------------------------------------------------------------------------
(* The pool starts with nothing submitted.                                 *)
LEMMA InitInv == Init => PoolInv
<1> SUFFICES ASSUME Init PROVE PoolInv
  OBVIOUS
<1>0. setting \in Settings /\ finds \in Finds /\ \A w \in Workers : worker[w] = Idle
  BY DEF Init
<1>1. ~ \E w \in Workers : Busy(w)
  BY <1>0 DEF Busy, Idle
<1>2. TypeOK
  BY <1>0, <1>1, SettingTypes DEF Init, TypeOK
<1>3. StateOK
  <2>1. Idle \in WorkerState
    BY DEF Idle, NoPair, WorkerState
  <2> QED
    BY <2>1, ClockAssumption DEF Init, StateOK
<1>4. OnePlace
  BY <1>1 DEF Init, OnePlace
<1>5. Positioned
  BY <1>1 DEF Positioned
<1>6. Counted
  BY <1>1 DEF Init, Counted
<1> QED
  BY <1>2, <1>3, <1>4, <1>5, <1>6 DEF PoolInv

(* Steps that touch neither the chunks nor the pairs.                      *)
LEMMA OtherStep ==
  ASSUME PoolInv,
         UNCHANGED <<setting, finds, main, submitted, queue, worker, ended, raised, started>>,
         clock' \in 0 .. MaxClock
  PROVE  PoolInv'
<1>1. /\ Workers' = Workers /\ WorkerState' = WorkerState
      /\ \A p : Eligible(p)' <=> Eligible(p)
  BY SettingKept
<1>2. TypeOK' /\ StateOK'
  BY <1>1 DEF PoolInv, TypeOK, StateOK, Busy
<1>3. OnePlace'
  BY <1>1 DEF PoolInv, OnePlace, Busy, Queued
<1>4. Positioned'
  BY <1>1 DEF PoolInv, Positioned, Busy
<1>5. Counted'
  BY <1>1 DEF PoolInv, Counted, Busy, Queued, Passed
<1> QED
  BY <1>2, <1>3, <1>4, <1>5 DEF PoolInv

(* A worker done with a pair turns to the next: comparisons that have      *)
(* ended, and pairs that are skipped.                                      *)
LEMMA GoOnStep ==
  ASSUME PoolInv, NEW w \in Workers, Busy(w), worker[w].at[1] <= Len(setting.refs),
         worker[w].step # "pair" \/ ~ Eligible(worker[w].at),
         GoOn(w), UNCHANGED <<setting, finds, poolVars, started, clock>>
  PROVE  PoolInv'
<1> DEFINE c == worker[w].chunk
           a == worker[w].at
           b == AfterPair(setting, c, a)
<1>1. /\ Workers' = Workers /\ WorkerState' = WorkerState
      /\ \A p : Eligible(p)' <=> Eligible(p)
  BY SettingKept
<1>2. /\ UNCHANGED <<setting, finds, started, clock, main, submitted, queue, ended, raised>>
      /\ worker \in [Workers -> WorkerState]
  BY DEF poolVars, PoolInv, StateOK
<1>3. worker' = [worker EXCEPT ![w] = [Idle EXCEPT !.chunk = c, !.step = "pair", !.at = b]]
  BY DEF GoOn
<1>4. /\ a[1] \in 1 .. Len(setting.refs)
      /\ a[2] \in ChunkStart(setting, c) .. ChunkEnd(setting, c)
  BY BusyWorker DEF PoolInv, Positioned
<1>5. /\ b \in Nat \X Nat
      /\ b[1] \in 1 .. Len(setting.refs) + 1
      /\ b[2] \in ChunkStart(setting, c) .. ChunkEnd(setting, c)
      /\ \A p \in Pairs(setting) : ChunkOf(setting, p) = c =>
           (Before(p, b) <=> Before(p, a) \/ p = a)
  BY <1>4, BusyWorker, NextPair, SMTT(20)
<1>6. /\ worker'[w] = [chunk |-> c, at |-> b, step |-> "pair", name |-> <<0, 0>>]
      /\ \A v \in Workers : v # w => worker'[v] = worker[v]
  BY <1>2, <1>3 DEF Idle
<1>7. worker'[w] \in WorkerState
  BY <1>5, <1>6, BusyWorker DEF WorkerState
<1> HIDE DEF b
<1>8. /\ \A v \in Workers : (Busy(v)' <=> Busy(v))
      /\ \A v \in Workers : worker'[v].chunk = worker[v].chunk
  BY <1>6 DEF Busy
<1>9. TypeOK' /\ StateOK'
  <2>1. worker' \in [Workers -> WorkerState]
    BY <1>2, <1>3, <1>6, <1>7
  <2> QED
    BY <1>1, <1>2, <1>8, <2>1 DEF PoolInv, TypeOK, StateOK
<1>10. OnePlace'
  BY <1>1, <1>2, <1>8 DEF PoolInv, OnePlace, Queued
<1>11. Positioned'
  BY <1>1, <1>2, <1>5, <1>6, <1>8 DEF PoolInv, Positioned
<1>12. Counted'
  <2>1. ASSUME NEW p \in Pairs(setting), NEW v \in Workers, Busy(v),
               worker[v].chunk = ChunkOf(setting, p), Eligible(p)
        PROVE  started[p] = IF Passed(v, p)' THEN 1 ELSE 0
    <3>1. started[p] = IF Passed(v, p) THEN 1 ELSE 0
      BY <2>1 DEF PoolInv, Counted
    <3>2. CASE v # w
      BY <1>6, <3>1, <3>2 DEF Passed
    <3>3. CASE v = w
      <4>1. Passed(w, p)' <=> Before(p, a) \/ p = a
        BY <1>5, <1>6, <2>1, <3>3 DEF Passed
      <4>2. Passed(w, p) <=> Before(p, a) \/ p = a
        BY <2>1 DEF Passed
      <4> QED
        BY <3>1, <3>3, <4>1, <4>2
    <3> QED
      BY <3>2, <3>3
  <2> QED
    BY <1>1, <1>2, <1>8, <2>1 DEF PoolInv, Counted, Queued
<1> QED
  BY <1>9, <1>10, <1>11, <1>12 DEF PoolInv

(* A worker lets go of its chunk: it has done with it, raised, or died.    *)
LEMMA LetGoStep ==
  ASSUME PoolInv, NEW w \in Workers, Busy(w),
         worker' = [worker EXCEPT ![w] = Idle],
         UNCHANGED <<setting, finds, main, submitted, queue, started, clock>>,
         \/ UNCHANGED <<ended, raised>>
         \/ /\ ended' = ended \cup {worker[w].chunk}
            /\ raised' = raised \cup {worker[w].chunk}
         \/ /\ worker[w].step = "pair"
            /\ worker[w].at[1] > Len(setting.refs)
            /\ ended' = ended \cup {worker[w].chunk}
            /\ UNCHANGED raised
  PROVE  PoolInv'
<1> DEFINE c == worker[w].chunk
<1>1. /\ Workers' = Workers /\ WorkerState' = WorkerState
      /\ \A p : Eligible(p)' <=> Eligible(p)
  BY SettingKept
<1>2. worker \in [Workers -> WorkerState] /\ c \in Chunks(setting)
  BY BusyWorker DEF PoolInv, StateOK
<1>3. /\ ~ Busy(w)'
      /\ \A v \in Workers : v # w => worker'[v] = worker[v] /\ (Busy(v)' <=> Busy(v))
  BY <1>2 DEF Busy, Idle
<1>4. ended' \subseteq ended \cup {c}
  OBVIOUS
<1>5. TypeOK' /\ StateOK'
  <2>1. worker' \in [Workers -> WorkerState]
    BY <1>2 DEF Idle, NoPair, WorkerState
  <2>2. \A v \in Workers' : Busy(v)' => worker'[v].chunk \in Chunks(setting')
    BY <1>1, <1>3 DEF PoolInv, TypeOK
  <2>3. ended' \subseteq Chunks(setting') /\ raised' \subseteq ended'
    BY <1>2 DEF PoolInv, TypeOK
  <2> QED
    BY <1>1, <2>1, <2>2, <2>3 DEF PoolInv, TypeOK, StateOK
<1>6. OnePlace'
  <2>1. \A v \in Workers : v # w /\ Busy(v) => worker[v].chunk # c
    BY DEF PoolInv, OnePlace
  <2>2. c <= submitted /\ ~ Queued(c) /\ c \notin ended
    BY DEF PoolInv, OnePlace
  <2>3. main' # "finished"
    BY <1>2, <2>2 DEF PoolInv, OnePlace
  <2>4. \A i \in 1 .. Len(queue) : queue[i] # c
    BY <2>2 DEF Queued
  <2> QED
    BY <1>1, <1>3, <1>4, <2>1, <2>2, <2>3, <2>4 DEF PoolInv, OnePlace, Queued
<1>7. Positioned'
  BY <1>1, <1>3 DEF PoolInv, Positioned
<1>8. Counted'
  <2>1. ASSUME NEW p \in Pairs(setting), ChunkOf(setting, p) \in ended' \ raised', Eligible(p)
        PROVE  started[p] = 1
    <3>1. CASE ChunkOf(setting, p) \in ended \ raised
      BY <2>1, <3>1 DEF PoolInv, Counted
    <3>2. CASE ~ (ChunkOf(setting, p) \in ended \ raised)
      <4>1. ChunkOf(setting, p) = c /\ worker[w].at[1] > Len(setting.refs)
        BY <2>1, <3>2
      <4>2. p[1] <= Len(setting.refs) /\ p[1] \in Nat
        BY SettingTypes, BusyWorker DEF Pairs
      <4>3. Passed(w, p)
        BY <4>1, <4>2, BusyWorker DEF Passed, Before
      <4> QED
        BY <2>1, <4>1, <4>3 DEF PoolInv, Counted
    <3> QED
      BY <3>1, <3>2
  <2>2. ASSUME NEW p \in Pairs(setting), NEW v \in Workers, Busy(v)',
               worker'[v].chunk = ChunkOf(setting, p), Eligible(p)
        PROVE  started[p] = IF Passed(v, p)' THEN 1 ELSE 0
    BY <1>3, <2>2 DEF PoolInv, Counted, Passed
  <2> QED
    BY <1>1, <2>1, <2>2 DEF PoolInv, Counted, Queued
<1> QED
  BY <1>5, <1>6, <1>7, <1>8 DEF PoolInv

(* A chunk enters the queue behind all others.                             *)
LEMMA SubmitStep == PoolInv /\ ApplyAsync => PoolInv'
<1> SUFFICES ASSUME PoolInv, ApplyAsync PROVE PoolInv'
  OBVIOUS
<1>1. /\ Workers' = Workers /\ WorkerState' = WorkerState
      /\ \A p : Eligible(p)' <=> Eligible(p)
  BY SettingKept DEF ApplyAsync
<1>2. /\ UNCHANGED <<setting, finds, main, worker, ended, raised, started, clock>>
      /\ submitted' = submitted + 1 /\ queue' = Append(queue, submitted')
      /\ submitted < ChunkNumber(setting) /\ main = "submitting"
  BY DEF ApplyAsync
<1>3. /\ setting \in Settings /\ ChunkNumber(setting) \in Nat
      /\ submitted \in Nat /\ queue \in Seq(Chunks(setting))
  BY SettingTypes DEF PoolInv, TypeOK
<1>4. submitted' \in Chunks(setting) /\ submitted' \in Nat
  BY <1>2, <1>3 DEF Chunks
<1>5. /\ Len(queue') = Len(queue) + 1 /\ Len(queue) \in Nat
      /\ \A i \in 1 .. Len(queue) : queue'[i] = queue[i] /\ queue[i] \in Nat
      /\ queue'[Len(queue')] = submitted + 1
  BY <1>2, <1>3, <1>4 DEF Chunks
<1>6. \A w \in Workers : Busy(w)' <=> Busy(w)
  BY <1>2 DEF Busy
<1>7. \A c : Queued(c)' <=> Queued(c) \/ c = submitted + 1
  BY <1>5 DEF Queued
<1>8. TypeOK' /\ StateOK'
  <2>1. queue' \in Seq(Chunks(setting))
    BY <1>2, <1>3, <1>4
  <2> QED
    BY <1>1, <1>2, <1>3, <1>6, <2>1 DEF PoolInv, TypeOK, StateOK
<1>9. OnePlace'
  <2>1. ended \subseteq Nat /\ \A c \in ended : c <= submitted
    BY DEF PoolInv, OnePlace, TypeOK, Chunks
  <2>2. submitted + 1 \notin ended
    BY <1>3, <2>1
  <2>3. \A i, j \in 1 .. Len(queue') : i < j => queue'[i] < queue'[j]
    BY <1>3, <1>5 DEF PoolInv, OnePlace
  <2>4. \A i \in 1 .. Len(queue') : queue'[i] <= submitted' /\ queue'[i] \notin ended'
    BY <1>2, <1>3, <1>5, <2>2 DEF PoolInv, OnePlace
  <2>5. \A w \in Workers :
          Busy(w) => /\ worker[w].chunk <= submitted'
                     /\ worker[w].chunk \notin ended
                     /\ ~ Queued(worker[w].chunk)'
    <3> SUFFICES ASSUME NEW w \in Workers, Busy(w)
                 PROVE  /\ worker[w].chunk <= submitted'
                        /\ worker[w].chunk \notin ended
                        /\ ~ Queued(worker[w].chunk)'
      OBVIOUS
    <3>1. /\ worker[w].chunk \in Nat /\ worker[w].chunk <= submitted
          /\ worker[w].chunk \notin ended /\ ~ Queued(worker[w].chunk)
      BY BusyWorker DEF PoolInv, OnePlace
    <3> QED
      BY <1>2, <1>3, <1>7, <3>1
  <2>6. \A c \in ended : c <= submitted'
    BY <1>2, <1>3, <2>1
  <2> QED
    BY <1>1, <1>2, <1>6, <2>3, <2>4, <2>5, <2>6 DEF PoolInv, OnePlace
<1>10. Positioned'
  BY <1>1, <1>2, <1>6 DEF PoolInv, Positioned
<1>11. Counted'
  <2>1. ASSUME NEW p \in Pairs(setting),
               ChunkOf(setting, p) > submitted' \/ Queued(ChunkOf(setting, p))'
        PROVE  started[p] = 0
    <3>1. ChunkOf(setting, p) \in Nat
      BY <1>3, ChunkOfPair DEF Chunks
    <3>2. ChunkOf(setting, p) > submitted \/ Queued(ChunkOf(setting, p))
      BY <1>2, <1>3, <1>7, <2>1, <3>1
    <3> QED
      BY <3>2 DEF PoolInv, Counted
  <2> QED
    BY <1>1, <1>2, <1>6, <2>1 DEF PoolInv, Counted, Passed
<1> QED
  BY <1>8, <1>9, <1>10, <1>11 DEF PoolInv

(* close and join, which change nothing but where main is.                 *)
LEMMA MainStays ==
  ASSUME PoolInv, main' \in {"joining", "finished"},
         main' = "finished" => ended = Chunks(setting),
         UNCHANGED <<setting, finds, submitted, queue, worker, ended, raised, started, clock>>
  PROVE  PoolInv'
<1>1. /\ Workers' = Workers /\ WorkerState' = WorkerState
      /\ \A p : Eligible(p)' <=> Eligible(p)
  BY SettingKept
<1>2. TypeOK' /\ StateOK'
  BY <1>1 DEF PoolInv, TypeOK, StateOK, Busy
<1>3. OnePlace'
  BY <1>1 DEF PoolInv, OnePlace, Busy, Queued
<1>4. Positioned'
  BY <1>1 DEF PoolInv, Positioned, Busy
<1>5. Counted'
  BY <1>1 DEF PoolInv, Counted, Busy, Queued, Passed
<1> QED
  BY <1>2, <1>3, <1>4, <1>5 DEF PoolInv

(* A chunk goes from the queue to a worker, at its first pair.             *)
LEMMA TakeStep ==
  ASSUME PoolInv, NEW w \in Workers, Take(w)
  PROVE  PoolInv'
<1> DEFINE c == Head(queue)
           a == <<1, ChunkStart(setting, c)>>
           Left(d) == \E i \in 1 .. Len(queue') : queue'[i] = d
<1>1. /\ Workers' = Workers /\ WorkerState' = WorkerState
      /\ \A p : Eligible(p)' <=> Eligible(p)
  BY SettingKept DEF Take
<1>2. /\ UNCHANGED <<setting, finds, main, submitted, ended, raised, started, clock>>
      /\ queue' = Tail(queue) /\ queue # <<>> /\ worker[w].step = "idle"
      /\ worker' = [worker EXCEPT ![w] = [Idle EXCEPT !.chunk = c, !.step = "pair", !.at = a]]
  BY DEF Take
<1>3. /\ setting \in Settings /\ submitted \in Nat /\ queue \in Seq(Chunks(setting))
      /\ worker \in [Workers -> WorkerState]
  BY SettingTypes DEF PoolInv, TypeOK, StateOK
<1>4. /\ Len(queue) \in Nat /\ Len(queue) >= 1 /\ c = queue[1] /\ c \in Chunks(setting)
      /\ Len(queue') = Len(queue) - 1
      /\ \A i \in 1 .. Len(queue') : queue'[i] = queue[i + 1]
  BY <1>2, <1>3
<1>5. c \in Nat /\ \A i \in 1 .. Len(queue) : queue[i] \in Nat
  BY <1>3, <1>4, SettingTypes DEF Chunks
<1>6. /\ ChunkStart(setting, c) \in Nat /\ ChunkEnd(setting, c) \in Nat
      /\ 1 <= ChunkStart(setting, c)
      /\ ChunkStart(setting, c) <= ChunkEnd(setting, c)
      /\ Len(setting.refs) \in Nat \ {0}
  BY <1>3, <1>4, ChunkBounds, SettingTypes
<1>7. /\ worker'[w] = [chunk |-> c, at |-> a, step |-> "pair", name |-> <<0, 0>>]
      /\ \A v \in Workers : v # w => worker'[v] = worker[v]
  BY <1>2, <1>3 DEF Idle
<1>8. worker'[w] \in WorkerState
  BY <1>5, <1>6, <1>7 DEF WorkerState
<1> HIDE DEF c
<1>9. /\ Busy(w)' /\ ~ Busy(w)
      /\ \A v \in Workers : v # w => (Busy(v)' <=> Busy(v))
  BY <1>2, <1>7 DEF Busy
<1>10. \A d : Left(d) <=> Queued(d) /\ d # c
  <2>1. \A i \in 1 .. Len(queue) : i # 1 => queue[i] # c
    BY <1>4, <1>5 DEF PoolInv, OnePlace
  <2>2. ASSUME NEW d, Left(d) PROVE Queued(d) /\ d # c
    <3>1. PICK i \in 1 .. Len(queue') : queue'[i] = d
      BY <2>2
    <3>2. i + 1 \in 1 .. Len(queue) /\ queue[i + 1] = d /\ i + 1 # 1
      BY <1>4, <3>1
    <3> QED
      BY <2>1, <3>2 DEF Queued
  <2>3. ASSUME NEW d, Queued(d), d # c PROVE Left(d)
    <3>1. PICK i \in 1 .. Len(queue) : queue[i] = d
      BY <2>3 DEF Queued
    <3>2. i - 1 \in 1 .. Len(queue') /\ queue'[i - 1] = d
      BY <1>4, <2>3, <3>1
    <3> QED
      BY <3>2
  <2> QED
    BY <2>2, <2>3
<1>11. c <= submitted /\ c \notin ended /\ Queued(c)
  BY <1>4 DEF PoolInv, OnePlace, Queued
<1>12. \A v \in Workers : v # w /\ Busy(v) => worker[v].chunk # c
  BY <1>11 DEF PoolInv, OnePlace
<1>13. TypeOK' /\ StateOK'
  <2>1. worker' \in [Workers -> WorkerState]
    BY <1>2, <1>3, <1>7, <1>8
  <2>2. queue' \in Seq(Chunks(setting))
    BY <1>2, <1>3
  <2>3. \A v \in Workers : Busy(v)' => worker'[v].chunk \in Chunks(setting)
    BY <1>4, <1>7, <1>9 DEF PoolInv, TypeOK
  <2> QED
    BY <1>1, <1>2, <2>1, <2>2, <2>3 DEF PoolInv, TypeOK, StateOK
<1>14. OnePlace'
  <2>1. \A i, j \in 1 .. Len(queue') : i < j => queue'[i] < queue'[j]
    BY <1>4, SMTT(20) DEF PoolInv, OnePlace
  <2>2. \A i \in 1 .. Len(queue') : queue'[i] <= submitted /\ queue'[i] \notin ended
    BY <1>4 DEF PoolInv, OnePlace
  <2>3. \A v \in Workers :
          Busy(v)' => /\ worker'[v].chunk <= submitted
                      /\ worker'[v].chunk \notin ended
                      /\ ~ Left(worker'[v].chunk)
    <3>1. /\ worker'[w].chunk = c
          /\ \A v \in Workers : v # w => worker'[v].chunk = worker[v].chunk
      BY <1>7
    <3>3. ~ Left(c)
      BY <1>10
    <3>2. \A v \in Workers :
            v # w /\ Busy(v) => /\ worker[v].chunk <= submitted
                               /\ worker[v].chunk \notin ended
                               /\ ~ Left(worker[v].chunk)
      BY <1>10 DEF PoolInv, OnePlace
    <3> QED
      BY <1>9, <1>11, <3>1, <3>2, <3>3
  <2>4. \A u, v \in Workers :
          Busy(u)' /\ Busy(v)' /\ worker'[u].chunk = worker'[v].chunk => u = v
    BY <1>7, <1>9, <1>12 DEF PoolInv, OnePlace
  <2>5. /\ \A d \in ended : d <= submitted
        /\ main = "finished" => ended = Chunks(setting)
    BY DEF PoolInv, OnePlace
  <2> QED
    BY <1>1, <1>2, <2>1, <2>2, <2>3, <2>4, <2>5 DEF OnePlace, Queued
<1>15. Positioned'
  BY <1>1, <1>2, <1>6, <1>7, <1>9 DEF PoolInv, Positioned
<1>16. Counted'
  <2>1. ASSUME NEW p \in Pairs(setting), NEW v \in Workers, Busy(v)',
               worker'[v].chunk = ChunkOf(setting, p), Eligible(p)
        PROVE  started[p] = IF Passed(v, p)' THEN 1 ELSE 0
    <3>1. CASE v # w
      BY <1>7, <1>9, <2>1, <3>1 DEF PoolInv, Counted, Passed
    <3>2. CASE v = w
      <4>1. started[p] = 0
        BY <1>7, <1>11, <2>1, <3>2 DEF PoolInv, Counted
      <4>2. ChunkStart(setting, c) <= p[2] /\ p[1] >= 1 /\ p[1] \in Nat /\ p[2] \in Nat
        BY <1>3, <1>4, <1>6, <1>7, <2>1, <3>2, ChunkOfPair, SettingTypes DEF Pairs
      <4>3. ~ Passed(w, p)'
        BY <1>6, <1>7, <4>2 DEF Passed, Before
      <4> QED
        BY <3>2, <4>1, <4>3
    <3> QED
      BY <3>1, <3>2
  <2> QED
    BY <1>1, <1>2, <1>10, <2>1 DEF PoolInv, Counted, Queued
<1> QED
  BY <1>13, <1>14, <1>15, <1>16 DEF PoolInv

(* A comparison begins: the pair counts once more, and it is passed.       *)
LEMMA CompareStep ==
  ASSUME PoolInv, NEW w \in Workers, StartComparison(w)
  PROVE  PoolInv'
<1> DEFINE c == worker[w].chunk
           a == worker[w].at
<1>1. /\ Workers' = Workers /\ WorkerState' = WorkerState
      /\ \A p : Eligible(p)' <=> Eligible(p)
  BY SettingKept DEF StartComparison
<1>2. /\ UNCHANGED <<setting, finds, main, submitted, queue, ended, raised, clock>>
      /\ worker[w].step = "pair" /\ a[1] <= Len(setting.refs) /\ Eligible(a)
      /\ started' = [started EXCEPT ![a] = @ + 1]
      /\ worker' = [worker EXCEPT ![w].step = "comparing"]
  BY DEF StartComparison, AtPair, poolVars, Eligible
<1>3. /\ worker \in [Workers -> WorkerState] /\ started \in [Pairs(setting) -> Nat]
      /\ Busy(w) /\ worker[w] \in WorkerState
  BY <1>2 DEF PoolInv, StateOK, Busy
<1>4. a \in Pairs(setting) /\ ChunkOf(setting, a) = c
  BY <1>2, <1>3, BusyWorker
<1>5. /\ worker'[w].chunk = c /\ worker'[w].at = a /\ worker'[w].step = "comparing"
      /\ worker'[w] \in WorkerState
      /\ \A v \in Workers : v # w => worker'[v] = worker[v]
  BY <1>2, <1>3 DEF WorkerState
<1>6. \A v \in Workers : (Busy(v)' <=> Busy(v)) /\ worker'[v].chunk = worker[v].chunk
                         /\ worker'[v].at = worker[v].at
  BY <1>3, <1>5 DEF Busy
<1>7. started[a] = 0
  <2>1. ~ Passed(w, a)
    BY <1>2, <1>3, BusyWorker DEF Passed, Before
  <2> QED
    BY <1>2, <1>3, <1>4, <2>1 DEF PoolInv, Counted
<1>8. /\ started'[a] = 1
      /\ \A p \in Pairs(setting) : p # a => started'[p] = started[p]
  BY <1>2, <1>3, <1>4, <1>7
<1>9. TypeOK' /\ StateOK'
  <2>1. started' \in [Pairs(setting) -> Nat]
    BY <1>2, <1>3, <1>4
  <2>2. worker' \in [Workers -> WorkerState]
    BY <1>2, <1>3, <1>5
  <2> QED
    BY <1>1, <1>2, <1>6, <2>1, <2>2 DEF PoolInv, TypeOK, StateOK
<1>10. OnePlace'
  BY <1>1, <1>2, <1>6 DEF PoolInv, OnePlace, Queued
<1>11. Positioned'
  BY <1>1, <1>2, <1>3, <1>5, <1>6 DEF PoolInv, Positioned
<1>12. c <= submitted /\ c \notin ended /\ ~ Queued(c)
  BY <1>3 DEF PoolInv, OnePlace
<1>13. ASSUME NEW p \in Pairs(setting), p # a,
              NEW v \in Workers, Busy(v), worker[v].chunk = ChunkOf(setting, p), Eligible(p)
       PROVE  started[p] = IF Passed(v, p)' THEN 1 ELSE 0
  <2>1. started[p] = IF Passed(v, p) THEN 1 ELSE 0
    BY <1>13 DEF PoolInv, Counted
  <2>2. Passed(v, p)' <=> Passed(v, p)
    BY <1>2, <1>5, <1>13 DEF Passed
  <2> QED
    BY <2>1, <2>2
<1>14. ASSUME NEW v \in Workers, Busy(v), worker[v].chunk = c
       PROVE  Passed(v, a)'
  <2>1. v = w
    BY <1>3, <1>14 DEF PoolInv, OnePlace
  <2> QED
    BY <1>5, <2>1 DEF Passed
<1>15. Counted'
  <2> SUFFICES ASSUME NEW p \in Pairs(setting)
               PROVE  /\ started'[p] <= 1
                      /\ ~ Eligible(p) => started'[p] = 0
                      /\ ChunkOf(setting, p) > submitted \/ Queued(ChunkOf(setting, p)) =>
                           started'[p] = 0
                      /\ \A v \in Workers :
                           Busy(v) /\ worker[v].chunk = ChunkOf(setting, p) /\ Eligible(p) =>
                             started'[p] = IF Passed(v, p)' THEN 1 ELSE 0
                      /\ ChunkOf(setting, p) \in ended \ raised /\ Eligible(p) =>
                           started'[p] = 1
    BY <1>1, <1>2, <1>6 DEF Counted, Queued
  <2>1. CASE p # a
    BY <1>8, <1>13, <2>1 DEF PoolInv, Counted
  <2>2. CASE p = a
    <3>1. ~ (c > submitted)
      BY <1>3, <1>12, BusyWorker
    <3> QED
      BY <1>2, <1>4, <1>8, <1>12, <1>14, <2>2, <3>1
  <2> QED
    BY <2>1, <2>2
<1> QED
  BY <1>9, <1>10, <1>11, <1>15 DEF PoolInv

(* The name that is chosen is one of the names there may be.               *)
LEMMA NameChosen ==
  ASSUME PoolInv, NEW p \in Pairs(setting)
  PROVE  /\ MatchName(p) = <<finds[p].matches, clock>>
         /\ MatchName(p) \in Names
         /\ finds[p].matches \in Nat /\ finds[p].length \in Nat
         /\ clock \in 0 .. MaxClock
<1>1. setting \in Settings /\ finds \in Finds /\ clock \in 0 .. MaxClock
  BY DEF PoolInv, TypeOK, StateOK
<1>2. finds[p] \in [matches : Nat, length : Nat]
  BY <1>1, FindsAssumption DEF Pairs
<1> QED
  BY <1>1, <1>2 DEF MatchName, Names

(* The same worker, at the same pair, now with a file that is open.        *)
LEMMA OpenStep ==
  ASSUME PoolInv, NEW w \in Workers, OpenMatchFile(w)
  PROVE  PoolInv'
<1> DEFINE a == worker[w].at
<1>1. /\ Workers' = Workers /\ WorkerState' = WorkerState
      /\ \A p : Eligible(p)' <=> Eligible(p)
  BY SettingKept DEF OpenMatchFile
<1>2. /\ UNCHANGED <<setting, finds, main, submitted, queue, ended, raised, started, clock>>
      /\ worker[w].step = "comparing"
      /\ worker' = [worker EXCEPT ![w] = [@ EXCEPT !.step = "writing", !.name = MatchName(a)]]
  BY DEF OpenMatchFile, poolVars
<1>3. /\ worker \in [Workers -> WorkerState]
      /\ Busy(w) /\ worker[w] \in WorkerState
  BY <1>2 DEF PoolInv, StateOK, Busy
<1>4. a \in Pairs(setting)
  BY <1>2, <1>3, BusyWorker DEF PoolInv, Positioned
<1>5. MatchName(a) \in Names
  BY <1>4, NameChosen
<1>6. /\ worker'[w].chunk = worker[w].chunk /\ worker'[w].at = a /\ worker'[w].step = "writing"
      /\ worker'[w] \in WorkerState
      /\ \A v \in Workers : v # w => worker'[v] = worker[v]
  BY <1>2, <1>3, <1>5 DEF WorkerState
<1>7. \A v \in Workers : /\ Busy(v)' <=> Busy(v)
                         /\ worker'[v].chunk = worker[v].chunk
                         /\ worker'[v].at = worker[v].at
                         /\ worker'[v].step = "pair" <=> worker[v].step = "pair"
  BY <1>2, <1>3, <1>6 DEF Busy
<1>8. \A v \in Workers : \A p : Passed(v, p)' <=> Passed(v, p)
  BY <1>7 DEF Passed
<1>9. TypeOK' /\ StateOK'
  <2>1. worker' \in [Workers -> WorkerState]
    BY <1>2, <1>3, <1>6
  <2> QED
    BY <1>1, <1>2, <1>7, <2>1 DEF PoolInv, TypeOK, StateOK
<1>10. OnePlace'
  BY <1>1, <1>2, <1>7 DEF PoolInv, OnePlace, Queued
<1>11. Positioned'
  BY <1>1, <1>2, <1>7 DEF PoolInv, Positioned
<1>12. Counted'
  BY <1>1, <1>2, <1>7, <1>8 DEF PoolInv, Counted, Queued
<1> QED
  BY <1>9, <1>10, <1>11, <1>12 DEF PoolInv

LEMMA NextInv == PoolInv /\ [Next]_vars => PoolInv'
<1> SUFFICES ASSUME PoolInv, [Next]_vars PROVE PoolInv'
  OBVIOUS
<1>0. clock \in 0 .. MaxClock
  BY DEF PoolInv, StateOK
<1>1. CASE MainStep
  <2>1. CASE ApplyAsync
    BY <2>1, SubmitStep
  <2>2. CASE Close
    BY <2>2, MainStays DEF Close
  <2>3. CASE Join
    BY <2>3, MainStays DEF Join
  <2> QED
    BY <1>1, <2>1, <2>2, <2>3 DEF MainStep
<1>2. ASSUME NEW w \in Workers, Step(w) PROVE PoolInv'
  <2>1. CASE Take(w)
    BY <2>1, TakeStep
  <2>2. CASE Raise(w)
    BY <2>2, LetGoStep DEF Raise, AtPair, Busy
  <2>3. CASE SkipPair(w)
    BY <2>3, GoOnStep DEF SkipPair, AtPair, Eligible, Busy
  <2>4. CASE StartComparison(w)
    BY <2>4, CompareStep
  <2>5. ASSUME worker[w].step \in {"comparing", "writing"}
        PROVE  Busy(w) /\ worker[w].at[1] <= Len(setting.refs) /\ worker[w].step # "pair"
    BY <2>5 DEF Busy, PoolInv, Positioned
  <2>6. CASE ComparisonFails(w)
    BY <2>5, <2>6, GoOnStep DEF ComparisonFails
  <2>7. CASE NoMatch(w)
    BY <2>5, <2>7, GoOnStep DEF NoMatch
  <2>8. CASE OpenMatchFile(w)
    BY <2>8, OpenStep
  <2>9. CASE CloseMatchFile(w)
    BY <2>5, <2>9, GoOnStep DEF CloseMatchFile
  <2>10. CASE EndChunk(w)
    BY <2>10, LetGoStep DEF EndChunk, Busy
  <2> QED
    BY <1>2, <2>1, <2>2, <2>3, <2>4, <2>6, <2>7, <2>8, <2>9, <2>10 DEF Step
<1>3. ASSUME NEW w \in Workers, Kill(w) PROVE PoolInv'
  BY <1>3, LetGoStep DEF Kill, poolVars, Busy
<1>4. CASE Tick
  <2>1. clock' \in 0 .. MaxClock
    BY <1>0, <1>4, ClockAssumption DEF Tick
  <2> QED
    BY <1>4, <2>1, OtherStep DEF Tick, poolVars
<1>5. ASSUME NEW f \in Files(setting), Vanish(f) PROVE PoolInv'
  BY <1>0, <1>5, OtherStep DEF Vanish, poolVars
<1>6. CASE UNCHANGED vars
  BY <1>0, <1>6, OtherStep DEF vars
<1> QED
  BY <1>1, <1>2, <1>3, <1>4, <1>5, <1>6 DEF Next, Stopped

LEMMA Invariance == Spec => []PoolInv
BY InitInv, NextInv, PTL DEF Spec

(* Queue, chunks and workers keep their types (start.py).                  *)
THEOREM TypeCorrect == Spec => []TypeOK
<1>1. PoolInv => TypeOK
  BY DEF PoolInv
<1> QED
  BY <1>1, Invariance, PTL

(* No pair is compared twice, and when "Finished" is logged every pair was *)
(* compared whose sizes allow it, but for chunks whose worker raised: for  *)
(* every number of targets and processes, however the workers interleave.  *)
THEOREM PairsComparedOnce == Spec => []ComparedOnce
<1>1. PoolInv => ComparedOnce
  <2> SUFFICES ASSUME PoolInv PROVE ComparedOnce
    OBVIOUS
  <2>1. \A p \in Pairs(setting) : started[p] <= 1
    BY DEF PoolInv, Counted
  <2>2. ASSUME main = "finished", NEW p \in Pairs(setting)
        PROVE  IF TooLarge(p) \/ TooFar(p) THEN started[p] = 0
               ELSE started[p] = 1 \/ ChunkOf(setting, p) \in raised
    <3>1. ChunkOf(setting, p) \in ended
      BY <2>2, ChunkOfPair DEF PoolInv, TypeOK, OnePlace
    <3> QED
      BY <3>1 DEF PoolInv, Counted, Eligible
  <2> QED
    BY <2>1, <2>2 DEF ComparedOnce
<1> QED
  BY <1>1, Invariance, PTL

-----------------------------------------------------------------------------
(* The match files.  What is in a file was written by pairs that chose its *)
(* name; and as long as no two pairs chose one name, what each has found   *)
(* is in its file, or its worker is still writing it.                      *)
MatchFile == [pair : Pairs(setting) \cup {NoPair}, rest : Pairs(setting) \cup {NoPair}]

Holds(n, p) == p = NoPair \/ <<n[1], n[2], p>> \in named

Writes(w, n, p) ==
  worker[w].step = "writing" /\ worker[w].name = n /\ worker[w].at = p

FilesOK ==
  /\ files \in [Names -> MatchFile]
  /\ \A n \in Names :
       /\ Holds(n, files[n].pair) /\ Holds(n, files[n].rest)
       /\ files[n].rest # NoPair => files[n].pair # NoPair

NamedOK ==
  /\ \A m \in named : \E p \in Pairs(setting), t \in 0 .. MaxClock :
       m = <<finds[p].matches, t, p>>
  /\ \A w \in Workers, n \in Names \cup {<<0, 0>>}, p \in Pairs(setting) :
       Writes(w, n, p) => n \in Names /\ <<n[1], n[2], p>> \in named

Kept ==
  ~ SameSecond =>
    \A m \in named :
      \/ files[<<m[1], m[2]>>] = [pair |-> m[3], rest |-> NoPair]
      \/ \E w \in Workers : Writes(w, <<m[1], m[2]>>, m[3])

ReportInv == FilesOK /\ NamedOK /\ Kept

LEMMA ReportInit == Init => ReportInv
<1> SUFFICES ASSUME Init PROVE ReportInv
  OBVIOUS
<1>1. /\ \A w \in Workers : worker[w].step = "idle"
      /\ named = {} /\ files = [n \in Names |-> Empty]
  BY DEF Init, Idle, Names
<1>2. FilesOK
  BY <1>1 DEF FilesOK, MatchFile, Holds, Empty
<1>3. NamedOK /\ Kept
  BY <1>1 DEF NamedOK, Kept, Writes
<1> QED
  BY <1>2, <1>3 DEF ReportInv

(* A step that neither opens nor closes a match file.                      *)
LEMMA QuietStep ==
  ASSUME ReportInv, UNCHANGED <<setting, finds, files, named>>,
         \A v \in Workers : worker'[v] # worker[v] =>
           worker[v].step # "writing" /\ worker'[v].step # "writing"
  PROVE  ReportInv'
<1>1. Workers' = Workers /\ Names' = Names /\ MatchFile' = MatchFile
  BY DEF Workers, Names, MatchFile
<1>2. ASSUME NEW v \in Workers, NEW n, NEW p PROVE Writes(v, n, p)' <=> Writes(v, n, p)
  BY DEF Writes
<1>3. \A n, p : Holds(n, p)' <=> Holds(n, p)
  BY DEF Holds
<1>4. FilesOK'
  BY <1>1, <1>3 DEF ReportInv, FilesOK
<1>5. NamedOK'
  BY <1>1, <1>2 DEF ReportInv, NamedOK
<1>6. Kept'
  BY <1>1, <1>2 DEF ReportInv, Kept, SameSecond
<1> QED
  BY <1>4, <1>5, <1>6 DEF ReportInv

(* Opening a file empties it; its worker is going to fill it again.  If    *)
(* another pair had chosen this name, they were named in the same second.  *)
LEMMA OpenKeeps ==
  ASSUME PoolInv, ReportInv, NEW w \in Workers, OpenMatchFile(w)
  PROVE  ReportInv'
<1> DEFINE a == worker[w].at
           n == MatchName(a)
           Holding(k, p) == p = NoPair \/ <<k[1], k[2], p>> \in named'
<1>1. Workers' = Workers /\ Names' = Names /\ MatchFile' = MatchFile
  BY DEF OpenMatchFile, Workers, Names, MatchFile
<1>2. /\ UNCHANGED <<setting, finds, clock>>
      /\ worker[w].step = "comparing"
      /\ worker' = [worker EXCEPT ![w] = [@ EXCEPT !.step = "writing", !.name = n]]
      /\ files' = [files EXCEPT ![n] = Empty]
      /\ named' = named \cup {<<finds[a].matches, clock, a>>}
  BY DEF OpenMatchFile
<1>3. /\ worker \in [Workers -> WorkerState]
      /\ Busy(w) /\ worker[w] \in WorkerState
  BY <1>2 DEF PoolInv, StateOK, Busy
<1>4. a \in Pairs(setting)
  BY <1>2, <1>3, BusyWorker DEF PoolInv, Positioned
<1>5. n \in Names /\ n = <<finds[a].matches, clock>> /\ clock \in 0 .. MaxClock
  BY <1>4, NameChosen
<1> HIDE DEF n
<1>6. /\ worker'[w].at = a /\ worker'[w].step = "writing" /\ worker'[w].name = n
      /\ \A v \in Workers : v # w => worker'[v] = worker[v]
  BY <1>2, <1>3, <1>5 DEF WorkerState
<1>7. /\ files' \in [Names -> MatchFile]
      /\ files'[n] = Empty
      /\ \A k \in Names : k # n => files'[k] = files[k]
  BY <1>2, <1>5 DEF ReportInv, FilesOK, MatchFile, Empty
<1>8. <<n[1], n[2], a>> \in named' /\ named \subseteq named'
      /\ named' = named \cup {<<n[1], n[2], a>>}
  BY <1>2, <1>5
<1>9. FilesOK'
  <2>3. ASSUME NEW k \in Names
        PROVE  /\ Holding(k, files'[k].pair) /\ Holding(k, files'[k].rest)
               /\ files'[k].rest # NoPair => files'[k].pair # NoPair
    <3>1. CASE k = n
      BY <1>7, <3>1 DEF Empty
    <3>2. CASE k # n
      BY <1>7, <1>8, <3>2 DEF ReportInv, FilesOK, Holds
    <3> QED
      BY <3>1, <3>2
  <2> QED
    BY <1>1, <1>7, <2>3 DEF FilesOK, Holds
<1>10. ASSUME NEW v \in Workers, NEW k, NEW p, v # w
       PROVE  Writes(v, k, p)' <=> Writes(v, k, p)
  BY <1>6, <1>10 DEF Writes
<1>11. NamedOK'
  <2>1. \A m \in named' : \E p \in Pairs(setting), t \in 0 .. MaxClock :
           m = <<finds[p].matches, t, p>>
    BY <1>2, <1>4, <1>5 DEF ReportInv, NamedOK
  <2>2. ASSUME NEW v \in Workers, NEW k \in Names \cup {<<0, 0>>}, NEW p \in Pairs(setting),
               Writes(v, k, p)'
        PROVE  k \in Names /\ <<k[1], k[2], p>> \in named'
    <3>1. CASE v = w
      BY <1>5, <1>6, <1>8, <2>2, <3>1 DEF Writes
    <3>2. CASE v # w
      BY <1>8, <1>10, <2>2, <3>2 DEF ReportInv, NamedOK
    <3> QED
      BY <3>1, <3>2
  <2> QED
    BY <1>1, <1>2, <2>1, <2>2 DEF NamedOK
<1>12. Kept'
  <2> SUFFICES ASSUME ~ SameSecond', NEW m \in named'
               PROVE  \/ files'[<<m[1], m[2]>>] = [pair |-> m[3], rest |-> NoPair]
                      \/ \E v \in Workers : Writes(v, <<m[1], m[2]>>, m[3])'
    BY <1>1, <1>2 DEF Kept
  <2>1. ~ SameSecond
    BY <1>8 DEF SameSecond
  <2>2. CASE m = <<n[1], n[2], a>>
    BY <1>5, <1>6, <2>2 DEF Writes
  <2>3. CASE m # <<n[1], n[2], a>>
    <3>1. m \in named
      BY <1>8, <2>3
    <3>2. ~ (m[1] = n[1] /\ m[2] = n[2])
      BY <1>8, <2>3 DEF SameSecond
    <3>3. <<m[1], m[2]>> \in Names /\ <<m[1], m[2]>> # n
      <4>1. PICK p \in Pairs(setting), t \in 0 .. MaxClock : m = <<finds[p].matches, t, p>>
        BY <3>1 DEF ReportInv, NamedOK
      <4> QED
        BY <3>2, <4>1 DEF Names
    <3>4. CASE files[<<m[1], m[2]>>] = [pair |-> m[3], rest |-> NoPair]
      BY <1>7, <3>3, <3>4
    <3>5. ASSUME NEW v \in Workers, Writes(v, <<m[1], m[2]>>, m[3])
          PROVE  Writes(v, <<m[1], m[2]>>, m[3])'
      <4>1. v # w
        BY <1>2, <3>5 DEF Writes
      <4> QED
        BY <1>10, <3>5, <4>1
    <3> QED
      BY <2>1, <3>1, <3>4, <3>5 DEF ReportInv, Kept
  <2> QED
    BY <2>2, <2>3
<1> QED
  BY <1>9, <1>11, <1>12 DEF ReportInv

(* Closing a file puts the pair in it; what another pair had written there *)
(* stays behind it only if both have chosen this name.                     *)
LEMMA CloseKeeps ==
  ASSUME PoolInv, ReportInv, NEW w \in Workers, CloseMatchFile(w)
  PROVE  ReportInv'
<1> DEFINE a == worker[w].at
           n == worker[w].name
<1>1. Workers' = Workers /\ Names' = Names /\ MatchFile' = MatchFile
  BY DEF CloseMatchFile, poolVars, Workers, Names, MatchFile
<1>2. /\ UNCHANGED <<setting, finds, named>>
      /\ worker[w].step = "writing" /\ GoOn(w)
      /\ files' = [files EXCEPT ![n] = Written(files[n], a)]
  BY DEF CloseMatchFile
<1>3. /\ worker \in [Workers -> WorkerState]
      /\ Busy(w) /\ worker[w] \in WorkerState
  BY <1>2 DEF PoolInv, StateOK, Busy
<1>4. a \in Pairs(setting)
  BY <1>2, <1>3, BusyWorker DEF PoolInv, Positioned
<1>5. n \in Names \cup {<<0, 0>>}
  BY <1>3 DEF WorkerState
<1>6. n \in Names /\ <<n[1], n[2], a>> \in named
  BY <1>2, <1>4, <1>5 DEF ReportInv, NamedOK, Writes
<1>7. /\ worker'[w].step = "pair"
      /\ \A v \in Workers : v # w => worker'[v] = worker[v]
  BY <1>2, <1>3 DEF GoOn, Idle
<1>8. a # NoPair
  BY <1>4, SettingTypes DEF Pairs, NoPair, PoolInv, TypeOK
<1>9. /\ files \in [Names -> MatchFile] /\ files[n] \in MatchFile
      /\ Written(files[n], a) \in MatchFile
  BY <1>4, <1>6 DEF ReportInv, FilesOK, MatchFile, Written
<1>10. /\ files' \in [Names -> MatchFile]
       /\ files'[n] = Written(files[n], a)
       /\ \A k \in Names : k # n => files'[k] = files[k]
  BY <1>2, <1>6, <1>9
<1> HIDE DEF n
<1>11. \A k, p : Holds(k, p)' <=> Holds(k, p)
  BY <1>2 DEF Holds
<1>12. FilesOK'
  <2>1. ASSUME NEW k \in Names
        PROVE  /\ Holds(k, files'[k].pair) /\ Holds(k, files'[k].rest)
               /\ files'[k].rest # NoPair => files'[k].pair # NoPair
    <3>1. CASE k = n
      <4>1. files'[k].pair = a /\ files'[k].rest \in {files[n].pair, NoPair}
        BY <1>10, <3>1 DEF Written
      <4> QED
        BY <1>6, <1>8, <3>1, <4>1 DEF ReportInv, FilesOK, Holds
    <3>2. CASE k # n
      BY <1>10, <3>2 DEF ReportInv, FilesOK
    <3> QED
      BY <3>1, <3>2
  <2> QED
    BY <1>1, <1>2, <1>10, <2>1 DEF FilesOK, Holds
<1>13. ASSUME NEW v \in Workers, NEW k, NEW p
       PROVE  Writes(v, k, p)' <=> Writes(v, k, p) /\ v # w
  BY <1>7 DEF Writes
<1>14. NamedOK'
  BY <1>1, <1>2, <1>13 DEF ReportInv, NamedOK
<1>15. Kept'
  <2> SUFFICES ASSUME ~ SameSecond, NEW m \in named
               PROVE  \/ files'[<<m[1], m[2]>>] = [pair |-> m[3], rest |-> NoPair]
                      \/ \E v \in Workers : Writes(v, <<m[1], m[2]>>, m[3])'
    BY <1>1, <1>2 DEF Kept, SameSecond
  <2>0. PICK p \in Pairs(setting), t \in 0 .. MaxClock : m = <<finds[p].matches, t, p>>
    BY DEF ReportInv, NamedOK
  <2>1. <<m[1], m[2]>> \in Names
    BY <2>0 DEF Names
  <2>2. CASE <<m[1], m[2]>> = n
    <3>1. m = <<n[1], n[2], a>>
      BY <1>6, <2>2 DEF SameSecond
    <3>2. files[n].pair \in {NoPair, a}
      BY <1>6 DEF ReportInv, FilesOK, Holds, SameSecond
    <3>3. ~ (finds[a].length > finds[a].length)
      BY <1>4, NameChosen
    <3>4. Written(files[n], a) = [pair |-> a, rest |-> NoPair]
      BY <3>2, <3>3 DEF Written
    <3> QED
      BY <1>10, <2>2, <3>1, <3>4, <1>6
  <2>3. CASE <<m[1], m[2]>> # n
    <3>1. CASE files[<<m[1], m[2]>>] = [pair |-> m[3], rest |-> NoPair]
      BY <1>10, <2>1, <2>3, <3>1
    <3>2. ASSUME NEW v \in Workers, Writes(v, <<m[1], m[2]>>, m[3])
          PROVE  Writes(v, <<m[1], m[2]>>, m[3])'
      <4>1. v # w
        BY <2>3, <3>2 DEF Writes, n
      <4> QED
        BY <1>2, <1>13, <3>2, <4>1
    <3> QED
      BY <3>1, <3>2 DEF ReportInv, Kept
  <2> QED
    BY <2>2, <2>3
<1> QED
  BY <1>12, <1>14, <1>15 DEF ReportInv

LEMMA ReportNext == PoolInv /\ ReportInv /\ [Next]_vars => ReportInv'
<1> SUFFICES ASSUME PoolInv, ReportInv, [Next]_vars PROVE ReportInv'
  OBVIOUS
<1>0. worker \in [Workers -> WorkerState]
  BY DEF PoolInv, StateOK
<1>1. CASE MainStep
  BY <1>1, QuietStep DEF MainStep, ApplyAsync, Close, Join
<1>2. ASSUME NEW w \in Workers, Step(w) PROVE ReportInv'
  <2>1. CASE Take(w)
    <3>1. [Idle EXCEPT !.chunk = Head(queue), !.step = "pair",
                       !.at = <<1, ChunkStart(setting, Head(queue))>>].step # "writing"
      BY DEF Idle
    <3> QED
      BY <1>0, <2>1, <3>1, QuietStep DEF Take
  <2>2. CASE Raise(w) \/ EndChunk(w)
    BY <1>0, <2>2, QuietStep DEF Raise, EndChunk, AtPair, Idle
  <2>3. ASSUME GoOn(w), worker[w].step # "writing", UNCHANGED <<setting, finds, files, named>>
        PROVE  ReportInv'
    BY <1>0, <2>3, QuietStep DEF GoOn, Idle
  <2>4. CASE SkipPair(w) \/ ComparisonFails(w) \/ NoMatch(w)
    BY <2>3, <2>4 DEF SkipPair, ComparisonFails, NoMatch, AtPair, matchVars
  <2>5. CASE StartComparison(w)
    BY <1>0, <2>5, QuietStep DEF StartComparison, AtPair, matchVars, WorkerState
  <2>6. CASE OpenMatchFile(w)
    BY <2>6, OpenKeeps
  <2>7. CASE CloseMatchFile(w)
    BY <2>7, CloseKeeps
  <2> QED
    BY <1>2, <2>1, <2>2, <2>4, <2>5, <2>6, <2>7 DEF Step
<1>3. ASSUME NEW w \in Workers, Kill(w) PROVE ReportInv'
  BY <1>0, <1>3, QuietStep DEF Kill, matchVars, Idle
<1>4. CASE Tick
  BY <1>4, QuietStep DEF Tick, matchVars
<1>5. ASSUME NEW f \in Files(setting), Vanish(f) PROVE ReportInv'
  BY <1>5, QuietStep DEF Vanish, matchVars
<1>6. CASE UNCHANGED vars
  BY <1>6, QuietStep DEF vars
<1> QED
  BY <1>1, <1>2, <1>3, <1>4, <1>5, <1>6 DEF Next, Stopped

(* Only pairs with matches are reported, and, unless two comparisons found *)
(* as many matches in the same second, exactly those with a long formula:  *)
(* all workers write into one directory without a lock.                    *)
THEOREM ReportsAreExact == Spec => []ReportExact
<1>1. PoolInv /\ ReportInv => ReportExact
  <2> SUFFICES ASSUME PoolInv, ReportInv, main = "finished"
               PROVE  /\ Reported \subseteq Matching
                      /\ ~ SameSecond => Reported = GoodMatches
    BY DEF ReportExact
  <2>1. \A w \in Workers : ~ Busy(w)
    BY DEF PoolInv, OnePlace, TypeOK
  <2>2. \A w \in Workers : \A n, p : ~ Writes(w, n, p)
    BY <2>1 DEF Busy, Writes
  <2>3. DOMAIN files = Names
    BY DEF ReportInv, FilesOK
  <2>4. ASSUME NEW n \in Names, files[n] # Empty
        PROVE  files[n].pair # NoPair /\ <<n[1], n[2], files[n].pair>> \in named
    <3>1. files[n] \in MatchFile
      BY DEF ReportInv, FilesOK
    <3>2. files[n].pair # NoPair
      BY <2>4, <3>1 DEF ReportInv, FilesOK, MatchFile, Empty
    <3> QED
      BY <3>2 DEF ReportInv, FilesOK, Holds
  <2>5. Reported \subseteq Matching
    <3> SUFFICES ASSUME NEW n \in Names, files[n] # Empty
                 PROVE  files[n].pair \in Matching
      BY <2>3 DEF Reported
    <3> DEFINE m == <<n[1], n[2], files[n].pair>>
    <3>1. m \in named /\ m[3] = files[n].pair
      BY <2>4
    <3> QED
      BY <3>1, Zenon DEF Matching
  <2>6. ASSUME ~ SameSecond PROVE Reported = GoodMatches
    <3>1. \A m \in named : files[<<m[1], m[2]>>] = [pair |-> m[3], rest |-> NoPair]
      BY <2>2, <2>6 DEF ReportInv, Kept
    <3>2. ASSUME NEW n \in Names, files[n] # Empty,
                 Long(files[n].pair) \/ Long(files[n].rest)
          PROVE  files[n].pair \in GoodMatches
      <4>1. files[n] = [pair |-> files[n].pair, rest |-> NoPair]
        <5>1. n = <<n[1], n[2]>>
          BY DEF Names
        <5> QED
          BY <2>4, <3>1, <3>2, <5>1
      <4>2. Long(files[n].pair)
        BY <3>2, <4>1 DEF Long
      <4>3. files[n].pair \in Matching
        BY <2>3, <2>5, <3>2 DEF Reported
      <4> QED
        BY <4>2, <4>3 DEF GoodMatches
    <3>3. ASSUME NEW m \in named, Long(m[3])
          PROVE  \E n \in Names : /\ files[n] # Empty /\ files[n].pair = m[3]
                                  /\ Long(files[n].pair)
      <4>1. PICK p \in Pairs(setting), t \in 0 .. MaxClock : m = <<finds[p].matches, t, p>>
        BY DEF ReportInv, NamedOK
      <4>2. <<m[1], m[2]>> \in Names
        BY <4>1 DEF Names
      <4>3. m[3] # NoPair
        BY <3>3 DEF Long
      <4>4. files[<<m[1], m[2]>>].pair = m[3]
        <5>1. files[<<m[1], m[2]>>] = [pair |-> m[3], rest |-> NoPair]
          BY <3>1, Zenon
        <5> QED
          BY <5>1, SMT
      <4>5. files[<<m[1], m[2]>>] # Empty
        BY <4>3, <4>4 DEF Empty
      <4> QED
        BY <3>3, <4>2, <4>4, <4>5
    <3>4. Reported \subseteq GoodMatches
      BY <2>3, <3>2 DEF Reported
    <3>5. GoodMatches \subseteq Reported
      <4> SUFFICES ASSUME NEW p \in GoodMatches PROVE p \in Reported
        OBVIOUS
      <4>1. PICK m \in named : p = m[3] /\ Long(m[3])
        BY DEF GoodMatches, Matching
      <4> QED
        BY <2>3, <3>3, <4>1 DEF Reported
    <3> QED
      BY <3>4, <3>5
  <2> QED
    BY <2>5, <2>6
<1>2. Spec => []ReportInv
  BY ReportInit, ReportNext, Invariance, PTL DEF Spec
<1> QED
  BY <1>1, <1>2, Invariance, PTL
-----------------------------------------------------------------------------
(* Sets of numbers, and places in an order.                                *)
LEMMA LeastExists ==
  ASSUME NEW S \in SUBSET Nat, S # {}
  PROVE  \E i \in S : \A j \in S : i <= j
<1> DEFINE R == { ss \in Nat \X Nat : ss[1] < ss[2] }
<1>1. IsWellFoundedOn(R, Nat)
  BY NatLessThanWellFounded, Zenon DEF OpToRel
<1>2. PICK i \in S : \A j \in S : ~ (<<j, i>> \in R)
  <2> HIDE DEF R
  <2> QED
    BY <1>1, WFMin
<1>3. ASSUME NEW j \in S PROVE i <= j
  <2>1. ~ (<<j, i>> \in R)
    BY <1>2
  <2>2. i \in Nat /\ j \in Nat
    OBVIOUS
  <2>3. ~ (j < i)
    BY <2>1, <2>2
  <2>4. QED
    BY <2>2, <2>3
<1>4. QED
  BY <1>3

LEMMA SomeOfIs ==
  ASSUME NEW S \in SUBSET Nat, S # {}
  PROVE  SomeOf(S) \in S /\ \A y \in S : SomeOf(S) <= y
BY LeastExists DEF SomeOf

LEMMA OnlyOf ==
  ASSUME NEW a \in Nat
  PROVE  SomeOf({a}) = a
BY SomeOfIs

LEMMA BitsFinite ==
  ASSUME NEW n \in Nat, NEW S \in SUBSET Bits(n)
  PROVE  IsFiniteSet(S) /\ Cardinality(S) \in Nat /\ S \in SUBSET Nat
<1>1. IsFiniteSet(Bits(n)) /\ Bits(n) \subseteq Nat
  BY FS_Interval DEF Bits
<1>2. QED
  BY <1>1, FS_Subset, FS_CardinalityType

(* If up[x] holds what is not after x, its size is the place of x.         *)
Ordered(S, up) ==
  /\ up \in [S -> SUBSET S]
  /\ \A x \in S : x \in up[x]
  /\ \A x, y \in S : x # y => \/ (up[x] \subseteq up[y] /\ y \notin up[x])
                               \/ (up[y] \subseteq up[x] /\ x \notin up[y])

Placed(S, up) ==
  /\ \A x \in S : Cardinality(up[x]) \in 1 .. Cardinality(S)
  /\ \A x, y \in S : Cardinality(up[x]) = Cardinality(up[y]) => x = y
  /\ \A k \in 1 .. Cardinality(S) : \E x \in S : Cardinality(up[x]) = k

LEMMA PlacesAreOneToOne ==
  ASSUME NEW S, IsFiniteSet(S), NEW up, Ordered(S, up)
  PROVE  Placed(S, up)
<1> USE DEF Ordered
<1> DEFINE n == Cardinality(S)
           place == [x \in S |-> Cardinality(up[x])]
<1>1. n \in Nat
  BY FS_CardinalityType
<1>2. ASSUME NEW x \in S PROVE IsFiniteSet(up[x]) /\ Cardinality(up[x]) \in 1 .. n
  <2>1. up[x] \in SUBSET S /\ x \in up[x]
    OBVIOUS
  <2>2. IsFiniteSet(up[x]) /\ Cardinality(up[x]) <= n
    BY <2>1, FS_Subset
  <2>3. Cardinality(up[x]) \in Nat /\ Cardinality(up[x]) # 0
    BY <2>1, <2>2, FS_CardinalityType, FS_EmptySet
  <2>4. QED
    BY <1>1, <2>2, <2>3
<1>3. ASSUME NEW x \in S, NEW y \in S, x # y, up[x] \subseteq up[y], y \notin up[x]
      PROVE  Cardinality(up[x]) # Cardinality(up[y])
  <2>1. up[x] \in SUBSET up[y] /\ up[x] # up[y]
    BY <1>3
  <2>2. QED
    BY <1>2, <2>1, FS_Subset
<1>4. \A x, y \in S : Cardinality(up[x]) = Cardinality(up[y]) => x = y
  BY <1>3
<1>5. place \in Injection(S, 1 .. n)
  <2>1. place \in [S -> 1 .. n]
    BY <1>2
  <2>2. \A x, y \in S : place[x] = place[y] => x = y
    BY <1>4
  <2>3. QED
    <3> HIDE DEF place, n
    <3> QED
      BY <2>1, <2>2 DEF Injection, IsInjective
<1>6. IsFiniteSet(1 .. n) /\ Cardinality(1 .. n) = n
  BY <1>1, FS_Interval
<1>7. place \in Surjection(S, 1 .. n)
  BY <1>5, <1>6, FS_Injection
<1>8. QED
  BY <1>2, <1>4, <1>7 DEF Surjection, Placed

LEMMA SeqIs ==
  ASSUME NEW n \in Nat, NEW S, NEW f \in [1 .. n -> S]
  PROVE  f \in Seq(S) /\ Len(f) = n
OBVIOUS

(* A list of numbers.                                                      *)
LEMMA AscendingLists ==
  ASSUME NEW S \in SUBSET Nat, IsFiniteSet(S)
  PROVE  /\ Cardinality(S) \in Nat
         /\ Ascending(S) \in [1 .. Cardinality(S) -> S]
         /\ IsInjective(Ascending(S))
         /\ \A x \in S : \E k \in 1 .. Cardinality(S) : Ascending(S)[k] = x
<1> DEFINE n == Cardinality(S)
           up == [x \in S |-> { y \in S : y <= x }]
<1>1. n \in Nat
  BY FS_CardinalityType
<1>2. /\ up \in [S -> SUBSET S]
      /\ \A x \in S : x \in up[x]
  OBVIOUS
<1>3. \A x, y \in S : x # y => \/ (up[x] \subseteq up[y] /\ y \notin up[x])
                               \/ (up[y] \subseteq up[x] /\ x \notin up[y])
  <2>1. SUFFICES ASSUME NEW x \in S, NEW y \in S, x # y
                 PROVE  \/ up[x] \subseteq up[y] /\ y \notin up[x]
                        \/ up[y] \subseteq up[x] /\ x \notin up[y]
    OBVIOUS
  <2>2. x \in Nat /\ y \in Nat
    OBVIOUS
  <2>a. \A z \in S : z \in Nat
    OBVIOUS
  <2>b. up[x] = { z \in S : z <= x } /\ up[y] = { z \in S : z <= y }
    OBVIOUS
  <2>3. CASE x < y
    <3>1. \A z \in S : z <= x => z <= y
      BY <2>2, <2>a, <2>3
    <3>2. ~ (y <= x)
      BY <2>2, <2>3
    <3>3. QED
      BY <2>b, <3>1, <3>2, Zenon
  <2>4. CASE y < x
    <3>1. \A z \in S : z <= y => z <= x
      BY <2>2, <2>a, <2>4
    <3>2. ~ (x <= y)
      BY <2>2, <2>4
    <3>3. QED
      BY <2>b, <3>1, <3>2, Zenon
  <2>5. QED
    BY <2>1, <2>2, <2>3, <2>4
<1>4. /\ \A x \in S : Cardinality(up[x]) \in 1 .. n
      /\ \A x, y \in S : Cardinality(up[x]) = Cardinality(up[y]) => x = y
      /\ \A k \in 1 .. n : \E x \in S : Cardinality(up[x]) = k
  <2>1. Ordered(S, up)
    <3> HIDE DEF up
    <3> QED
      BY <1>2, <1>3 DEF Ordered
  <2>2. Placed(S, up)
    BY <2>1, PlacesAreOneToOne
  <2> HIDE DEF up
  <2> QED
    BY <2>2 DEF Placed
<1>5. \A x \in S : up[x] = { y \in S : y <= x }
  OBVIOUS
<1> HIDE DEF up
<1>6. ASSUME NEW k \in 1 .. n
      PROVE  Ascending(S)[k] \in S /\ Cardinality(up[Ascending(S)[k]]) = k
  <2>1. \E x \in S : Cardinality({ y \in S : y <= x }) = k
    BY <1>4, <1>5
  <2>2. Ascending(S)[k] = CHOOSE x \in S : Cardinality({ y \in S : y <= x }) = k
    BY DEF Ascending
  <2>3. Ascending(S)[k] \in S /\ Cardinality({ y \in S : y <= Ascending(S)[k] }) = k
    <3> HIDE DEF n
    <3> QED
      BY <2>1, <2>2
  <2>4. QED
    BY <1>5, <2>3
<1> HIDE DEF n
<1>7. Ascending(S) \in [1 .. n -> S]
  BY <1>6 DEF Ascending, n
<1>8. IsInjective(Ascending(S))
  BY <1>6, <1>7 DEF IsInjective
<1>9. \A x \in S : \E k \in 1 .. n : Ascending(S)[k] = x
  BY <1>4, <1>6
<1>10. QED
  BY <1>1, <1>7, <1>8, <1>9 DEF n

-----------------------------------------------------------------------------
(* Lists of PartMaps: q has members of m, each place once, all those that  *)
(* are not empty.                                                          *)
Parts(n) == [first : SUBSET Bits(n), second : SUBSET Bits(n)]

Drawn(q, m, h) ==
  /\ h \in [DOMAIN q -> DOMAIN m] /\ IsInjective(h)
  /\ \A k \in DOMAIN q : q[k] = m[h[k]]
  /\ \A i \in DOMAIN m : m[i].first # {} => \E k \in DOMAIN q : h[k] = i

LEMMA NotEmptyDraws ==
  ASSUME NEW n \in Nat, NEW m \in Seq(Parts(n))
  PROVE  /\ NotEmpty(m) \in Seq(Parts(n))
         /\ \E h : Drawn(NotEmpty(m), m, h)
         /\ \A k \in DOMAIN NotEmpty(m) : NotEmpty(m)[k].first # {}
<1> DEFINE I == { i \in DOMAIN m : m[i].first # {} }
           h == Ascending(I)
           c == Cardinality(I)
<1>1. I \in SUBSET Nat /\ IsFiniteSet(I)
  <2>1. DOMAIN m = 1 .. Len(m) /\ Len(m) \in Nat
    OBVIOUS
  <2>2. I \in SUBSET (1 .. Len(m))
    BY <2>1
  <2>3. IsFiniteSet(1 .. Len(m))
    BY <2>1, FS_Interval
  <2>4. QED
    BY <2>2, <2>3, FS_Subset
<1>2. /\ c \in Nat /\ h \in [1 .. c -> I] /\ IsInjective(h)
      /\ \A x \in I : \E k \in 1 .. c : h[k] = x
  <2> HIDE DEF I
  <2> QED
    BY <1>1, AscendingLists
<1>3. NotEmpty(m) = [k \in DOMAIN h |-> m[h[k]]]
  BY DEF NotEmpty
<1> HIDE DEF h, c
<1>4. DOMAIN NotEmpty(m) = 1 .. c /\ \A k \in 1 .. c : NotEmpty(m)[k] = m[h[k]]
  BY <1>2, <1>3
<1>5. \A k \in 1 .. c : h[k] \in DOMAIN m /\ m[h[k]].first # {}
  BY <1>2
<1>6. NotEmpty(m) \in [1 .. c -> Parts(n)]
  <2>1. \A i \in DOMAIN m : m[i] \in Parts(n)
    OBVIOUS
  <2>2. NotEmpty(m) = [k \in 1 .. c |-> m[h[k]]]
    BY <1>2, <1>3
  <2>3. QED
    BY <1>5, <2>1, <2>2
<1>7. Drawn(NotEmpty(m), m, h)
  <2>1. h \in [1 .. c -> DOMAIN m]
    BY <1>2, <1>5
  <2>2. \A i \in DOMAIN m : m[i].first # {} => \E k \in 1 .. c : h[k] = i
    BY <1>2
  <2>3. QED
    BY <1>2, <1>4, <2>1, <2>2 DEF Drawn
<1>8. QED
  BY <1>2, <1>4, <1>5, <1>6, <1>7, SeqIs

LEMMA BySizeDraws ==
  ASSUME NEW n \in Nat, NEW m \in Seq(Parts(n))
  PROVE  /\ BySize(m) \in Seq(Parts(n)) /\ Len(BySize(m)) = Len(m)
         /\ \E h : Drawn(BySize(m), m, h)
<1> DEFINE D == DOMAIN m
           size(i) == Cardinality(m[i].first)
           up == [i \in D |-> { j \in D : size(j) < size(i) \/ (size(j) = size(i) /\ j <= i) }]
           h == [k \in D |-> CHOOSE i \in D : Cardinality(up[i]) = k]
<1>1. D = 1 .. Len(m) /\ Len(m) \in Nat /\ IsFiniteSet(D) /\ Cardinality(D) = Len(m)
  BY FS_Interval
<1>2. \A i \in D : m[i] \in Parts(n) /\ i \in Nat
  BY <1>1
<1>3. \A i \in D : size(i) \in Nat
  BY <1>2, BitsFinite DEF Parts
<1>4. Ordered(D, up)
  <2>1. up \in [D -> SUBSET D]
    OBVIOUS
  <2>2. ASSUME NEW x \in D PROVE x \in up[x]
    BY <1>2
  <2>3. ASSUME NEW x \in D, NEW y \in D, x # y
        PROVE  \/ (up[x] \subseteq up[y] /\ y \notin up[x])
               \/ (up[y] \subseteq up[x] /\ x \notin up[y])
    <3>1. x \in Nat /\ y \in Nat /\ size(x) \in Nat /\ size(y) \in Nat
      BY <1>2, <1>3
    <3>2. CASE size(x) < size(y) \/ (size(x) = size(y) /\ x < y)
      <4>1. ASSUME NEW z \in D, size(z) < size(x) \/ (size(z) = size(x) /\ z <= x)
            PROVE  size(z) < size(y) \/ (size(z) = size(y) /\ z <= y)
        <5>1. z \in Nat /\ size(z) \in Nat
          BY <1>2, <1>3
        <5> HIDE DEF size, D
        <5> QED
          BY <3>1, <3>2, <4>1, <5>1
      <4>2. ~ (size(y) < size(x) \/ (size(y) = size(x) /\ y <= x))
        <5> HIDE DEF size, D
        <5> QED
          BY <3>1, <3>2
      <4>3. up[x] \subseteq up[y] /\ y \notin up[x]
        <5> HIDE DEF size
        <5> QED
          BY <4>1, <4>2
      <4>4. QED
        BY <4>3
    <3>3. CASE size(y) < size(x) \/ (size(x) = size(y) /\ y < x)
      <4>1. ASSUME NEW z \in D, size(z) < size(y) \/ (size(z) = size(y) /\ z <= y)
            PROVE  size(z) < size(x) \/ (size(z) = size(x) /\ z <= x)
        <5>1. z \in Nat /\ size(z) \in Nat
          BY <1>2, <1>3
        <5> HIDE DEF size, D
        <5> QED
          BY <3>1, <3>3, <4>1, <5>1
      <4>2. ~ (size(x) < size(y) \/ (size(x) = size(y) /\ x <= y))
        <5> HIDE DEF size, D
        <5> QED
          BY <3>1, <3>3
      <4>3. up[y] \subseteq up[x] /\ x \notin up[y]
        <5> HIDE DEF size
        <5> QED
          BY <4>1, <4>2
      <4>4. QED
        BY <4>3
    <3>4. QED
      <4> HIDE DEF size, up, D
      <4> QED
        BY <2>3, <3>1, <3>2, <3>3
  <2>4. QED
    <3> HIDE DEF up, D
    <3> QED
      BY <2>1, <2>2, <2>3 DEF Ordered
<1>5. Placed(D, up)
  <2> HIDE DEF D, up
  <2> QED
    BY <1>1, <1>4, PlacesAreOneToOne
<1>6. BySize(m) = [k \in D |-> m[h[k]]]
  <2>1. \A i \in D : up[i] = { j \in D : size(j) < size(i) \/ (size(j) = size(i) /\ j <= i) }
    OBVIOUS
  <2> DEFINE upTo(i) == { j \in DOMAIN m : size(j) < size(i) \/ (size(j) = size(i) /\ j <= i) }
  <2>2. ASSUME NEW k \in D
        PROVE  m[CHOOSE i \in D : Cardinality(upTo(i)) = k] = m[h[k]]
    <3>1. (CHOOSE i \in D : Cardinality(upTo(i)) = k) = (CHOOSE i \in D : Cardinality(up[i]) = k)
      OBVIOUS
    <3>2. h[k] = CHOOSE i \in D : Cardinality(up[i]) = k
      <4> HIDE DEF up, D
      <4> QED
        OBVIOUS
    <3> HIDE DEF h, up, D, upTo
    <3>3. QED
      BY <3>1, <3>2
  <2>3. BySize(m) = [k \in D |-> m[CHOOSE i \in D : Cardinality(upTo(i)) = k]]
    BY DEF BySize
  <2> HIDE DEF D, upTo, h
  <2>4. QED
    BY <2>2, <2>3
<1> HIDE DEF up
<1>7. \A k \in D : h[k] \in D /\ Cardinality(up[h[k]]) = k
  BY <1>1, <1>5 DEF Placed
<1>8. \A i \in D : \E k \in D : h[k] = i
  BY <1>1, <1>5, <1>7 DEF Placed
<1> HIDE DEF h
<1>9. IsInjective(h) /\ h \in [D -> D]
  BY <1>7 DEF IsInjective, h
<1>10. BySize(m) \in [1 .. Len(m) -> Parts(n)] /\ DOMAIN BySize(m) = D
  BY <1>1, <1>2, <1>6, <1>7
<1>11. Drawn(BySize(m), m, h)
  BY <1>6, <1>8, <1>9, <1>10 DEF Drawn
<1>12. QED
  BY <1>1, <1>10, <1>11, SeqIs

-----------------------------------------------------------------------------
(* What a test adds to a list: for every count of an unmapped bit, the     *)
(* bits of each side that have it.                                         *)
Class(vec, mapped, c) == { i \in DOMAIN vec \ mapped : vec[i] = c }

Grouped(vec1, vec2, map, x) ==
  PartMap(Class(vec1, DOMAIN map, vec1[x]), Class(vec2, Range(map), vec1[x]))

Added(unmap, vec1, vec2, map, m) ==
  LET new == DOMAIN vec1 \ DOMAIN map IN
  /\ Len(m) \in Nat /\ Len(m) >= Len(unmap)
  /\ \A i \in 1 .. Len(unmap) : m[i] = unmap[i]
  /\ \A j \in Len(unmap) + 1 .. Len(m) : \E x \in new : m[j] = Grouped(vec1, vec2, map, x)
  /\ \A x \in new : \E j \in Len(unmap) + 1 .. Len(m) : m[j] = Grouped(vec1, vec2, map, x)

LEMMA UpdateAdds ==
  ASSUME NEW n \in Nat, NEW unmap \in Seq(Parts(n)),
         NEW vec1 \in [Bits(n) -> Nat], NEW vec2 \in [Bits(n) -> Nat], NEW map,
         NEW m, m = UpdateUnmap(unmap, vec1, vec2, map)
  PROVE  m \in Seq(Parts(n)) /\ Added(unmap, vec1, vec2, map, m)
<1> DEFINE L == Bits(n) \ DOMAIN map
           H == { i \in L : \A k \in L : vec1[k] = vec1[i] => i <= k }
           heads == Ascending(H)
           c == Cardinality(H)
           q == [k \in DOMAIN heads |-> Grouped(vec1, vec2, map, heads[k])]
<1>1. H \in SUBSET Nat /\ IsFiniteSet(H)
  BY BitsFinite
<1>2. /\ c \in Nat /\ heads \in [1 .. c -> H]
      /\ \A x \in H : \E k \in 1 .. c : heads[k] = x
  <2> HIDE DEF H
  <2> QED
    BY <1>1, AscendingLists
<1>3. m = unmap \o q
  BY DEF UpdateUnmap, Grouped, Class
<1> HIDE DEF heads, c
<1>4. \A x \in L : Grouped(vec1, vec2, map, x) \in Parts(n)
  BY DEF Grouped, PartMap, Class, Parts
<1>5. q \in Seq(Parts(n)) /\ Len(q) = c /\ DOMAIN q = 1 .. c
  <2>1. q \in [1 .. c -> Parts(n)]
    <3>1. \A k \in 1 .. c : heads[k] \in L
      BY <1>2
    <3>2. q = [k \in 1 .. c |-> Grouped(vec1, vec2, map, heads[k])]
      BY <1>2
    <3> HIDE DEF L, q
    <3>3. QED
      BY <1>4, <3>1, <3>2
  <2>2. QED
    BY <1>2, <2>1, SeqIs
<1>6. \A k \in 1 .. c : q[k] = Grouped(vec1, vec2, map, heads[k])
  BY <1>2
<1>7. ASSUME NEW x \in L
      PROVE  \E k \in 1 .. c : q[k] = Grouped(vec1, vec2, map, x)
  <2> DEFINE S == { k \in L : vec1[k] = vec1[x] }
  <2>1. S \in SUBSET Nat /\ x \in S
    BY BitsFinite
  <2>2. PICK y \in S : \A j \in S : y <= j
    BY <2>1, LeastExists
  <2>3. y \in L /\ vec1[y] = vec1[x]
    OBVIOUS
  <2>4. y \in H
    BY <2>2, <2>3
  <2>5. PICK k \in 1 .. c : heads[k] = y
    <3> HIDE DEF H
    <3> QED
      BY <1>2, <2>4
  <2>6. Grouped(vec1, vec2, map, y) = Grouped(vec1, vec2, map, x)
    BY <2>3 DEF Grouped
  <2>7. QED
    BY <1>6, <2>5, <2>6
<1> HIDE DEF q
<1>8. /\ m \in Seq(Parts(n)) /\ Len(m) = Len(unmap) + c
      /\ \A i \in 1 .. Len(unmap) : m[i] = unmap[i]
      /\ \A k \in 1 .. c : m[Len(unmap) + k] = q[k]
  BY <1>2, <1>3, <1>5
<1>9. ASSUME NEW j \in Len(unmap) + 1 .. Len(m)
      PROVE  \E x \in L : m[j] = Grouped(vec1, vec2, map, x)
  <2>1. j - Len(unmap) \in 1 .. c /\ j = Len(unmap) + (j - Len(unmap))
    BY <1>2, <1>8
  <2>2. m[j] = q[j - Len(unmap)]
    BY <1>8, <2>1
  <2>3. heads[j - Len(unmap)] \in L
    BY <1>2, <2>1
  <2>4. QED
    BY <1>6, <2>1, <2>2, <2>3
<1>10. ASSUME NEW x \in L
       PROVE  \E j \in Len(unmap) + 1 .. Len(m) : m[j] = Grouped(vec1, vec2, map, x)
  <2>1. PICK k \in 1 .. c : q[k] = Grouped(vec1, vec2, map, x)
    BY <1>7
  <2>2. Len(unmap) + k \in Len(unmap) + 1 .. Len(m)
    BY <1>2, <1>8
  <2>3. QED
    BY <1>8, <2>1, <2>2
<1>11. Len(m) >= Len(unmap)
  BY <1>2, <1>8
<1>12. L = DOMAIN vec1 \ DOMAIN map
  OBVIOUS
<1> HIDE DEF L
<1>13. QED
  BY <1>8, <1>9, <1>10, <1>11, <1>12 DEF Added

-----------------------------------------------------------------------------
(* One-to-one maps between finite sets.                                    *)
Image(g, S) == { g[x] : x \in S }

LEMMA ImageFills ==
  ASSUME NEW S, NEW T, IsFiniteSet(S), IsFiniteSet(T), Cardinality(S) = Cardinality(T),
         NEW g, \A x \in S : g[x] \in T, \A x, y \in S : g[x] = g[y] => x = y
  PROVE  Image(g, S) = T
<1> DEFINE f == [x \in S |-> g[x]]
<1>1. f \in Injection(S, T)
  BY DEF Injection, IsInjective
<1>2. f \in Surjection(S, T)
  <2> HIDE DEF f
  <2> QED
    BY <1>1, FS_Injection
<1>3. \A t \in T : \E x \in S : f[x] = t
  <2> HIDE DEF f
  <2> QED
    BY <1>2 DEF Surjection, Range
<1>4. QED
  BY <1>3 DEF Image

OneToOne(f, X, Y) ==
  /\ f \in [X -> Y]
  /\ \A x, y \in X : f[x] = f[y] => x = y

(* A one-to-one map that maps a to b.                                      *)
LEMMA PairedMap ==
  ASSUME NEW X, NEW Y, IsFiniteSet(X), IsFiniteSet(Y), Cardinality(X) = Cardinality(Y),
         NEW a, NEW b, a \in X <=> b \in Y
  PROVE  \E f : OneToOne(f, X, Y) /\ (a \in X => f[a] = b)
<1>1. CASE a \notin X
  <2>1. PICK f : f \in Bijection(X, Y)
    BY FS_SameCardinalityBij DEF ExistsBijection
  <2>2. OneToOne(f, X, Y)
    BY <2>1 DEF Bijection, Injection, IsInjective, OneToOne
  <2>3. QED
    BY <1>1, <2>2
<1>2. CASE a \in X
  <2> DEFINE X0 == X \ {a}
             Y0 == Y \ {b}
  <2>1. /\ IsFiniteSet(X0) /\ Cardinality(X0) = Cardinality(X) - 1
        /\ IsFiniteSet(Y0) /\ Cardinality(Y0) = Cardinality(Y) - 1
    BY <1>2, FS_RemoveElement
  <2>2. PICK f : f \in Bijection(X0, Y0)
    <3> HIDE DEF X0, Y0
    <3> QED
      BY <2>1, FS_SameCardinalityBij DEF ExistsBijection
  <2>3. OneToOne(f, X0, Y0)
    <3> HIDE DEF X0, Y0
    <3> QED
      BY <2>2 DEF Bijection, Injection, IsInjective, OneToOne
  <2> DEFINE h == [x \in X |-> IF x = a THEN b ELSE f[x]]
  <2>4. OneToOne(h, X, Y) /\ h[a] = b
    BY <1>2, <2>3 DEF OneToOne
  <2>5. QED
    <3> HIDE DEF h
    <3> QED
      BY <2>4
<1>3. QED
  BY <1>1, <1>2

Meets(a, b, S, T) == Cardinality({a} \cap S) = Cardinality({b} \cap T)

LEMMA MeetsAlike ==
  ASSUME NEW a, NEW b, NEW S, NEW T, Meets(a, b, S, T)
  PROVE  a \in S <=> b \in T
<1>1. /\ a \in S => {a} \cap S = {a}
      /\ a \notin S => {a} \cap S = {}
      /\ b \in T => {b} \cap T = {b}
      /\ b \notin T => {b} \cap T = {}
  OBVIOUS
<1>2. Cardinality({a}) = 1 /\ Cardinality({b}) = 1 /\ Cardinality({}) = 0
  BY FS_EmptySet, FS_Singleton
<1>3. QED
  BY <1>1, <1>2 DEF Meets

-----------------------------------------------------------------------------
(* The invariant.  Outside of reduce the first k PartMaps of a side have   *)
(* every bit that is not mapped once, and those behind them are pairings   *)
(* of one bit with different ones.                                         *)
IsSide(s) ==
  /\ s = [size |-> s.size, unmap |-> s.unmap, map |-> s.map, mvar |-> s.mvar, at |-> s.at]
  /\ s.size \in Nat
  /\ s.unmap \in Seq(Parts(s.size))
  /\ DOMAIN s.map \subseteq Bits(s.size) /\ Range(s.map) \subseteq Bits(s.size)
  /\ IsInjective(s.map)

Divided(s, k) ==
  /\ \A x \in Bits(s.size) \ DOMAIN s.map : \E i \in 1 .. k : x \in s.unmap[i].first
  /\ \A y \in Bits(s.size) \ Range(s.map) : \E i \in 1 .. k : y \in s.unmap[i].second
  /\ \A i \in 1 .. k : /\ s.unmap[i].first \cap DOMAIN s.map = {}
                       /\ s.unmap[i].second \cap Range(s.map) = {}
  /\ \A i, j \in 1 .. k : i # j => /\ s.unmap[i].first \cap s.unmap[j].first = {}
                                   /\ s.unmap[i].second \cap s.unmap[j].second = {}

Paired(s, k) ==
  /\ \A i \in k + 1 .. Len(s.unmap) :
       \E a \in Bits(s.size) \ DOMAIN s.map, b \in Bits(s.size) \ Range(s.map) :
         s.unmap[i] = PartMap({a}, {b})
  /\ \A i, j \in k + 1 .. Len(s.unmap) :
       i # j => s.unmap[i].first = s.unmap[j].first /\ s.unmap[i].second # s.unmap[j].second

Rests(s, k) ==
  /\ IsSide(s) /\ s.mvar = <<>>
  /\ k \in 0 .. Len(s.unmap)
  /\ Divided(s, k)
  /\ Paired(s, k)

(* In reduce there is a one-to-one map of all bits that all PartMaps and   *)
(* all that has been mapped follow.  It need not be known which.           *)
Bijects(g, n) == g \in [Bits(n) -> Bits(n)] /\ IsInjective(g) /\ Range(g) = Bits(n)

Follows(g, map) == DOMAIN map \subseteq DOMAIN g /\ \A x \in DOMAIN map : map[x] = g[x]

Fits(g, m) == \A i \in DOMAIN m : m[i].second = Image(g, m[i].first)

LEMMA BijectsIf ==
  ASSUME NEW n \in Nat, NEW g \in [Bits(n) -> Bits(n)],
         \A x, y \in Bits(n) : g[x] = g[y] => x = y
  PROVE  Bijects(g, n)
<1>1. IsFiniteSet(Bits(n))
  BY BitsFinite
<1>2. Image(g, Bits(n)) = Bits(n)
  BY <1>1, ImageFills
<1>3. QED
  BY <1>2 DEF Bijects, IsInjective, Range, Image

(* A consistent list is one that some one-to-one map follows.  Here the    *)
(* counts of the sizes are used, and nothing of them later.                *)
LEMMA ConsistentFits ==
  ASSUME NEW s, NEW k, Rests(s, k),
         NEW vec1 \in [Bits(s.size) -> Nat], NEW vec2 \in [Bits(s.size) -> Nat],
         NEW m, m = UpdateUnmap(s.unmap, vec1, vec2, s.map), CheckConsist(m)
  PROVE  \E g : Bijects(g, s.size) /\ Follows(g, s.map) /\ Fits(g, m)
<1> DEFINE n == s.size
           l == Len(s.unmap)
           L == Bits(n) \ DOMAIN s.map
           R == Bits(n) \ Range(s.map)
           C1(c) == Class(vec1, DOMAIN s.map, c)
           C2(c) == Class(vec2, Range(s.map), c)
<1>1. n \in Nat /\ s.unmap \in Seq(Parts(n)) /\ l \in Nat /\ k \in 0 .. l
  BY DEF Rests, IsSide
<1>a. m \in Seq(Parts(n)) /\ Added(s.unmap, vec1, vec2, s.map, m)
  BY <1>1, UpdateAdds
<1>b. DOMAIN vec1 \ DOMAIN s.map = L
  OBVIOUS
<1>c. \A i \in 1 .. Len(m) : m[i].first \in SUBSET Bits(n) /\ m[i].second \in SUBSET Bits(n)
  <2>1. \A i \in 1 .. Len(m) : m[i] \in Parts(n)
    BY <1>a
  <2>2. QED
    BY <2>1 DEF Parts
<1>d. DOMAIN m = 1 .. Len(m)
  BY <1>a
<1> HIDE DEF L, C1, C2
<1>2. /\ m \in Seq(Parts(n)) /\ Len(m) \in Nat
      /\ Len(m) >= l
      /\ \A i \in 1 .. l : m[i] = s.unmap[i]
      /\ \A j \in l + 1 .. Len(m) : \E x \in L : m[j] = Grouped(vec1, vec2, s.map, x)
      /\ \A x \in L : \E j \in l + 1 .. Len(m) : m[j] = Grouped(vec1, vec2, s.map, x)
  BY <1>a, <1>b DEF Added
<1>f. Len(m) \in Nat /\ Len(m) >= l
  BY <1>2
<1>3. \A i \in 1 .. Len(m) : Cardinality(m[i].first) = Cardinality(m[i].second)
  BY <1>d DEF CheckConsist, Balanced
<1>4. \A i, j \in 1 .. Len(m) :
        i < j => Cardinality(m[i].first \cap m[j].first) = Cardinality(m[i].second \cap m[j].second)
  <2>1. \A i, j \in DOMAIN m :
          i < j => Cardinality(m[i].first \cap m[j].first) = Cardinality(m[i].second \cap m[j].second)
    BY Zenon DEF CheckConsist
  <2>2. SUFFICES ASSUME NEW i \in 1 .. Len(m), NEW j \in 1 .. Len(m), i < j
                 PROVE  Cardinality(m[i].first \cap m[j].first)
                          = Cardinality(m[i].second \cap m[j].second)
    OBVIOUS
  <2>3. i \in DOMAIN m /\ j \in DOMAIN m
    BY <1>d
  <2>4. QED
    BY <2>1, <2>2, <2>3
<1>5. \A i \in 1 .. k : i \in 1 .. l /\ i \in 1 .. Len(m) /\ i \in Nat /\ m[i] = s.unmap[i]
  BY <1>1, <1>2
(* At most one pairing is left, and it respects all the other sets.        *)
<1>6. \E a, b : /\ \A i \in k + 1 .. l : a \in L /\ b \in R /\ m[i] = PartMap({a}, {b})
                /\ \A i \in 1 .. k : a \in m[i].first <=> b \in m[i].second
                /\ \A x \in L : a \in C1(vec1[x]) <=> b \in C2(vec1[x])
  <2>1. CASE k = l
    <3>1. Bits(n) \subseteq Int /\ \A i \in 1 .. k : /\ m[i].first \subseteq Bits(n)
                                                    /\ m[i].second \subseteq Bits(n)
      BY <1>c, <1>5 DEF Bits
    <3>2. n \notin Bits(n)
      BY <1>1 DEF Bits
    <3>3. \A c : C1(c) \subseteq Bits(n) /\ C2(c) \subseteq Bits(n)
      BY DEF Class, C1, C2
    <3>4. k + 1 .. l = {}
      BY <1>1, <2>1
    <3> HIDE DEF R, n, l
    <3>5. QED
      BY <3>1, <3>2, <3>3, <3>4
  <2>2. CASE k # l
    <3>1. k + 1 \in k + 1 .. l /\ k + 1 \in 1 .. l /\ k + 1 \in Nat
      BY <1>1, <2>2
    <3>2. PICK a \in L, b \in R : s.unmap[k + 1] = PartMap({a}, {b})
      BY <3>1 DEF Rests, Paired, L
    <3>b. m[k + 1] = s.unmap[k + 1]
      BY <1>2, <3>1
    <3>c. k + 1 \in 1 .. Len(m)
      <4> HIDE DEF l
      <4> QED
        BY <1>1, <1>f, <3>1
    <3>3. m[k + 1] = PartMap({a}, {b}) /\ m[k + 1].first = {a} /\ m[k + 1].second = {b}
      BY <3>b, <3>2 DEF PartMap
    <3>4. ASSUME NEW i \in k + 1 .. l PROVE i = k + 1
      <4>1. SUFFICES ASSUME i # k + 1 PROVE FALSE
        OBVIOUS
      <4>2. i \in 1 .. l /\ k + 1 < i /\ i \in 1 .. Len(m) /\ k + 1 \in 1 .. Len(m)
        <5> HIDE DEF l
        <5> QED
          BY <1>1, <1>f, <3>1, <3>c, <4>1
      <4>3. /\ s.unmap[i].first = s.unmap[k + 1].first
            /\ s.unmap[i].second # s.unmap[k + 1].second
        BY <3>1, <4>1 DEF Rests, Paired
      <4>4. PICK c \in L, d \in R : s.unmap[i] = PartMap({c}, {d})
        BY DEF Rests, Paired, L
      <4>5. m[i] = s.unmap[i]
        BY <1>2, <4>2
      <4>d. c = a /\ d # b
        <5>1. PartMap({a}, {b}).first = {a} /\ PartMap({a}, {b}).second = {b}
          BY DEF PartMap
        <5>2. PartMap({c}, {d}).first = {c} /\ PartMap({c}, {d}).second = {d}
          BY DEF PartMap
        <5>3. {c} = {a} /\ {d} # {b}
          BY <3>2, <4>3, <4>4, <5>1, <5>2
        <5>4. QED
          BY <5>3
      <4>e. m[i].first = {a} /\ m[i].second = {d}
        BY <4>4, <4>5, <4>d DEF PartMap
      <4>6. m[k + 1].first \cap m[i].first = {a} /\ m[k + 1].second \cap m[i].second = {}
        BY <3>3, <4>d, <4>e
      <4>7. Cardinality({a}) = Cardinality({})
        BY <1>4, <4>2, <4>6
      <4>8. QED
        BY <4>7, FS_EmptySet, FS_Singleton
    <3>5. ASSUME NEW i \in 1 .. k PROVE a \in m[i].first <=> b \in m[i].second
      <4>1. i \in 1 .. Len(m) /\ k + 1 \in 1 .. Len(m) /\ i < k + 1
        BY <1>1, <1>5, <3>c
      <4>2. Cardinality(m[i].first \cap m[k + 1].first) = Cardinality(m[i].second \cap m[k + 1].second)
        BY <1>4, <4>1
      <4>3. /\ m[i].first \cap m[k + 1].first = {a} \cap m[i].first
            /\ m[i].second \cap m[k + 1].second = {b} \cap m[i].second
        BY <3>3
      <4>4. Meets(a, b, m[i].first, m[i].second)
        BY <4>2, <4>3, Zenon DEF Meets
      <4>5. QED
        BY <4>4, MeetsAlike
    <3>6. ASSUME NEW x \in L PROVE a \in C1(vec1[x]) <=> b \in C2(vec1[x])
      <4>1. PICK j \in l + 1 .. Len(m) : m[j] = Grouped(vec1, vec2, s.map, x)
        BY <1>2
      <4>2. m[j].first = C1(vec1[x]) /\ m[j].second = C2(vec1[x])
        BY <4>1 DEF Grouped, PartMap, C1, C2
      <4>3. j \in 1 .. Len(m) /\ k + 1 \in 1 .. Len(m) /\ k + 1 < j
        <5> HIDE DEF l
        <5> QED
          BY <1>1, <1>f, <3>1, <3>c
      <4>4. Cardinality(m[k + 1].first \cap m[j].first) = Cardinality(m[k + 1].second \cap m[j].second)
        BY <1>4, <4>3
      <4>5. Meets(a, b, C1(vec1[x]), C2(vec1[x]))
        BY <3>3, <4>2, <4>4, Zenon DEF Meets
      <4>6. QED
        BY <4>5, MeetsAlike
    <3> HIDE DEF R
    <3>7. QED
      BY <3>2, <3>3, <3>4, <3>5, <3>6
  <2>3. QED
    BY <2>1, <2>2
<1>7. PICK a, b : /\ \A i \in k + 1 .. l : a \in L /\ b \in R /\ m[i] = PartMap({a}, {b})
                  /\ \A i \in 1 .. k : a \in m[i].first <=> b \in m[i].second
                  /\ \A x \in L : a \in C1(vec1[x]) <=> b \in C2(vec1[x])
  BY <1>6
(* What a PartMap of the list and a count have in common is matched.       *)
<1> DEFINE X(i, c) == m[i].first \cap C1(c)
           Y(i, c) == m[i].second \cap C2(c)
           Matches(f, i, c) == OneToOne(f, X(i, c), Y(i, c)) /\ (a \in X(i, c) => f[a] = b)
<1>8. ASSUME NEW i \in 1 .. k, NEW x \in L
      PROVE  \E f : Matches(f, i, vec1[x])
  <2>1. PICK j \in l + 1 .. Len(m) : m[j] = Grouped(vec1, vec2, s.map, x)
    BY <1>2
  <2>2. m[j].first = C1(vec1[x]) /\ m[j].second = C2(vec1[x])
    BY <2>1 DEF Grouped, PartMap, C1, C2
  <2>3. i \in 1 .. Len(m) /\ j \in 1 .. Len(m) /\ i < j
    BY <1>1, <1>2, <1>5
  <2>4. Cardinality(X(i, vec1[x])) = Cardinality(Y(i, vec1[x]))
    <3>1. X(i, vec1[x]) = m[i].first \cap m[j].first /\ Y(i, vec1[x]) = m[i].second \cap m[j].second
      BY <2>2
    <3>2. Cardinality(m[i].first \cap m[j].first) = Cardinality(m[i].second \cap m[j].second)
      BY <1>4, <2>3
    <3> HIDE DEF X, Y
    <3>3. QED
      BY <3>1, <3>2
  <2>5. X(i, vec1[x]) \in SUBSET Bits(n) /\ Y(i, vec1[x]) \in SUBSET Bits(n)
    BY DEF Class, C1, C2
  <2>6. IsFiniteSet(X(i, vec1[x])) /\ IsFiniteSet(Y(i, vec1[x]))
    BY <1>1, <2>5, BitsFinite
  <2>7. a \in X(i, vec1[x]) <=> b \in Y(i, vec1[x])
    BY <1>7
  <2> HIDE DEF X, Y
  <2>8. QED
    BY <2>4, <2>6, <2>7, PairedMap
<1>9. \A x \in L : \E i \in 1 .. k : x \in m[i].first
  BY <1>5 DEF Rests, Divided, L
<1> DEFINE p(x) == CHOOSE i \in 1 .. k : x \in m[i].first
           pick(x) == CHOOSE f : Matches(f, p(x), vec1[x])
           g == [x \in Bits(n) |-> IF x \in L THEN pick(x)[x] ELSE s.map[x]]
<1>10. \A x \in L : p(x) \in 1 .. k /\ x \in m[p(x)].first
  BY <1>9
<1>11. ASSUME NEW x \in L, NEW i \in 1 .. k, x \in m[i].first PROVE i = p(x)
  <2>1. s.unmap[i].first \cap s.unmap[p(x)].first # {}
    BY <1>5, <1>10, <1>11
  <2> HIDE DEF p
  <2>2. QED
    BY <1>10, <2>1 DEF Rests, Divided
<1>12. \A x \in L : Matches(pick(x), p(x), vec1[x])
  <2> HIDE DEF p, Matches
  <2> QED
    BY <1>8, <1>10
<1>13. \A x \in L : x \in X(p(x), vec1[x])
  <2> HIDE DEF p
  <2> QED
    BY <1>10 DEF Class, C1, L
<1>e. \A x \in L : x \in Bits(n)
  BY DEF L
<1> HIDE DEF pick, p
<1>14. \A x \in L : g[x] = pick(x)[x] /\ g[x] \in m[p(x)].second /\ g[x] \in C2(vec1[x])
  <2>1. \A x \in L : g[x] = pick(x)[x]
    BY <1>e
  <2> HIDE DEF g
  <2>2. \A x \in L : pick(x)[x] \in Y(p(x), vec1[x])
    <3> HIDE DEF X, Y
    <3> QED
      BY <1>12, <1>13 DEF OneToOne
  <2>3. QED
    BY <2>1, <2>2
<1>15. \A x \in L : g[x] \in R
  BY <1>14 DEF Class, C2
<1>16. ASSUME NEW x \in Bits(n), x \notin L
       PROVE  x \in DOMAIN s.map /\ g[x] = s.map[x] /\ g[x] \in Range(s.map) /\ g[x] \in Bits(n)
  BY <1>16 DEF Rests, IsSide, Range, L
<1> HIDE DEF g
<1>17. ASSUME NEW x \in L, NEW y \in L, g[x] = g[y] PROVE x = y
  <2>1. p(x) = p(y)
    <3>1. s.unmap[p(x)].second \cap s.unmap[p(y)].second # {}
      BY <1>5, <1>10, <1>14, <1>17
    <3>2. QED
      BY <1>10, <3>1 DEF Rests, Divided
  <2>2. vec1[x] = vec1[y]
    BY <1>14, <1>17 DEF Class, C2
  <2>3. pick(x) = pick(y)
    BY <2>1, <2>2 DEF pick
  <2>4. x \in X(p(x), vec1[x]) /\ y \in X(p(x), vec1[x]) /\ pick(x)[x] = pick(x)[y]
    BY <1>13, <1>14, <1>17, <2>1, <2>2, <2>3
  <2> HIDE DEF X, Y
  <2>5. QED
    BY <1>12, <2>4 DEF OneToOne
<1>18. \A x, y \in Bits(n) : g[x] = g[y] => x = y
  <2>1. ASSUME NEW x \in Bits(n), NEW y \in Bits(n), g[x] = g[y] PROVE x = y
    <3>1. CASE x \in L /\ y \in L
      BY <1>17, <2>1, <3>1
    <3>2. CASE x \notin L /\ y \notin L
      BY <1>16, <2>1, <3>2 DEF Rests, IsSide, IsInjective
    <3>3. CASE x \in L /\ y \notin L
      BY <1>15, <1>16, <2>1, <3>3
    <3>4. CASE x \notin L /\ y \in L
      BY <1>15, <1>16, <2>1, <3>4
    <3>5. QED
      BY <3>1, <3>2, <3>3, <3>4
  <2>2. QED
    BY <2>1
<1>19. g \in [Bits(n) -> Bits(n)]
  <2>1. \A x \in Bits(n) : g[x] \in Bits(n)
    BY <1>15, <1>16 DEF L
  <2>2. QED
    BY <2>1 DEF g
<1>20. Bijects(g, n)
  BY <1>1, <1>18, <1>19, BijectsIf
<1>21. Follows(g, s.map)
  BY <1>16, <1>19 DEF Follows, Rests, IsSide, L
<1>22. ASSUME NEW i \in DOMAIN m, \A x \in m[i].first : g[x] \in m[i].second
       PROVE  m[i].second = Image(g, m[i].first)
  <2>1. i \in 1 .. Len(m) /\ m[i].first \in SUBSET Bits(n) /\ m[i].second \in SUBSET Bits(n)
    BY <1>c, <1>d
  <2>2. IsFiniteSet(m[i].first) /\ IsFiniteSet(m[i].second)
    BY <1>1, <2>1, BitsFinite
  <2>3. Cardinality(m[i].first) = Cardinality(m[i].second)
    BY <1>3, <2>1
  <2>4. \A x, y \in m[i].first : g[x] = g[y] => x = y
    BY <1>18, <2>1
  <2>5. QED
    BY <1>22, <2>2, <2>3, <2>4, ImageFills
<1>23. ASSUME NEW i \in DOMAIN m PROVE \A x \in m[i].first : g[x] \in m[i].second
  <2>1. i \in 1 .. Len(m) /\ m[i].first \subseteq Bits(n)
    BY <1>c, <1>d
  <2>2. CASE i \in 1 .. k
    <3>1. m[i].first \subseteq L
      BY <1>5, <2>1, <2>2 DEF Rests, Divided, L
    <3>2. \A x \in m[i].first : i = p(x)
      BY <1>11, <2>2, <3>1
    <3>3. QED
      BY <1>14, <3>1, <3>2
  <2>3. CASE i \in k + 1 .. l
    <3>1. a \in L /\ b \in R /\ m[i].first = {a} /\ m[i].second = {b}
      BY <1>7, <2>3 DEF PartMap
    <3>2. a \in X(p(a), vec1[a])
      BY <1>13, <3>1
    <3>3. pick(a)[a] = b
      <4> HIDE DEF X, Y
      <4> QED
        BY <1>12, <3>1, <3>2
    <3>4. g[a] = b
      BY <1>14, <3>1, <3>3
    <3>5. QED
      BY <3>1, <3>4
  <2>4. CASE i \in l + 1 .. Len(m)
    <3>1. PICK x \in L : m[i] = Grouped(vec1, vec2, s.map, x)
      BY <1>2, <2>4
    <3>2. m[i].first = C1(vec1[x]) /\ m[i].second = C2(vec1[x])
      BY <3>1 DEF Grouped, PartMap, C1, C2
    <3>3. \A y \in C1(vec1[x]) : y \in L /\ vec1[y] = vec1[x]
      BY DEF Class, C1, L
    <3>4. QED
      BY <1>14, <3>2, <3>3
  <2>5. QED
    BY <1>1, <2>1, <2>2, <2>3, <2>4
<1>24. Fits(g, m)
  BY <1>22, <1>23 DEF Fits
<1>25. QED
  BY <1>20, <1>21, <1>24

-----------------------------------------------------------------------------
(* A list in reduce: its PartMaps follow g, none has a bit that is done,   *)
(* and every other bit is in one of them.                                  *)
Listed(g, n, done, m) ==
  /\ m \in Seq(Parts(n))
  /\ Fits(g, m)
  /\ \A i \in DOMAIN m : m[i].first \cap done = {}
  /\ \A x \in Bits(n) \ done : \E i \in DOMAIN m : x \in m[i].first

Done(s) == DOMAIN s.map \cup DOMAIN s.mvar

Working(s, g) ==
  /\ IsSide(s) /\ s.at \in Nat \ {0}
  /\ Bijects(g, s.size) /\ Follows(g, s.map) /\ Follows(g, s.mvar)
  /\ DOMAIN s.map \cap DOMAIN s.mvar = {}
  /\ Listed(g, s.size, Done(s), s.unmap)

LEMMA SideWith ==
  ASSUME NEW s, IsSide(s), NEW u, NEW v, NEW k, NEW t, t = [s EXCEPT !.unmap = u, !.mvar = v, !.at = k]
  PROVE  t = [size |-> s.size, unmap |-> u, map |-> s.map, mvar |-> v, at |-> k]
<1>1. s \in [size : {s.size}, unmap : {s.unmap}, map : {s.map}, mvar : {s.mvar}, at : {s.at}]
  BY DEF IsSide
<1>2. t = [size |-> t.size, unmap |-> t.unmap, map |-> t.map, mvar |-> t.mvar, at |-> t.at]
  BY <1>1
<1>3. t.size = s.size /\ t.unmap = u /\ t.map = s.map /\ t.mvar = v /\ t.at = k
  BY <1>1
<1>4. QED
  BY <1>2, <1>3

LEMMA SideStarts ==
  ASSUME NEW s, IsSide(s), NEW u, NEW k, NEW t, t = [s EXCEPT !.unmap = u, !.at = k]
  PROVE  t = [size |-> s.size, unmap |-> u, map |-> s.map, mvar |-> s.mvar, at |-> k]
<1>1. s \in [size : {s.size}, unmap : {s.unmap}, map : {s.map}, mvar : {s.mvar}, at : {s.at}]
  BY DEF IsSide
<1>2. t = [size |-> t.size, unmap |-> t.unmap, map |-> t.map, mvar |-> t.mvar, at |-> t.at]
  BY <1>1
<1>3. t.size = s.size /\ t.unmap = u /\ t.map = s.map /\ t.mvar = s.mvar /\ t.at = k
  BY <1>1
<1>4. QED
  BY <1>2, <1>3

LEMMA DrawnListed ==
  ASSUME NEW g, NEW n \in Nat, NEW done, NEW m, Listed(g, n, done, m),
         NEW q \in Seq(Parts(n)), \E h : Drawn(q, m, h)
  PROVE  Listed(g, n, done, q)
<1>1. PICK h : Drawn(q, m, h)
  OBVIOUS
<1>2. \A k \in DOMAIN q : h[k] \in DOMAIN m /\ q[k] = m[h[k]]
  BY <1>1 DEF Drawn
<1>3. Fits(g, q)
  BY <1>2 DEF Fits, Listed
<1>4. \A k \in DOMAIN q : q[k].first \cap done = {}
  BY <1>2 DEF Listed
<1>5. ASSUME NEW x \in Bits(n) \ done PROVE \E k \in DOMAIN q : x \in q[k].first
  <2>1. PICK i \in DOMAIN m : x \in m[i].first
    BY DEF Listed
  <2>2. PICK k \in DOMAIN q : h[k] = i
    BY <1>1, <2>1 DEF Drawn
  <2>3. QED
    BY <1>2, <2>1, <2>2
<1>6. QED
  BY <1>3, <1>4, <1>5 DEF Listed

LEMMA StartWorks ==
  ASSUME NEW s, NEW k, Rests(s, k),
         NEW vec1 \in [Bits(s.size) -> Nat], NEW vec2 \in [Bits(s.size) -> Nat],
         NEW m, m = UpdateUnmap(s.unmap, vec1, vec2, s.map), CheckConsist(m)
  PROVE  \E g : Working(StartReduce(s, m), g)
<1> DEFINE n == s.size
           l == Len(s.unmap)
<1>1. PICK g : Bijects(g, n) /\ Follows(g, s.map) /\ Fits(g, m)
  BY ConsistentFits
<1>2. n \in Nat /\ s.unmap \in Seq(Parts(n)) /\ l \in Nat /\ k \in 0 .. l
  BY DEF Rests, IsSide
<1>3. m \in Seq(Parts(n)) /\ Added(s.unmap, vec1, vec2, s.map, m)
  BY <1>2, UpdateAdds
<1>4. DOMAIN vec1 = Bits(n) /\ DOMAIN m = 1 .. Len(m)
  BY <1>3
<1> HIDE DEF n
<1>5. /\ Len(m) \in Nat /\ Len(m) >= l
      /\ \A i \in 1 .. l : m[i] = s.unmap[i]
      /\ \A j \in l + 1 .. Len(m) :
           \E x \in Bits(n) \ DOMAIN s.map : m[j] = Grouped(vec1, vec2, s.map, x)
      /\ \A x \in Bits(n) \ DOMAIN s.map :
           \E j \in l + 1 .. Len(m) : m[j] = Grouped(vec1, vec2, s.map, x)
  BY <1>3, <1>4 DEF Added
<1>6. ASSUME NEW i \in DOMAIN m PROVE m[i].first \cap DOMAIN s.map = {}
  <2>1. i \in 1 .. Len(m)
    BY <1>4
  <2>2. CASE i \in 1 .. k
    <3>1. i \in 1 .. l
      <4> HIDE DEF l
      <4> QED
        BY <1>2, <2>2
    <3>2. QED
      BY <1>5, <2>2, <3>1 DEF Rests, Divided
  <2>3. CASE i \in k + 1 .. l
    <3>1. i \in 1 .. l
      <4> HIDE DEF l
      <4> QED
        BY <1>2, <2>3
    <3>2. PICK a \in Bits(n) \ DOMAIN s.map, b \in Bits(n) \ Range(s.map) :
            s.unmap[i] = PartMap({a}, {b})
      BY <2>3 DEF Rests, Paired, n
    <3>3. QED
      BY <1>5, <3>1, <3>2 DEF PartMap
  <2>4. CASE i \in l + 1 .. Len(m)
    <3>1. PICK x \in Bits(n) \ DOMAIN s.map : m[i] = Grouped(vec1, vec2, s.map, x)
      BY <1>5, <2>4
    <3>2. QED
      BY <3>1 DEF Grouped, PartMap, Class
  <2>5. QED
    <3> HIDE DEF l
    <3> QED
      BY <1>2, <1>5, <2>1, <2>2, <2>3, <2>4
<1>7. ASSUME NEW x \in Bits(n) \ DOMAIN s.map PROVE \E j \in DOMAIN m : x \in m[j].first
  <2>1. PICK j \in l + 1 .. Len(m) : m[j] = Grouped(vec1, vec2, s.map, x)
    BY <1>5
  <2>2. x \in m[j].first
    BY <1>4, <2>1 DEF Grouped, PartMap, Class
  <2>3. j \in DOMAIN m
    <3> HIDE DEF l
    <3> QED
      BY <1>2, <1>4, <1>5, <2>1
  <2>4. QED
    BY <2>2, <2>3
<1>8. Listed(g, n, DOMAIN s.map, m)
  BY <1>1, <1>3, <1>6, <1>7 DEF Listed
<1> DEFINE q == NotEmpty(m)
           t == StartReduce(s, m)
<1>9. q \in Seq(Parts(n)) /\ \E h : Drawn(q, m, h)
  BY <1>2, <1>3, NotEmptyDraws
<1>10. Listed(g, n, DOMAIN s.map, q)
  BY <1>2, <1>8, <1>9, DrawnListed
<1>11. t = [size |-> n, unmap |-> q, map |-> s.map, mvar |-> <<>>, at |-> Len(q) + 1]
  <2>1. t = [s EXCEPT !.unmap = q, !.at = Len(q) + 1]
    BY DEF StartReduce
  <2>2. IsSide(s) /\ s.mvar = <<>>
    BY DEF Rests
  <2> HIDE DEF q, t
  <2>3. t = [size |-> s.size, unmap |-> q, map |-> s.map, mvar |-> s.mvar, at |-> Len(q) + 1]
    BY <2>1, <2>2, SideStarts
  <2>4. QED
    BY <2>2, <2>3 DEF n
<1>12. Len(q) \in Nat
  BY <1>9
<1> HIDE DEF q, t
<1>13. /\ t.size = n /\ t.unmap = q /\ t.map = s.map /\ t.mvar = <<>> /\ t.at = Len(q) + 1
       /\ t = [size |-> t.size, unmap |-> t.unmap, map |-> t.map, mvar |-> t.mvar, at |-> t.at]
  BY <1>11
<1>14. IsSide(t) /\ t.at \in Nat \ {0}
  BY <1>2, <1>9, <1>12, <1>13 DEF Rests, IsSide, n
<1>15. DOMAIN t.mvar = {} /\ Done(t) = DOMAIN s.map
  BY <1>13 DEF Done
<1>16. Working(t, g)
  BY <1>1, <1>10, <1>13, <1>14, <1>15 DEF Working, Follows
<1>17. QED
  BY <1>16 DEF t

-----------------------------------------------------------------------------
(* The turns of reduce follow the same map.                                *)
LEMMA WithoutList ==
  ASSUME NEW S, NEW m \in Seq(S), NEW k \in 1 .. Len(m)
  PROVE  /\ Len(m) \in Nat
         /\ Without(m, k) \in [1 .. Len(m) - 1 -> S]
         /\ \A i \in 1 .. Len(m) - 1 : \E j \in 1 .. Len(m) : Without(m, k)[i] = m[j]
         /\ \A j \in 1 .. Len(m) : j # k => \E i \in 1 .. Len(m) - 1 : Without(m, k)[i] = m[j]
<1>1. Len(m) \in Nat /\ \A i \in 1 .. Len(m) : m[i] \in S
  OBVIOUS
<1>2. ASSUME NEW i \in 1 .. Len(m) - 1
      PROVE  \E j \in 1 .. Len(m) : Without(m, k)[i] = m[j]
  <2>1. i \in 1 .. Len(m) /\ i + 1 \in 1 .. Len(m)
    BY <1>1
  <2>2. Without(m, k)[i] = m[i] \/ Without(m, k)[i] = m[i + 1]
    BY DEF Without
  <2>3. QED
    BY <2>1, <2>2
<1>3. ASSUME NEW j \in 1 .. Len(m), j # k
      PROVE  \E i \in 1 .. Len(m) - 1 : Without(m, k)[i] = m[j]
  <2>1. CASE j < k
    <3>1. j \in 1 .. Len(m) - 1
      BY <1>1, <2>1
    <3>2. Without(m, k)[j] = m[j]
      BY <2>1, <3>1 DEF Without
    <3>3. QED
      BY <3>1, <3>2
  <2>2. CASE k < j
    <3>1. j - 1 \in 1 .. Len(m) - 1 /\ ~ (j - 1 < k) /\ (j - 1) + 1 = j
      BY <1>1, <2>2
    <3>2. Without(m, k)[j - 1] = m[j]
      BY <3>1 DEF Without
    <3>3. QED
      BY <3>1, <3>2
  <2>3. QED
    BY <1>1, <1>3, <2>1, <2>2
<1>4. Without(m, k) \in [1 .. Len(m) - 1 -> S]
  <2>1. \A i \in 1 .. Len(m) - 1 : Without(m, k)[i] \in S
    BY <1>1, <1>2
  <2>2. QED
    BY <2>1 DEF Without
<1>5. QED
  BY <1>1, <1>2, <1>3, <1>4

LEMMA ImageLess ==
  ASSUME NEW n, NEW g, Bijects(g, n), NEW S \in SUBSET Bits(n), NEW a \in Bits(n)
  PROVE  Image(g, S \ {a}) = Image(g, S) \ {g[a]}
BY DEF Bijects, IsInjective, Image

LEMMA ImageMeet ==
  ASSUME NEW n, NEW g, Bijects(g, n)
  PROVE  \A S, T \in SUBSET Bits(n) : Image(g, S \cap T) = Image(g, S) \cap Image(g, T)
BY DEF Bijects, IsInjective, Image

LEMMA ImageMinus ==
  ASSUME NEW n, NEW g, Bijects(g, n)
  PROVE  \A S, T \in SUBSET Bits(n) : Image(g, S \ T) = Image(g, S) \ Image(g, T)
BY DEF Bijects, IsInjective, Image

LEMMA OneMember ==
  ASSUME NEW S, Cardinality(S) = 1, IsFiniteSet(S)
  PROVE  \E a : S = {a}
<1>1. S # {}
  BY FS_EmptySet
<1>2. PICK a \in S : TRUE
  BY <1>1
<1>3. Cardinality(S \ {a}) = 0 /\ IsFiniteSet(S \ {a})
  BY <1>2, FS_RemoveElement
<1>4. S \ {a} = {}
  BY <1>3, FS_EmptySet
<1>5. QED
  BY <1>2, <1>4

LEMMA WorksOn ==
  ASSUME NEW s, NEW g, Working(s, g), NEW u, NEW v, NEW k \in Nat \ {0},
         Follows(g, v), DOMAIN s.map \cap DOMAIN v = {},
         Listed(g, s.size, DOMAIN s.map \cup DOMAIN v, u),
         NEW t, t = [size |-> s.size, unmap |-> u, map |-> s.map, mvar |-> v, at |-> k]
  PROVE  Working(t, g)
<1>1. /\ t.size = s.size /\ t.unmap = u /\ t.map = s.map /\ t.mvar = v /\ t.at = k
      /\ t = [size |-> t.size, unmap |-> t.unmap, map |-> t.map, mvar |-> t.mvar, at |-> t.at]
  OBVIOUS
<1>2. u \in Seq(Parts(s.size))
  BY DEF Listed
<1>3. IsSide(t)
  BY <1>1, <1>2 DEF IsSide, Working
<1>4. QED
  BY <1>1, <1>3 DEF Working, Done

LEMMA TakeSingleWorks ==
  ASSUME NEW s, NEW g, Working(s, g), Singles(s) # {}
  PROVE  Working(TakeSingle(s), g)
<1> DEFINE n == s.size
           m == s.unmap
           k == SomeOf(Singles(s))
           a == SomeOf(m[k].first)
           b == SomeOf(m[k].second)
           rest == Without(m, k)
           u == [i \in DOMAIN rest |-> PartMap(rest[i].first \ {a}, rest[i].second \ {b})]
           v == Merged(s.mvar, [x \in {a} |-> b])
<1>1. /\ n \in Nat /\ m \in Seq(Parts(n)) /\ Len(m) \in Nat /\ s.at \in Nat \ {0}
      /\ Bijects(g, n)
  BY DEF Working, IsSide
<1> HIDE DEF n, m
<1>2. Singles(s) \in SUBSET Nat
  BY <1>1 DEF Singles, m
<1>3. k \in Singles(s)
  BY <1>2, SomeOfIs
<1>4. k \in 1 .. Len(m) /\ Cardinality(m[k].first) = 1
  BY <1>1, <1>3 DEF Singles, m
<1> HIDE DEF k
<1>5. \A i \in 1 .. Len(m) : /\ m[i].first \in SUBSET Bits(n) /\ m[i].second \in SUBSET Bits(n)
                             /\ m[i].second = Image(g, m[i].first)
                             /\ m[i].first \cap Done(s) = {}
  <2>1. \A i \in 1 .. Len(m) : m[i] \in Parts(n)
    BY <1>1
  <2>2. DOMAIN m = 1 .. Len(m)
    BY <1>1
  <2>3. QED
    BY <2>1, <2>2 DEF Parts, Working, Listed, Fits, m
<1>6. \A x \in Bits(n) : x \in Nat /\ g[x] \in Bits(n)
  BY <1>1 DEF Bits, Bijects
<1>7. a \in Bits(n) /\ b = g[a] /\ m[k].first = {a}
  <2>1. PICK x : m[k].first = {x}
    BY <1>1, <1>4, <1>5, BitsFinite, OneMember
  <2>2. x \in Bits(n) /\ x \in Nat /\ g[x] \in Nat
    BY <1>4, <1>5, <1>6, <2>1
  <2>3. a = x
    BY <2>1, <2>2, OnlyOf
  <2>4. m[k].second = {g[x]}
    BY <1>4, <1>5, <2>1 DEF Image
  <2>5. b = g[x]
    BY <2>2, <2>4, OnlyOf
  <2> HIDE DEF a, b
  <2>6. QED
    BY <2>1, <2>2, <2>3, <2>5
<1> HIDE DEF a, b
<1>8. /\ rest \in [1 .. Len(m) - 1 -> Parts(n)]
      /\ \A i \in 1 .. Len(m) - 1 : \E j \in 1 .. Len(m) : rest[i] = m[j]
      /\ \A j \in 1 .. Len(m) : j # k => \E i \in 1 .. Len(m) - 1 : rest[i] = m[j]
  BY <1>1, <1>4, WithoutList
<1> HIDE DEF rest
<1>9. Len(m) - 1 \in Nat
  BY <1>1, <1>4
<1>10. \A i \in 1 .. Len(m) - 1 : /\ u[i].first = rest[i].first \ {a}
                                  /\ u[i].second = rest[i].second \ {b}
  BY <1>8 DEF PartMap
<1>11. u \in Seq(Parts(n)) /\ DOMAIN u = 1 .. Len(m) - 1
  <2>1. \A i \in 1 .. Len(m) - 1 :
          PartMap(rest[i].first \ {a}, rest[i].second \ {b}) \in Parts(n)
    BY <1>8 DEF Parts, PartMap
  <2>2. u \in [1 .. Len(m) - 1 -> Parts(n)]
    BY <1>8, <2>1
  <2>3. QED
    BY <1>9, <2>2, SeqIs
<1> HIDE DEF u
<1>12. /\ DOMAIN v = DOMAIN s.mvar \cup {a}
       /\ \A x \in DOMAIN s.mvar : v[x] = s.mvar[x]
       /\ a \notin DOMAIN s.mvar => v[a] = b
  BY DEF Merged
<1> HIDE DEF v
<1>13. a \notin DOMAIN s.map /\ a \notin DOMAIN s.mvar
  BY <1>4, <1>5, <1>7 DEF Done
<1>14. Follows(g, v) /\ DOMAIN s.map \cap DOMAIN v = {}
  <2>1. DOMAIN g = Bits(n)
    BY <1>1 DEF Bijects
  <2>2. QED
    <3>a. DOMAIN s.map \cap DOMAIN s.mvar = {} /\ Follows(g, s.mvar)
      BY Zenon DEF Working
    <3>1. v[a] = g[a] /\ DOMAIN s.map \cap DOMAIN s.mvar = {}
      BY <1>7, <1>12, <1>13, <3>a
    <3>2. /\ DOMAIN s.mvar \subseteq DOMAIN g
          /\ \A x \in DOMAIN s.mvar : v[x] = g[x]
      BY <1>12, <3>a DEF Follows
    <3>3. \A x \in DOMAIN v : v[x] = g[x]
      BY <1>12, <3>1, <3>2
    <3>4. DOMAIN v \subseteq DOMAIN g
      BY <1>7, <1>12, <2>1, <3>2
    <3>5. DOMAIN s.map \cap DOMAIN v = {}
      BY <1>12, <1>13, <3>1
    <3>6. QED
      BY <3>3, <3>4, <3>5 DEF Follows
<1>15. Fits(g, u)
  <2>1. ASSUME NEW i \in 1 .. Len(m) - 1 PROVE u[i].second = Image(g, u[i].first)
    <3>1. rest[i].first \in SUBSET Bits(n) /\ rest[i].second = Image(g, rest[i].first)
      BY <1>5, <1>8
    <3>2. Image(g, rest[i].first \ {a}) = Image(g, rest[i].first) \ {g[a]}
      <4>1. \A S \in SUBSET Bits(n) : Image(g, S \ {a}) = Image(g, S) \ {g[a]}
        BY <1>1, <1>7, ImageLess
      <4>2. QED
        BY <3>1, <4>1
    <3>3. QED
      BY <1>7, <1>10, <3>1, <3>2
  <2>2. QED
    BY <1>11, <2>1 DEF Fits
<1>16. DOMAIN s.map \cup DOMAIN v = Done(s) \cup {a}
  BY <1>12 DEF Done
<1>17. \A i \in 1 .. Len(m) - 1 : u[i].first \cap (Done(s) \cup {a}) = {}
  BY <1>5, <1>8, <1>10
<1>18. ASSUME NEW x \in Bits(n) \ (Done(s) \cup {a})
       PROVE  \E i \in 1 .. Len(m) - 1 : x \in u[i].first
  <2>1. PICK j \in 1 .. Len(m) : x \in m[j].first
    <3>1. DOMAIN m = 1 .. Len(m)
      BY <1>1
    <3>2. QED
      BY <3>1 DEF Working, Listed, n, m
  <2>2. j # k
    BY <1>7, <2>1
  <2>3. PICK i \in 1 .. Len(m) - 1 : rest[i] = m[j]
    BY <1>8, <2>2
  <2>4. QED
    BY <1>10, <2>1, <2>3
<1>19. Listed(g, n, DOMAIN s.map \cup DOMAIN v, u)
  BY <1>11, <1>15, <1>16, <1>17, <1>18 DEF Listed
<1> DEFINE t == TakeSingle(s)
<1>20. t = [s EXCEPT !.unmap = u, !.mvar = v, !.at = k]
  BY DEF TakeSingle, u, v, rest, a, b, k, m
<1>21. IsSide(s) /\ k \in Nat \ {0}
  BY <1>1, <1>4 DEF Working
<1> HIDE DEF t
<1>22. t = [size |-> s.size, unmap |-> u, map |-> s.map, mvar |-> v, at |-> k]
  BY <1>20, <1>21, SideWith
<1>23. Working(t, g)
  BY <1>14, <1>19, <1>21, <1>22, WorksOn DEF n
<1>24. QED
  BY <1>23 DEF t

LEMMA SplitFirstWorks ==
  ASSUME NEW s, NEW g, Working(s, g), Overlaps(s.unmap)
  PROVE  Working(SplitFirst(s), g)
<1> DEFINE n == s.size
           m == s.unmap
           I == { k \in DOMAIN m : \E j \in DOMAIN m : k < j /\ Overlap(m, k, j) }
           i == SomeOf(I)
           J == { k \in DOMAIN m : i < k /\ Overlap(m, i, k) }
           j == SomeOf(J)
           one == m[i].first \cap m[j].first
           two == m[i].second \cap m[j].second
           cut == [k \in DOMAIN m |->
                     IF k \in {i, j} THEN PartMap(m[k].first \ one, m[k].second \ two) ELSE m[k]]
           u == Append(cut, PartMap(one, two))
<1>1. /\ n \in Nat /\ m \in Seq(Parts(n)) /\ Len(m) \in Nat /\ DOMAIN m = 1 .. Len(m)
      /\ Bijects(g, n)
  BY DEF Working, IsSide
<1> HIDE DEF n, m
<1>2. i \in 1 .. Len(m) /\ \E k \in 1 .. Len(m) : i < k /\ Overlap(m, i, k)
  <2>1. I \in SUBSET Nat /\ I # {}
    BY <1>1 DEF Overlaps, m
  <2>2. i \in I
    <3> HIDE DEF I
    <3> QED
      BY <2>1, SomeOfIs
  <2>3. QED
    <3> HIDE DEF i
    <3> QED
      BY <1>1, <2>2
<1> HIDE DEF i
<1>3. j \in 1 .. Len(m)
  <2>1. J \in SUBSET Nat /\ J # {}
    BY <1>1, <1>2
  <2>2. j \in J
    <3> HIDE DEF J
    <3> QED
      BY <2>1, SomeOfIs
  <2>3. QED
    <3> HIDE DEF j
    <3> QED
      BY <1>1, <2>2
<1> HIDE DEF j
<1>4. \A k \in 1 .. Len(m) : /\ m[k].first \in SUBSET Bits(n) /\ m[k].second \in SUBSET Bits(n)
                             /\ m[k].second = Image(g, m[k].first)
                             /\ m[k].first \cap Done(s) = {}
  <2>1. \A k \in 1 .. Len(m) : m[k] \in Parts(n)
    BY <1>1
  <2>2. QED
    BY <1>1, <2>1 DEF Parts, Working, Listed, Fits, m
<1>5. /\ one \in SUBSET Bits(n) /\ two \in SUBSET Bits(n) /\ two = Image(g, one)
      /\ one \cap Done(s) = {} /\ one \subseteq m[i].first
  <2>1. m[i].first \in SUBSET Bits(n) /\ m[j].first \in SUBSET Bits(n)
    BY <1>2, <1>3, <1>4
  <2>2. Image(g, m[i].first \cap m[j].first) = Image(g, m[i].first) \cap Image(g, m[j].first)
    
    <3>1. \A S, T \in SUBSET Bits(n) : Image(g, S \cap T) = Image(g, S) \cap Image(g, T)
      BY <1>1, ImageMeet
    <3>2. QED
      BY <2>1, <3>1
  <2>3. QED
    BY <1>2, <1>3, <1>4, <2>2
<1> HIDE DEF one, two
<1>6. ASSUME NEW k \in 1 .. Len(m)
      PROVE  /\ cut[k] \in Parts(n)
             /\ cut[k].second = Image(g, cut[k].first)
             /\ cut[k].first \cap Done(s) = {}
             /\ m[k].first \subseteq cut[k].first \cup one
  <2>1. m[k] \in Parts(n)
    BY <1>1
  <2>2. CASE k \in {i, j}
    <3>1. cut[k] = PartMap(m[k].first \ one, m[k].second \ two)
      BY <1>1, <2>2
    <3>2. Image(g, m[k].first \ one) = Image(g, m[k].first) \ Image(g, one)
      
      <4>1. \A S, T \in SUBSET Bits(n) : Image(g, S \ T) = Image(g, S) \ Image(g, T)
        BY <1>1, ImageMinus
      <4>2. QED
        BY <1>4, <1>5, <4>1
    <3> HIDE DEF cut
    <3>3. cut[k].first = m[k].first \ one /\ cut[k].second = m[k].second \ two
      BY <3>1 DEF PartMap
    <3>4. cut[k] \in Parts(n)
      BY <1>4, <3>1 DEF PartMap, Parts
    <3>5. QED
      BY <1>4, <1>5, <3>2, <3>3, <3>4
  <2>3. CASE k \notin {i, j}
    <3>1. cut[k] = m[k]
      BY <1>1, <2>3
    <3> HIDE DEF cut
    <3>2. QED
      BY <1>4, <2>1, <3>1
  <2>4. QED
    BY <2>2, <2>3
<1>7. cut \in Seq(Parts(n)) /\ Len(cut) = Len(m)
  <2>1. cut \in [1 .. Len(m) -> Parts(n)]
    <3>1. DOMAIN cut = 1 .. Len(m)
      BY <1>1
    <3>2. cut = [k \in 1 .. Len(m) |-> cut[k]]
      BY <1>1
    <3> HIDE DEF cut
    <3>3. QED
      BY <1>6, <3>2
  <2> HIDE DEF cut
  <2>2. QED
    BY <1>1, <2>1, SeqIs
<1> HIDE DEF cut
<1>8. PartMap(one, two) \in Parts(n) /\ PartMap(one, two).first = one /\ PartMap(one, two).second = two
  BY <1>5 DEF PartMap, Parts
<1>9. /\ u \in Seq(Parts(n)) /\ DOMAIN u = 1 .. Len(m) + 1 /\ u[Len(m) + 1] = PartMap(one, two)
      /\ \A k \in 1 .. Len(m) : u[k] = cut[k]
  BY <1>1, <1>7, <1>8
<1> HIDE DEF u
<1>10. \A k \in DOMAIN u : k \in 1 .. Len(m) \/ k = Len(m) + 1
  BY <1>1, <1>9
<1>11. Fits(g, u)
  BY <1>5, <1>6, <1>8, <1>9, <1>10 DEF Fits
<1>12. \A k \in DOMAIN u : u[k].first \cap Done(s) = {}
  BY <1>5, <1>6, <1>8, <1>9, <1>10
<1>13. ASSUME NEW x \in Bits(n) \ Done(s) PROVE \E k \in DOMAIN u : x \in u[k].first
  <2>1. PICK k \in 1 .. Len(m) : x \in m[k].first
    BY <1>1 DEF Working, Listed, n, m
  <2>2. x \in cut[k].first \/ x \in one
    BY <1>6, <2>1
  <2>3. k \in DOMAIN u /\ Len(m) + 1 \in DOMAIN u
    BY <1>1, <1>9
  <2>4. QED
    BY <1>8, <1>9, <2>2, <2>3
<1>14. Listed(g, n, Done(s), u)
  BY <1>9, <1>11, <1>12, <1>13 DEF Listed
<1>15. NotEmpty(u) \in Seq(Parts(n)) /\ \E h : Drawn(NotEmpty(u), u, h)
  BY <1>1, <1>9, NotEmptyDraws
<1>16. Listed(g, n, Done(s), NotEmpty(u))
  BY <1>1, <1>14, <1>15, DrawnListed
<1> DEFINE t == SplitFirst(s)
<1>17. t = [s EXCEPT !.unmap = NotEmpty(u), !.at = 1]
  BY DEF SplitFirst, Split, u, cut, one, two, j, i, m
<1>18. IsSide(s)
  BY DEF Working
<1> HIDE DEF t
<1>19. t = [size |-> s.size, unmap |-> NotEmpty(u), map |-> s.map, mvar |-> s.mvar, at |-> 1]
  BY <1>17, <1>18, SideStarts
<1>20. Listed(g, s.size, DOMAIN s.map \cup DOMAIN s.mvar, NotEmpty(u))
  BY <1>16 DEF Done, n
<1>21. Follows(g, s.mvar) /\ DOMAIN s.map \cap DOMAIN s.mvar = {} /\ 1 \in Nat \ {0}
  BY DEF Working
<1>22. Working(t, g)
  BY <1>19, <1>20, <1>21, WorksOn
<1>23. QED
  BY <1>22 DEF t

LEMMA TurnWorks ==
  ASSUME NEW s, \E g : Working(s, g), ~ Reduced(s)
  PROVE  \E g : Working(ReduceTurn(s), g)
<1>1. PICK g : Working(s, g)
  OBVIOUS
<1>2. CASE Singles(s) # {}
  <2>1. Working(TakeSingle(s), g)
    BY <1>1, <1>2, TakeSingleWorks
  <2>2. QED
    BY <1>2, <2>1 DEF ReduceTurn
<1>3. CASE Singles(s) = {}
  <2>1. Overlaps(s.unmap)
    BY <1>3 DEF Reduced
  <2>2. Working(SplitFirst(s), g)
    BY <1>1, <2>1, SplitFirstWorks
  <2>3. QED
    BY <1>3, <2>2 DEF ReduceTurn
<1>4. QED
  BY <1>2, <1>3

-----------------------------------------------------------------------------
(* After reduce the PartMaps are apart on both sides.                      *)
Apart(m) == \A i, j \in DOMAIN m : i # j => m[i].first \cap m[j].first = {}

LEMMA DrawnApart ==
  ASSUME NEW q, NEW m, \E h : Drawn(q, m, h), Apart(m)
  PROVE  Apart(q)
<1>1. PICK h : Drawn(q, m, h)
  OBVIOUS
<1>2. SUFFICES ASSUME NEW i \in DOMAIN q, NEW j \in DOMAIN q, i # j
               PROVE  q[i].first \cap q[j].first = {}
  BY DEF Apart
<1>3. h[i] \in DOMAIN m /\ h[j] \in DOMAIN m /\ h[i] # h[j]
  BY <1>1, <1>2 DEF Drawn, IsInjective
<1>4. q[i] = m[h[i]] /\ q[j] = m[h[j]]
  BY <1>1 DEF Drawn
<1>5. QED
  BY <1>3, <1>4 DEF Apart

LEMMA ReducedApart ==
  ASSUME NEW s, NEW g, Working(s, g), Reduced(s)
  PROVE  Apart(s.unmap)
<1> DEFINE n == s.size
           m == s.unmap
<1>1. m \in Seq(Parts(n)) /\ Bijects(g, n) /\ Fits(g, m)
  BY DEF Working, IsSide, Listed
<1>2. ~ Overlaps(m)
  BY DEF Reduced
<1> HIDE DEF n, m
<1>3. \A i \in DOMAIN m : /\ i \in Nat /\ m[i].first \in SUBSET Bits(n)
                          /\ m[i].second = Image(g, m[i].first)
  <2>1. \A i \in DOMAIN m : m[i] \in Parts(n) /\ i \in Nat
    BY <1>1
  <2>2. QED
    BY <1>1, <2>1 DEF Parts, Fits
<1>4. ASSUME NEW i \in DOMAIN m, NEW j \in DOMAIN m, i < j PROVE m[i].first \cap m[j].first = {}
  <2>1. m[i].first \cap m[j].first = {} \/ m[i].second \cap m[j].second = {}
    BY <1>2, <1>4 DEF Overlaps, Overlap
  <2>2. \A S, T \in SUBSET Bits(n) : Image(g, S \cap T) = Image(g, S) \cap Image(g, T)
    BY <1>1, ImageMeet
  <2>3. m[i].second \cap m[j].second = Image(g, m[i].first \cap m[j].first)
    BY <1>3, <2>2
  <2>4. QED
    BY <2>1, <2>3 DEF Image
<1>5. Apart(m)
  <2>1. ASSUME NEW i \in DOMAIN m, NEW j \in DOMAIN m, i # j
        PROVE  m[i].first \cap m[j].first = {}
    <3>1. i < j \/ j < i
      BY <1>3, <2>1
    <3>2. QED
      BY <1>4, <3>1
  <2>2. QED
    BY <2>1 DEF Apart
<1>6. QED
  BY <1>5 DEF m

LEMMA ExtendRests ==
  ASSUME NEW s, NEW g, Working(s, g), Reduced(s), NEW t, t = Extend(s)
  PROVE  /\ Rests(t, Len(t.unmap))
         /\ \A i \in 1 .. Len(t.unmap) : t.unmap[i].first # {}
<1> DEFINE n == s.size
           m == s.unmap
           q == NotEmpty(m)
           r == BySize(q)
           map == Merged(s.mvar, s.map)
<1>1. /\ n \in Nat /\ m \in Seq(Parts(n)) /\ Bijects(g, n) /\ Listed(g, n, Done(s), m)
      /\ Follows(g, s.map) /\ Follows(g, s.mvar)
  BY DEF Working, IsSide
<1>2. Apart(m)
  BY ReducedApart
<1>3. t = [size |-> n, unmap |-> r, map |-> map, mvar |-> <<>>, at |-> 1]
  BY DEF Extend, Side
<1> HIDE DEF n, m
<1>4. /\ q \in Seq(Parts(n)) /\ \E h : Drawn(q, m, h)
      /\ \A k \in DOMAIN q : q[k].first # {}
  BY <1>1, NotEmptyDraws
<1> HIDE DEF q
<1>5. r \in Seq(Parts(n)) /\ \E h : Drawn(r, q, h)
  BY <1>1, <1>4, BySizeDraws
<1> HIDE DEF r
<1>6. Listed(g, n, Done(s), r) /\ Apart(r)
  <2>1. Listed(g, n, Done(s), q) /\ Apart(q)
    BY <1>1, <1>2, <1>4, DrawnListed, DrawnApart
  <2>2. QED
    BY <1>1, <1>5, <2>1, DrawnListed, DrawnApart
<1>7. \A k \in DOMAIN r : r[k].first # {}
  <2>1. PICK h : Drawn(r, q, h)
    BY <1>5
  <2>2. \A k \in DOMAIN r : h[k] \in DOMAIN q /\ r[k] = q[h[k]]
    BY <2>1 DEF Drawn
  <2>3. QED
    BY <1>4, <2>2
<1>8. Len(r) \in Nat /\ DOMAIN r = 1 .. Len(r)
  BY <1>5
<1>9. DOMAIN map = Done(s) /\ Follows(g, map)
  <2>1. DOMAIN map = Done(s)
    BY DEF Merged, Done
  <2>2. \A x \in DOMAIN s.map : s.map[x] = g[x]
    BY <1>1 DEF Follows
  <2>3. \A x \in DOMAIN s.mvar : s.mvar[x] = g[x]
    BY <1>1 DEF Follows
  <2>4. \A x \in DOMAIN map : map[x] = g[x]
    BY <2>2, <2>3 DEF Merged
  <2>5. DOMAIN map \subseteq DOMAIN g
    BY <1>1, <2>1 DEF Follows, Done
  <2> HIDE DEF map
  <2>6. QED
    BY <2>1, <2>4, <2>5 DEF Follows
<1> HIDE DEF map
<1>10. /\ Done(s) \subseteq Bits(n)
       /\ \A x \in Done(s) : map[x] = g[x]
       /\ \A x \in Bits(n) : g[x] \in Bits(n)
       /\ \A x, y \in Bits(n) : g[x] = g[y] => x = y
       /\ \A y \in Bits(n) : \E x \in Bits(n) : g[x] = y
  BY <1>1, <1>9 DEF Follows, Bijects, IsInjective, Range
<1>11. IsInjective(map) /\ DOMAIN map \subseteq Bits(n) /\ Range(map) \subseteq Bits(n)
  BY <1>9, <1>10 DEF IsInjective, Range
<1>12. Range(map) = Image(g, Done(s))
  BY <1>9, <1>10 DEF Range, Image
<1>13. \A i \in DOMAIN r : /\ r[i].first \in SUBSET Bits(n) /\ r[i].second = Image(g, r[i].first)
                           /\ r[i].first \cap Done(s) = {}
  <2>1. \A i \in DOMAIN r : r[i] \in Parts(n)
    BY <1>5
  <2>2. QED
    BY <1>6, <2>1 DEF Parts, Listed, Fits
<1>14. \A x \in Bits(n) \ Done(s) : \E i \in DOMAIN r : x \in r[i].first
  BY <1>6 DEF Listed
<1>15. \A y \in Bits(n) \ Range(map) : \E i \in DOMAIN r : y \in r[i].second
  <2>1. SUFFICES ASSUME NEW y \in Bits(n) \ Range(map)
                 PROVE  \E i \in DOMAIN r : y \in r[i].second
    OBVIOUS
  <2>2. PICK x \in Bits(n) : g[x] = y
    BY <1>10
  <2>3. x \notin Done(s)
    BY <1>12, <2>2 DEF Image
  <2>4. PICK i \in DOMAIN r : x \in r[i].first
    BY <1>14, <2>3
  <2>5. QED
    BY <1>13, <2>2, <2>4 DEF Image
<1>16. \A i \in DOMAIN r : r[i].second \cap Range(map) = {}
  BY <1>10, <1>12, <1>13 DEF Image
<1>17. ASSUME NEW i \in DOMAIN r, NEW j \in DOMAIN r, i # j
       PROVE  r[i].first \cap r[j].first = {} /\ r[i].second \cap r[j].second = {}
  <2>1. r[i].first \cap r[j].first = {}
    BY <1>6, <1>17 DEF Apart
  <2>2. r[i].second \cap r[j].second = {}
    BY <1>10, <1>13, <2>1 DEF Image
  <2>3. QED
    BY <2>1, <2>2
<1>18. /\ t.size = n /\ t.unmap = r /\ t.map = map /\ t.mvar = <<>>
       /\ t = [size |-> t.size, unmap |-> t.unmap, map |-> t.map, mvar |-> t.mvar, at |-> t.at]
  BY <1>3
<1>19. IsSide(t)
  BY <1>1, <1>5, <1>11, <1>18 DEF IsSide
<1>20. Divided(t, Len(r))
  BY <1>8, <1>9, <1>13, <1>14, <1>15, <1>16, <1>17, <1>18 DEF Divided
<1>21. Paired(t, Len(r))
  <2>1. Len(r) + 1 .. Len(r) = {}
    BY <1>8
  <2>2. QED
    BY <1>18, <2>1 DEF Paired
<1>22. Len(r) \in 0 .. Len(r)
  BY <1>8
<1>23. QED
  BY <1>7, <1>8, <1>18, <1>19, <1>20, <1>21, <1>22 DEF Rests

-----------------------------------------------------------------------------
(* A pairing: one more PartMap behind the first k.                         *)
RestsSome(s) == \E k \in Nat : Rests(s, k)

Looping(s, left) ==
  \E k \in Nat \ {0} :
    /\ Rests(s, k)
    /\ s.unmap[1].first # {}
    /\ left \subseteq s.unmap[1].second
    /\ \A i \in k + 1 .. Len(s.unmap) :
         \E b \in s.unmap[1].second \ left :
           s.unmap[i] = PartMap({SomeOf(s.unmap[1].first)}, {b})

LEMMA LoopingRests ==
  ASSUME NEW s, NEW left, Looping(s, left)
  PROVE  RestsSome(s)
BY DEF Looping, RestsSome

LEMMA LoopStarts ==
  ASSUME NEW s, s.unmap # <<>>, Rests(s, Len(s.unmap)),
         \A i \in 1 .. Len(s.unmap) : s.unmap[i].first # {}
  PROVE  Looping(s, s.unmap[1].second)
<1>1. Len(s.unmap) \in Nat \ {0}
  BY DEF Rests, IsSide
<1>2. 1 \in 1 .. Len(s.unmap) /\ Len(s.unmap) + 1 .. Len(s.unmap) = {}
  BY <1>1
<1>3. QED
  BY <1>1, <1>2 DEF Looping

LEMMA PairLoops ==
  ASSUME NEW s, NEW left, Looping(s, left), NEW b \in left,
         NEW t, t = [s EXCEPT !.unmap = Append(s.unmap, PartMap({SomeOf(s.unmap[1].first)}, {b}))]
  PROVE  Looping(t, left \ {b})
<1> DEFINE n == s.size
           m == s.unmap
           a == SomeOf(m[1].first)
           q == Append(m, PartMap({a}, {b}))
<1>1. PICK k \in Nat \ {0} :
        /\ Rests(s, k)
        /\ m[1].first # {}
        /\ left \subseteq m[1].second
        /\ \A i \in k + 1 .. Len(m) : \E c \in m[1].second \ left : m[i] = PartMap({a}, {c})
  BY DEF Looping
<1>2. /\ n \in Nat /\ m \in Seq(Parts(n)) /\ Len(m) \in Nat /\ k \in 1 .. Len(m)
      /\ IsSide(s) /\ s.mvar = <<>> /\ Divided(s, k) /\ Paired(s, k)
  BY <1>1 DEF Rests, IsSide
<1>3. /\ t.size = n /\ t.unmap = q /\ t.map = s.map /\ t.mvar = s.mvar
      /\ t = [size |-> t.size, unmap |-> t.unmap, map |-> t.map, mvar |-> t.mvar, at |-> t.at]
  <2>1. s \in [size : {n}, unmap : {m}, map : {s.map}, mvar : {s.mvar}, at : {s.at}]
    BY <1>2 DEF IsSide
  <2>2. t = [s EXCEPT !.unmap = q]
    OBVIOUS
  <2> HIDE DEF q, n, m
  <2>3. QED
    BY <2>1, <2>2
<1>a. t.size = n /\ t.unmap = q /\ t.map = s.map
  BY <1>3
<1> HIDE DEF n, m
<1>4. /\ 1 \in 1 .. k /\ m[1] \in Parts(n)
  BY <1>2
<1>5. /\ m[1].first \cap DOMAIN s.map = {} /\ m[1].second \cap Range(s.map) = {}
  BY <1>2, <1>4 DEF Divided, m
<1>6. a \in m[1].first /\ b \in m[1].second
  <2>1. m[1].first \in SUBSET Nat
    BY <1>2, <1>4, BitsFinite DEF Parts
  <2>2. QED
    BY <1>1, <2>1, SomeOfIs
<1>7. a \in Bits(n) \ DOMAIN s.map /\ b \in Bits(n) \ Range(s.map)
  BY <1>4, <1>5, <1>6 DEF Parts
<1> HIDE DEF a
<1>8. /\ q \in Seq(Parts(n)) /\ Len(q) = Len(m) + 1
      /\ \A i \in 1 .. Len(m) : q[i] = m[i]
      /\ q[Len(m) + 1] = PartMap({a}, {b})
  <2>1. PartMap({a}, {b}) \in Parts(n)
    BY <1>7 DEF PartMap, Parts
  <2>2. QED
    BY <1>2, <2>1
<1> HIDE DEF q
<1>9. IsSide(t)
  BY <1>2, <1>3, <1>8 DEF IsSide, n
<1>10. \A i \in 1 .. k : q[i] = m[i]
  BY <1>2, <1>8
<1>11. Divided(t, k)
  BY <1>2, <1>3, <1>10 DEF Divided, n, m
(* Those before have the same first bit and others of its second set.      *)
<1>12. \A i \in k + 1 .. Len(q) :
         \E c \in (m[1].second \ left) \cup {b} :
           q[i] = PartMap({a}, {c}) /\ (i # Len(q) => c # b) /\ (i = Len(q) => c = b)
  <2>1. SUFFICES ASSUME NEW i \in k + 1 .. Len(q)
                 PROVE  \E c \in (m[1].second \ left) \cup {b} :
                          q[i] = PartMap({a}, {c}) /\ (i # Len(q) => c # b) /\ (i = Len(q) => c = b)
    OBVIOUS
  <2>2. CASE i = Len(q)
    BY <1>8, <2>2
  <2>3. CASE i # Len(q)
    <3>1. i \in k + 1 .. Len(m) /\ i \in 1 .. Len(m)
      BY <1>2, <1>8, <2>3
    <3>2. PICK c \in m[1].second \ left : m[i] = PartMap({a}, {c})
      BY <1>1, <3>1 DEF a, m
    <3>3. QED
      BY <1>8, <2>3, <3>1, <3>2
  <2>4. QED
    BY <2>2, <2>3
<1>13. \A c : PartMap({a}, {c}).first = {a} /\ PartMap({a}, {c}).second = {c}
  BY DEF PartMap
<1>14. \A c \in (m[1].second \ left) \cup {b} : c \in Bits(n) \ Range(s.map)
  BY <1>4, <1>5, <1>7 DEF Parts
<1>15. Paired(t, k)
  <2>1. \A i \in k + 1 .. Len(q) :
          \E x \in Bits(n) \ DOMAIN s.map, y \in Bits(n) \ Range(s.map) : q[i] = PartMap({x}, {y})
    BY <1>7, <1>12, <1>14
  <2>2. ASSUME NEW i \in k + 1 .. Len(q), NEW j \in k + 1 .. Len(q), i # j
        PROVE  q[i].first = q[j].first /\ q[i].second # q[j].second
    <3>1. q[i].first = q[j].first
      BY <1>12, <1>13
    <3>2. CASE i # Len(q) /\ j # Len(q)
      <4>1. i \in k + 1 .. Len(m) /\ j \in k + 1 .. Len(m) /\ i \in 1 .. Len(m) /\ j \in 1 .. Len(m)
        BY <1>2, <1>8, <3>2
      <4>2. m[i].second # m[j].second
        BY <1>2, <2>2, <4>1 DEF Paired, m
      <4>3. QED
        BY <1>8, <3>1, <4>1, <4>2
    <3>3. CASE i = Len(q) \/ j = Len(q)
      <4>1. PICK c : q[i] = PartMap({a}, {c}) /\ (i # Len(q) => c # b) /\ (i = Len(q) => c = b)
        BY <1>12
      <4>2. PICK d : q[j] = PartMap({a}, {d}) /\ (j # Len(q) => d # b) /\ (j = Len(q) => d = b)
        BY <1>12
      <4>3. c # d
        BY <2>2, <3>3, <4>1, <4>2
      <4>4. QED
        <5>1. q[i].second = {c} /\ q[j].second = {d}
          BY <1>13, <4>1, <4>2
        <5>2. {c} # {d}
          BY <4>3
        <5>3. QED
          BY <3>1, <5>1, <5>2
    <3>4. QED
      BY <3>2, <3>3
  <2>3. QED
    <3>1. \A i \in k + 1 .. Len(t.unmap) :
            \E x \in Bits(t.size) \ DOMAIN t.map, y \in Bits(t.size) \ Range(t.map) :
              t.unmap[i] = PartMap({x}, {y})
      <4>1. SUFFICES ASSUME NEW i \in k + 1 .. Len(t.unmap)
                     PROVE  \E x \in Bits(t.size) \ DOMAIN t.map, y \in Bits(t.size) \ Range(t.map) :
                              t.unmap[i] = PartMap({x}, {y})
        OBVIOUS
      <4>2. i \in k + 1 .. Len(q)
        BY <1>a
      <4>3. PICK x \in Bits(n) \ DOMAIN s.map, y \in Bits(n) \ Range(s.map) : q[i] = PartMap({x}, {y})
        BY <2>1, <4>2
      <4>4. x \in Bits(t.size) \ DOMAIN t.map /\ y \in Bits(t.size) \ Range(t.map)
        BY <1>a
      <4>5. t.unmap[i] = PartMap({x}, {y})
        BY <1>a, <4>3
      <4>6. QED
        BY <4>4, <4>5
    <3>2. \A i, j \in k + 1 .. Len(t.unmap) :
            i # j => /\ t.unmap[i].first = t.unmap[j].first
                     /\ t.unmap[i].second # t.unmap[j].second
      <4>1. SUFFICES ASSUME NEW i \in k + 1 .. Len(t.unmap), NEW j \in k + 1 .. Len(t.unmap), i # j
                     PROVE  t.unmap[i].first = t.unmap[j].first /\ t.unmap[i].second # t.unmap[j].second
        OBVIOUS
      <4>2. i \in k + 1 .. Len(q) /\ j \in k + 1 .. Len(q)
        BY <1>a
      <4>3. q[i].first = q[j].first /\ q[i].second # q[j].second
        BY <2>2, <4>1, <4>2
      <4>4. QED
        BY <1>a, <4>3
    <3>3. QED
      BY <3>1, <3>2, Zenon DEF Paired
<1>16. Rests(t, k)
  <2>1. k \in 0 .. Len(q)
    BY <1>2, <1>8
  <2>2. QED
    BY <1>2, <1>3, <1>9, <1>11, <1>15, <2>1 DEF Rests
<1>17. t.unmap[1] = m[1]
  BY <1>3, <1>4, <1>10
<1>18. \A i \in k + 1 .. Len(t.unmap) :
         \E c \in t.unmap[1].second \ (left \ {b}) :
           t.unmap[i] = PartMap({SomeOf(t.unmap[1].first)}, {c})
  <2>1. \A c \in (m[1].second \ left) \cup {b} : c \in m[1].second \ (left \ {b})
    BY <1>6
  <2>2. SomeOf(t.unmap[1].first) = a
    BY <1>17 DEF a
  <2>3. QED
    <3>1. SUFFICES ASSUME NEW i \in k + 1 .. Len(q)
                   PROVE  \E c \in m[1].second \ (left \ {b}) : q[i] = PartMap({a}, {c})
      BY <1>a, <1>17, <2>2
    <3>2. PICK c \in (m[1].second \ left) \cup {b} : q[i] = PartMap({a}, {c})
      BY <1>12
    <3>3. QED
      BY <2>1, <3>2
<1>19. t.unmap[1].first # {} /\ left \ {b} \subseteq t.unmap[1].second
  BY <1>1, <1>17 DEF m
<1>20. QED
  BY <1>16, <1>18, <1>19 DEF Looping

-----------------------------------------------------------------------------
(* What each call of bitVarmap has, by its stage.                          *)
Counts(f) ==
  /\ f.rows1 \in [Bits(f.in.size) -> Nat] /\ f.rows2 \in [Bits(f.in.size) -> Nat]
  /\ f.cols1 \in [Bits(f.out.size) -> Nat] /\ f.cols2 \in [Bits(f.out.size) -> Nat]

LoopsIn(f) == f.in.unmap # <<>> /\ Looping(f.in, f.left) /\ RestsSome(f.out)
LoopsOut(f) == f.in.unmap = <<>> /\ RestsSome(f.in) /\ Looping(f.out, f.left)

IsFrame(f) ==
  f = [stage |-> f.stage, in |-> f.in, out |-> f.out, rows1 |-> f.rows1, rows2 |-> f.rows2,
       cols1 |-> f.cols1, cols2 |-> f.cols2, left |-> f.left]

FrameOK(f) ==
  /\ IsFrame(f)
  /\ f.stage \in {"entered", "tested", "reducing", "looping"}
  /\ f.stage \in {"entered", "tested"} => RestsSome(f.in) /\ RestsSome(f.out)
  /\ f.stage = "tested" => Counts(f)
  /\ f.stage = "reducing" => (\E g : Working(f.in, g)) /\ (\E g : Working(f.out, g))
  /\ f.stage = "looping" => LoopsIn(f) \/ LoopsOut(f)

FramesOK(fs) == (\E S : fs \in Seq(S)) /\ \A k \in DOMAIN fs : FrameOK(fs[k])

OntoItself(map) == IsInjective(map) /\ Range(map) = DOMAIN map

MapInv == FramesOK(frames) /\ \A m \in maps : OntoItself(m.input) /\ OntoItself(m.output)

LEMMA OnTop ==
  ASSUME NEW fs, FramesOK(fs), NEW f, FrameOK(f)
  PROVE  FramesOK(Append(fs, f))
<1>1. PICK S : fs \in Seq(S)
  BY DEF FramesOK
<1>2. fs \in Seq(S \cup {f}) /\ f \in S \cup {f}
  BY <1>1
<1>3. /\ Append(fs, f) \in Seq(S \cup {f})
      /\ \A k \in DOMAIN Append(fs, f) :
           (k \in DOMAIN fs /\ Append(fs, f)[k] = fs[k]) \/ Append(fs, f)[k] = f
  BY <1>2
<1>4. \A k \in DOMAIN Append(fs, f) : FrameOK(Append(fs, f)[k])
  BY <1>3 DEF FramesOK
<1>5. \E X : Append(fs, f) \in Seq(X)
  BY <1>3
<1>6. QED
  BY <1>4, <1>5 DEF FramesOK

LEMMA Below ==
  ASSUME NEW fs, FramesOK(fs), fs # <<>>
  PROVE  FramesOK(SubSeq(fs, 1, Len(fs) - 1)) /\ FrameOK(fs[Len(fs)])
<1>1. PICK S : fs \in Seq(S)
  BY DEF FramesOK
<1> DEFINE r == SubSeq(fs, 1, Len(fs) - 1)
<1>2. /\ r \in Seq(S) /\ Len(fs) \in DOMAIN fs
      /\ \A k \in DOMAIN r : k \in DOMAIN fs /\ r[k] = fs[k]
  BY <1>1
<1>3. \A k \in DOMAIN r : FrameOK(r[k])
  BY <1>2 DEF FramesOK
<1>4. \E X : r \in Seq(X)
  BY <1>2
<1> HIDE DEF r
<1>5. FramesOK(r)
  BY <1>3, <1>4 DEF FramesOK
<1>6. FrameOK(fs[Len(fs)])
  BY <1>2 DEF FramesOK
<1>7. QED
  BY <1>5, <1>6 DEF r

LEMMA WholeRests ==
  ASSUME NEW n \in Nat
  PROVE  RestsSome(Whole(n))
<1> DEFINE s == Whole(n)
           p == PartMap(Bits(n), Bits(n))
<1>1. p \in Parts(n) /\ p.first = Bits(n) /\ p.second = Bits(n)
  BY DEF PartMap, Parts
<1>2. /\ s.size = n /\ s.unmap = <<p>> /\ s.map = <<>> /\ s.mvar = <<>>
      /\ s = [size |-> s.size, unmap |-> s.unmap, map |-> s.map, mvar |-> s.mvar, at |-> s.at]
  BY DEF Whole, Side
<1> HIDE DEF s, p
<1>3. DOMAIN s.map = {} /\ Range(s.map) = {}
  <2>1. DOMAIN s.map = {}
    BY <1>2
  <2>2. QED
    BY <2>1 DEF Range
<1>4. <<p>> \in Seq(Parts(n)) /\ Len(<<p>>) = 1 /\ <<p>>[1] = p
  BY <1>1
<1>5. IsSide(s)
  BY <1>2, <1>3, <1>4 DEF IsSide, IsInjective
<1>6. Divided(s, 1)
  <2>1. 1 \in 1 .. 1 /\ \A i \in 1 .. 1 : i = 1
    OBVIOUS
  <2>2. s.unmap[1].first = Bits(n) /\ s.unmap[1].second = Bits(n)
    BY <1>1, <1>2, <1>4
  <2>3. QED
    BY <1>2, <1>3, <2>1, <2>2 DEF Divided
<1>7. Paired(s, 1)
  <2>1. 1 + 1 .. Len(s.unmap) = {}
    BY <1>2, <1>4
  <2>2. QED
    BY <2>1 DEF Paired
<1>8. Rests(s, 1)
  BY <1>2, <1>4, <1>5, <1>6, <1>7 DEF Rests
<1>9. QED
  BY <1>8 DEF RestsSome, s

(* Updates of a call.                                                      *)
LEMMA FrameShape ==
  ASSUME NEW T, IsFrame(T)
  PROVE  T \in [stage : {T.stage}, in : {T.in}, out : {T.out}, rows1 : {T.rows1}, rows2 : {T.rows2},
                cols1 : {T.cols1}, cols2 : {T.cols2}, left : {T.left}]
BY DEF IsFrame

LEMMA FrameIs ==
  ASSUME NEW in, NEW out
  PROVE  IsFrame(Frame(in, out)) /\ Frame(in, out).in = in /\ Frame(in, out).out = out
BY DEF Frame, IsFrame

LEMMA EnteredOK ==
  ASSUME NEW in, NEW out, RestsSome(in), RestsSome(out)
  PROVE  FrameOK(Frame(in, out))
<1>1. /\ Frame(in, out).stage = "entered" /\ Frame(in, out).in = in /\ Frame(in, out).out = out
      /\ IsFrame(Frame(in, out))
  BY DEF Frame, IsFrame
<1>2. QED
  BY <1>1 DEF FrameOK

LEMMA RestsTyped ==
  ASSUME NEW s, RestsSome(s)
  PROVE  s.size \in Nat
BY DEF RestsSome, Rests, IsSide

-----------------------------------------------------------------------------
(* The steps.                                                              *)
LEMMA CallMapKeeps ==
  ASSUME MapInv, NEW n \in Sizes, NEW w \in Sizes, CallMap(n, w)
  PROVE  MapInv'
<1>1. n \in Nat /\ w \in Nat
  BY SizesAssumption
<1>2. FrameOK(Frame(Whole(n), Whole(w)))
  BY <1>1, WholeRests, EnteredOK
<1>3. FramesOK(<<>>)
  <2>1. <<>> \in Seq({}) /\ DOMAIN <<>> = {}
    OBVIOUS
  <2>2. QED
    BY <2>1 DEF FramesOK
<1>4. frames' = Append(<<>>, Frame(Whole(n), Whole(w))) /\ maps' = {}
  BY DEF CallMap
<1>5. FramesOK(frames')
  BY <1>2, <1>3, <1>4, OnTop
<1>6. QED
  BY <1>4, <1>5 DEF MapInv

LEMMA TopOK ==
  ASSUME MapInv, NEW stage, AtStage(stage)
  PROVE  FramesOK(Return) /\ FrameOK(Top) /\ Top.stage = stage
BY Below DEF MapInv, AtStage, Return, Top

LEMMA ReplaceKeeps ==
  ASSUME MapInv, NEW stage, AtStage(stage), NEW f, FrameOK(f), frames' = Replace(f), maps' = maps
  PROVE  MapInv'
<1>1. FramesOK(Append(Return, f))
  BY TopOK, OnTop
<1>2. QED
  BY <1>1 DEF Replace, MapInv

LEMMA ReturnKeeps ==
  ASSUME MapInv, NEW stage, AtStage(stage), frames' = Return, maps' = maps
  PROVE  MapInv'
BY TopOK DEF MapInv

LEMMA TestedKeeps ==
  ASSUME MapInv, Tested
  PROVE  MapInv'
<1>1. PICK h :
        /\ h.rows1 \in [Bits(Top.in.size) -> Nat] /\ h.rows2 \in [Bits(Top.in.size) -> Nat]
        /\ h.cols1 \in [Bits(Top.out.size) -> Nat] /\ h.cols2 \in [Bits(Top.out.size) -> Nat]
        /\ Test(h.rows1, h.rows2, h.cols1, h.cols2)
  BY DEF Tested
<1> DEFINE T == Top
           f == [T EXCEPT !.stage = "tested", !.rows1 = h.rows1, !.rows2 = h.rows2,
                          !.cols1 = h.cols1, !.cols2 = h.cols2]
<1>2. AtStage("entered") /\ frames' = Replace(f) /\ maps' = maps
  BY <1>1 DEF Test
<1>3. FrameOK(T) /\ T.stage = "entered"
  BY <1>2, TopOK
<1>b. /\ h.rows1 \in [Bits(T.in.size) -> Nat] /\ h.rows2 \in [Bits(T.in.size) -> Nat]
      /\ h.cols1 \in [Bits(T.out.size) -> Nat] /\ h.cols2 \in [Bits(T.out.size) -> Nat]
  BY <1>1
<1> HIDE DEF T
<1>4. RestsSome(T.in) /\ RestsSome(T.out) /\ IsFrame(T)
  BY <1>3 DEF FrameOK
<1>5. /\ IsFrame(f) /\ f.stage = "tested" /\ f.in = T.in /\ f.out = T.out
      /\ f.rows1 = h.rows1 /\ f.rows2 = h.rows2 /\ f.cols1 = h.cols1 /\ f.cols2 = h.cols2
  <2>1. f = [T EXCEPT !.stage = "tested", !.rows1 = h.rows1, !.rows2 = h.rows2,
                      !.cols1 = h.cols1, !.cols2 = h.cols2]
    OBVIOUS
  <2>2. T \in [stage : {T.stage}, in : {T.in}, out : {T.out}, rows1 : {T.rows1}, rows2 : {T.rows2},
               cols1 : {T.cols1}, cols2 : {T.cols2}, left : {T.left}]
    BY <1>4, FrameShape
  <2> HIDE DEF f
  <2>3. IsFrame(f)
    BY <2>1, <2>2 DEF IsFrame
  <2>4. QED
    BY <2>1, <2>2, <2>3
<1> HIDE DEF f
<1>6. FrameOK(f)
  BY <1>4, <1>5, <1>b DEF FrameOK, Counts
<1>7. QED
  BY <1>2, <1>6, ReplaceKeeps

LEMMA RefineKeeps ==
  ASSUME MapInv, Refine
  PROVE  MapInv'
<1> DEFINE T == Top
           in == StartReduce(T.in, UpdatedIn(T))
           out == StartReduce(T.out, UpdatedOut(T))
           e == Frame(in, out)
           f == [e EXCEPT !.stage = "reducing"]
<1>1. AtStage("tested") /\ Alike(T) /\ frames' = Replace(f) /\ maps' = maps
  BY DEF Refine
<1>2. FrameOK(T) /\ T.stage = "tested"
  BY <1>1, TopOK
<1> HIDE DEF T
<1>3. RestsSome(T.in) /\ RestsSome(T.out) /\ Counts(T)
  BY <1>2 DEF FrameOK
<1>4. CheckConsist(UpdatedIn(T)) /\ CheckConsist(UpdatedOut(T))
  BY <1>1 DEF Alike
<1>5. \E g : Working(in, g)
  <2>1. PICK k : Rests(T.in, k)
    BY <1>3 DEF RestsSome
  <2>2. T.rows1 \in [Bits(T.in.size) -> Nat] /\ T.rows2 \in [Bits(T.in.size) -> Nat]
    BY <1>3 DEF Counts
  <2>3. UpdatedIn(T) = UpdateUnmap(T.in.unmap, T.rows1, T.rows2, T.in.map)
    BY DEF UpdatedIn
  <2>4. QED
    BY <1>4, <2>1, <2>2, <2>3, StartWorks
<1>6. \E g : Working(out, g)
  <2>1. PICK k : Rests(T.out, k)
    BY <1>3 DEF RestsSome
  <2>2. T.cols1 \in [Bits(T.out.size) -> Nat] /\ T.cols2 \in [Bits(T.out.size) -> Nat]
    BY <1>3 DEF Counts
  <2>3. UpdatedOut(T) = UpdateUnmap(T.out.unmap, T.cols1, T.cols2, T.out.map)
    BY DEF UpdatedOut
  <2>4. QED
    BY <1>4, <2>1, <2>2, <2>3, StartWorks
<1> HIDE DEF in, out
<1>a. IsFrame(e) /\ e.in = in /\ e.out = out
  BY FrameIs
<1> HIDE DEF e
<1>7. IsFrame(f) /\ f.stage = "reducing" /\ f.in = in /\ f.out = out
  BY <1>a, FrameShape DEF IsFrame
<1> HIDE DEF f
<1>8. FrameOK(f)
  BY <1>5, <1>6, <1>7 DEF FrameOK
<1>9. QED
  BY <1>1, <1>8, ReplaceKeeps

(* One side is reduced at a time.                                          *)
LEMMA FrameTurned ==
  ASSUME NEW T, IsFrame(T), NEW s, NEW f
  PROVE  /\ f = [T EXCEPT !.in = s]
              => IsFrame(f) /\ f.stage = T.stage /\ f.in = s /\ f.out = T.out
         /\ f = [T EXCEPT !.out = s]
              => IsFrame(f) /\ f.stage = T.stage /\ f.in = T.in /\ f.out = s
BY FrameShape DEF IsFrame

LEMMA ReduceInKeeps ==
  ASSUME MapInv, ReduceIn
  PROVE  MapInv'
<1> DEFINE T == Top
           s == ReduceTurn(T.in)
           f == [T EXCEPT !.in = s]
<1>1. AtStage("reducing") /\ ~ Reduced(T.in) /\ frames' = Replace(f) /\ maps' = maps
  BY DEF ReduceIn
<1>2. FrameOK(T) /\ T.stage = "reducing"
  BY <1>1, TopOK
<1>3. f = [T EXCEPT !.in = s]
  OBVIOUS
<1> HIDE DEF T
<1>4. IsFrame(T) /\ (\E g : Working(T.in, g)) /\ (\E g : Working(T.out, g))
  BY <1>2 DEF FrameOK
<1>5. \E g : Working(s, g)
  BY <1>1, <1>4, TurnWorks
<1> HIDE DEF s, f
<1>6. IsFrame(f) /\ f.stage = "reducing" /\ f.in = s /\ f.out = T.out
  BY <1>2, <1>3, <1>4, FrameTurned
<1>7. FrameOK(f)
  BY <1>4, <1>5, <1>6 DEF FrameOK
<1>8. QED
  BY <1>1, <1>7, ReplaceKeeps

LEMMA ReduceOutKeeps ==
  ASSUME MapInv, ReduceOut
  PROVE  MapInv'
<1> DEFINE T == Top
           s == ReduceTurn(T.out)
           f == [T EXCEPT !.out = s]
<1>1. AtStage("reducing") /\ ~ Reduced(T.out) /\ frames' = Replace(f) /\ maps' = maps
  BY DEF ReduceOut
<1>2. FrameOK(T) /\ T.stage = "reducing"
  BY <1>1, TopOK
<1>3. f = [T EXCEPT !.out = s]
  OBVIOUS
<1> HIDE DEF T
<1>4. IsFrame(T) /\ (\E g : Working(T.in, g)) /\ (\E g : Working(T.out, g))
  BY <1>2 DEF FrameOK
<1>5. \E g : Working(s, g)
  BY <1>1, <1>4, TurnWorks
<1> HIDE DEF s, f
<1>6. IsFrame(f) /\ f.stage = "reducing" /\ f.in = T.in /\ f.out = s
  BY <1>2, <1>3, <1>4, FrameTurned
<1>7. FrameOK(f)
  BY <1>4, <1>5, <1>6 DEF FrameOK
<1>8. QED
  BY <1>1, <1>7, ReplaceKeeps

(* A side with nothing left to map has mapped all its bits.                *)
LEMMA NothingLeft ==
  ASSUME NEW s, s.unmap = <<>>, Rests(s, Len(s.unmap))
  PROVE  OntoItself(s.map)
<1>1. Len(s.unmap) = 0 /\ 1 .. 0 = {}
  OBVIOUS
<1>2. DOMAIN s.map = Bits(s.size) /\ Range(s.map) = Bits(s.size)
  BY <1>1 DEF Rests, IsSide, Divided
<1>3. QED
  BY <1>2 DEF OntoItself, Rests, IsSide

LEMMA EndReduceKeeps ==
  ASSUME MapInv, EndReduce
  PROVE  MapInv'
<1> DEFINE T == Top
           in == Extend(T.in)
           out == Extend(T.out)
           e == Frame(in, out)
           f == [e EXCEPT !.stage = "looping", !.left = Divides(e)[1].second]
<1>1. /\ AtStage("reducing") /\ Reduced(T.in) /\ Reduced(T.out)
      /\ \/ Complete(e) /\ frames' = Return /\ maps' = maps \cup {FullMap(e.in.map, e.out.map)}
         \/ ~ Complete(e) /\ frames' = Replace(f) /\ maps' = maps
  BY DEF EndReduce
<1>2. FrameOK(T) /\ T.stage = "reducing"
  BY <1>1, TopOK
<1>4. e.in = in /\ e.out = out /\ IsFrame(e)
  BY FrameIs
<1> HIDE DEF T, e
<1>3. /\ IsFrame(f) /\ f.stage = "looping" /\ f.in = in /\ f.out = out
      /\ f.left = Divides(e)[1].second
  <2> DEFINE left == Divides(e)[1].second
  <2>1. f = [e EXCEPT !.stage = "looping", !.left = left]
    OBVIOUS
  <2>2. e \in [stage : {e.stage}, in : {e.in}, out : {e.out}, rows1 : {e.rows1}, rows2 : {e.rows2},
               cols1 : {e.cols1}, cols2 : {e.cols2}, left : {e.left}]
    BY <1>4, FrameShape
  <2> HIDE DEF f, left
  <2>3. IsFrame(f)
    BY <2>1, <2>2 DEF IsFrame
  <2>4. f.stage = "looping" /\ f.in = in /\ f.out = out /\ f.left = left
    BY <1>4, <2>1, <2>2
  <2>5. QED
    BY <2>3, <2>4 DEF left
<1> HIDE DEF f
<1>5. (\E g : Working(T.in, g)) /\ (\E g : Working(T.out, g))
  BY <1>2 DEF FrameOK
<1>6. /\ Rests(in, Len(in.unmap)) /\ Rests(out, Len(out.unmap))
      /\ \A i \in 1 .. Len(in.unmap) : in.unmap[i].first # {}
      /\ \A i \in 1 .. Len(out.unmap) : out.unmap[i].first # {}
  BY <1>1, <1>5, ExtendRests
<1> HIDE DEF in, out
<1>7. RestsSome(in) /\ RestsSome(out)
  <2>1. Len(in.unmap) \in Nat /\ Len(out.unmap) \in Nat
    BY <1>6 DEF Rests, IsSide
  <2>2. QED
    BY <1>6, <2>1 DEF RestsSome
<1>8. CASE Complete(e)
  <2>1. in.unmap = <<>> /\ out.unmap = <<>>
    BY <1>4, <1>8 DEF Complete
  <2>2. OntoItself(in.map) /\ OntoItself(out.map)
    BY <1>6, <2>1, NothingLeft
  <2>3. frames' = Return /\ maps' = maps \cup {FullMap(in.map, out.map)}
    BY <1>1, <1>4, <1>8
  <2>4. FramesOK(frames')
    BY <1>1, <2>3, TopOK
  <2>5. /\ FullMap(in.map, out.map).input = in.map
        /\ FullMap(in.map, out.map).output = out.map
    BY DEF FullMap
  <2>6. QED
    BY <2>2, <2>3, <2>4, <2>5 DEF MapInv
<1>9. CASE ~ Complete(e)
  <2>1. frames' = Replace(f) /\ maps' = maps
    BY <1>1, <1>9
  <2>2. /\ IsFrame(f) /\ f.stage = "looping" /\ f.in = in /\ f.out = out
        /\ f.left = Divides(e)[1].second
    BY <1>3
  <2>3. CASE in.unmap # <<>>
    <3>1. f.left = in.unmap[1].second
      BY <1>4, <2>2, <2>3 DEF Divides
    <3>2. LoopsIn(f)
      BY <1>6, <1>7, <2>2, <2>3, <3>1, LoopStarts DEF LoopsIn
    <3>3. FrameOK(f)
      BY <2>2, <3>2 DEF FrameOK
    <3>4. QED
      BY <1>1, <2>1, <3>3, ReplaceKeeps
  <2>4. CASE in.unmap = <<>>
    <3>1. f.left = out.unmap[1].second /\ out.unmap # <<>>
      BY <1>4, <1>9, <2>2, <2>4 DEF Divides, Complete
    <3>2. LoopsOut(f)
      BY <1>6, <1>7, <2>2, <2>4, <3>1, LoopStarts DEF LoopsOut
    <3>3. FrameOK(f)
      BY <2>2, <3>2 DEF FrameOK
    <3>4. QED
      BY <1>1, <2>1, <3>3, ReplaceKeeps
  <2>5. QED
    BY <2>3, <2>4
<1>10. QED
  BY <1>8, <1>9

LEMMA LoopingLeft ==
  ASSUME NEW s, NEW left, Looping(s, left)
  PROVE  left \in SUBSET Nat
<1>1. PICK k \in Nat \ {0} : Rests(s, k) /\ left \subseteq s.unmap[1].second
  BY DEF Looping
<1>2. s.size \in Nat /\ s.unmap \in Seq(Parts(s.size)) /\ 1 \in 1 .. Len(s.unmap)
  BY <1>1 DEF Rests, IsSide
<1>3. s.unmap[1] \in Parts(s.size)
  BY <1>2
<1>4. QED
  BY <1>1, <1>2, <1>3, BitsFinite DEF Parts

LEMMA PairKeeps ==
  ASSUME MapInv, Pair
  PROVE  MapInv'
<1> DEFINE T == Top
           b == SomeOf(T.left)
           f == Pushed(T, b)
           pair == PartMap({SomeOf(Divides(T)[1].first)}, {b})
           e == Frame(f.in, f.out)
<1>1. /\ AtStage("looping") /\ T.left # {} /\ maps' = maps
      /\ frames' = Append(Append(Return, f), e)
  BY DEF Pair, Replace
<1>2. FrameOK(T) /\ T.stage = "looping" /\ FramesOK(Return)
  BY <1>1, TopOK
<1>3. /\ T.in.unmap # <<>>
           => f = [T EXCEPT !.left = @ \ {b}, !.in.unmap = Append(@, pair)]
      /\ T.in.unmap = <<>>
           => f = [T EXCEPT !.left = @ \ {b}, !.out.unmap = Append(@, pair)]
  BY DEF Pushed
<1> HIDE DEF T, f
<1>4. T \in [stage : {T.stage}, in : {T.in}, out : {T.out}, rows1 : {T.rows1}, rows2 : {T.rows2},
             cols1 : {T.cols1}, cols2 : {T.cols2}, left : {T.left}]
  BY <1>2, FrameShape DEF FrameOK
<1>5. LoopsIn(T) \/ LoopsOut(T)
  BY <1>2 DEF FrameOK
<1>6. b \in T.left
  <2>1. T.left \in SUBSET Nat
    BY <1>5, LoopingLeft DEF LoopsIn, LoopsOut
  <2>2. QED
    BY <1>1, <2>1, SomeOfIs
<1>7. /\ FrameOK(f) /\ RestsSome(f.in) /\ RestsSome(f.out)
  <2>1. CASE LoopsIn(T)
    <3>1. T.in.unmap # <<>> /\ Looping(T.in, T.left) /\ RestsSome(T.out)
      BY <2>1 DEF LoopsIn
    <3>2. pair = PartMap({SomeOf(T.in.unmap[1].first)}, {b})
      BY <3>1 DEF Divides
    <3> HIDE DEF b, pair
    <3>3. f = [T EXCEPT !.left = @ \ {b}, !.in.unmap = Append(@, pair)]
      BY <1>3, <3>1
    <3> DEFINE s == [T.in EXCEPT !.unmap = Append(T.in.unmap, pair)]
    <3>4. /\ IsFrame(f) /\ f.stage = "looping" /\ f.in = s
          /\ f.out = T.out /\ f.left = T.left \ {b}
      <4>1. IsFrame(f)
        BY <1>4, <3>3 DEF IsFrame
      <4>2. QED
        BY <1>2, <1>4, <3>3, <4>1
    <3>5. s = [T.in EXCEPT !.unmap = Append(T.in.unmap, PartMap({SomeOf(T.in.unmap[1].first)}, {b}))]
      BY <3>2
    <3> HIDE DEF s
    <3>6. Looping(s, T.left \ {b})
      BY <1>6, <3>1, <3>5, PairLoops
    <3>7. RestsSome(s) /\ s.unmap # <<>>
      <4>1. PICK k \in Nat \ {0} : Rests(s, k)
        BY <3>6 DEF Looping
      <4>2. Len(s.unmap) # 0 /\ s.unmap \in Seq(Parts(s.size))
        BY <4>1 DEF Rests, IsSide
      <4>3. QED
        BY <3>6, <4>2, LoopingRests
    <3>8. LoopsIn(f)
      BY <3>1, <3>4, <3>6, <3>7 DEF LoopsIn
    <3>9. QED
      BY <3>1, <3>4, <3>7, <3>8 DEF FrameOK
  <2>2. CASE LoopsOut(T)
    <3>1. T.in.unmap = <<>> /\ Looping(T.out, T.left) /\ RestsSome(T.in)
      BY <2>2 DEF LoopsOut
    <3>2. pair = PartMap({SomeOf(T.out.unmap[1].first)}, {b})
      BY <3>1 DEF Divides
    <3> HIDE DEF b, pair
    <3>3. f = [T EXCEPT !.left = @ \ {b}, !.out.unmap = Append(@, pair)]
      BY <1>3, <3>1
    <3> DEFINE s == [T.out EXCEPT !.unmap = Append(T.out.unmap, pair)]
    <3>4. /\ IsFrame(f) /\ f.stage = "looping" /\ f.out = s
          /\ f.in = T.in /\ f.left = T.left \ {b}
      <4>1. IsFrame(f)
        BY <1>4, <3>3 DEF IsFrame
      <4>2. QED
        BY <1>2, <1>4, <3>3, <4>1
    <3>5. s = [T.out EXCEPT !.unmap = Append(T.out.unmap, PartMap({SomeOf(T.out.unmap[1].first)}, {b}))]
      BY <3>2
    <3> HIDE DEF s
    <3>6. Looping(s, T.left \ {b})
      BY <1>6, <3>1, <3>5, PairLoops
    <3>7. RestsSome(s)
      BY <3>6, LoopingRests
    <3>8. LoopsOut(f)
      BY <3>1, <3>4, <3>6 DEF LoopsOut
    <3>9. QED
      BY <3>1, <3>4, <3>7, <3>8 DEF FrameOK
  <2>3. QED
    BY <1>5, <2>1, <2>2
<1>8. FrameOK(e)
  BY <1>7, EnteredOK
<1> HIDE DEF e
<1>9. FramesOK(Append(Append(Return, f), e))
  BY <1>2, <1>7, <1>8, OnTop
<1>10. QED
  BY <1>1, <1>9 DEF MapInv

(* Every reachable state has the invariant.                                *)
LEMMA MapInvHolds == MapSpec => []MapInv
<1>1. MapInit => MapInv
  <2>1. <<>> \in Seq({}) /\ DOMAIN <<>> = {}
    OBVIOUS
  <2>2. QED
    BY <2>1 DEF MapInit, MapInv, FramesOK
<1>2. MapInv /\ [MapNext]_mapVars => MapInv'
  <2> SUFFICES ASSUME MapInv, [MapNext]_mapVars PROVE MapInv'
    OBVIOUS
  <2>1. CASE \E n, w \in Sizes : CallMap(n, w)
    BY <2>1, CallMapKeeps
  <2>2. CASE ForgetMaps
    BY <2>2 DEF ForgetMaps, MapInv
  <2>3. CASE Tested
    BY <2>3, TestedKeeps
  <2>4. CASE Differ
    BY <2>4, ReturnKeeps DEF Differ
  <2>5. CASE Refine
    BY <2>5, RefineKeeps
  <2>6. CASE ReduceIn
    BY <2>6, ReduceInKeeps
  <2>7. CASE ReduceOut
    BY <2>7, ReduceOutKeeps
  <2>8. CASE EndReduce
    BY <2>8, EndReduceKeeps
  <2>9. CASE Pair
    BY <2>9, PairKeeps
  <2>10. CASE Leave
    BY <2>10, ReturnKeeps DEF Leave
  <2>11. CASE UNCHANGED mapVars
    BY <2>11 DEF mapVars, MapInv
  <2>12. QED
    BY <2>1, <2>2, <2>3, <2>4, <2>5, <2>6, <2>7, <2>8, <2>9, <2>10, <2>11 DEF MapNext, MapTurn
<1>3. QED
  BY <1>1, <1>2, PTL DEF MapSpec

-----------------------------------------------------------------------------
(* What the properties say of a side.                                      *)
LEMMA RestsSound ==
  ASSUME NEW s, RestsSome(s)
  PROVE  /\ IsInjective(Merged(s.mvar, s.map))
         /\ Bits(s.size) = DOMAIN s.map \cup DOMAIN s.mvar
                             \cup UNION { s.unmap[i].first : i \in DOMAIN s.unmap }
         /\ Bits(s.size) = Range(s.map) \cup Range(s.mvar)
                             \cup UNION { s.unmap[i].second : i \in DOMAIN s.unmap }
<1>1. PICK k : Rests(s, k)
  BY DEF RestsSome
<1> DEFINE n == s.size
           m == s.unmap
<1>2. /\ n \in Nat /\ m \in Seq(Parts(n)) /\ s.mvar = <<>> /\ IsInjective(s.map)
      /\ DOMAIN s.map \subseteq Bits(n) /\ Range(s.map) \subseteq Bits(n)
      /\ k \in 0 .. Len(m) /\ Divided(s, k)
  BY <1>1 DEF Rests, IsSide
<1>3. /\ \A x \in Bits(n) \ DOMAIN s.map : \E i \in 1 .. k : x \in m[i].first
      /\ \A y \in Bits(n) \ Range(s.map) : \E i \in 1 .. k : y \in m[i].second
  BY <1>2 DEF Divided
<1> HIDE DEF n, m
<1>4. \A i \in 1 .. k : i \in DOMAIN m
  BY <1>2
<1>5. \A i \in DOMAIN m : m[i].first \in SUBSET Bits(n) /\ m[i].second \in SUBSET Bits(n)
  <2>1. \A i \in DOMAIN m : m[i] \in Parts(n)
    BY <1>2
  <2>2. QED
    BY <2>1 DEF Parts
<1>6. DOMAIN s.mvar = {} /\ Range(s.mvar) = {}
  <2>1. DOMAIN s.mvar = {}
    BY <1>2
  <2>2. QED
    BY <2>1 DEF Range
<1>7. Bits(n) = DOMAIN s.map \cup DOMAIN s.mvar \cup UNION { m[i].first : i \in DOMAIN m }
  BY <1>2, <1>3, <1>4, <1>5, <1>6
<1>8. Bits(n) = Range(s.map) \cup Range(s.mvar) \cup UNION { m[i].second : i \in DOMAIN m }
  BY <1>2, <1>3, <1>4, <1>5, <1>6
<1>9. IsInjective(Merged(s.mvar, s.map))
  BY <1>2, <1>6 DEF Merged, IsInjective
<1>10. QED
  BY <1>7, <1>8, <1>9 DEF n, m

LEMMA WorkingSound ==
  ASSUME NEW s, \E g : Working(s, g)
  PROVE  /\ IsInjective(Merged(s.mvar, s.map))
         /\ \A i \in DOMAIN s.unmap : Balanced(s.unmap[i])
         /\ Bits(s.size) = DOMAIN s.map \cup DOMAIN s.mvar
                             \cup UNION { s.unmap[i].first : i \in DOMAIN s.unmap }
         /\ Bits(s.size) = Range(s.map) \cup Range(s.mvar)
                             \cup UNION { s.unmap[i].second : i \in DOMAIN s.unmap }
<1>1. PICK g : Working(s, g)
  OBVIOUS
<1> DEFINE n == s.size
           m == s.unmap
<1>2. /\ n \in Nat /\ m \in Seq(Parts(n)) /\ Bijects(g, n) /\ Listed(g, n, Done(s), m)
      /\ Follows(g, s.map) /\ Follows(g, s.mvar)
  BY <1>1 DEF Working, IsSide
<1> HIDE DEF n, m
<1>3. /\ \A x \in Bits(n) : g[x] \in Bits(n)
      /\ \A x, y \in Bits(n) : g[x] = g[y] => x = y
      /\ \A y \in Bits(n) : \E x \in Bits(n) : g[x] = y
      /\ DOMAIN g = Bits(n)
  BY <1>2 DEF Bijects, IsInjective, Range
<1>4. \A i \in DOMAIN m : /\ m[i].first \in SUBSET Bits(n) /\ m[i].second \in SUBSET Bits(n)
                          /\ m[i].second = Image(g, m[i].first)
  <2>1. \A i \in DOMAIN m : m[i] \in Parts(n)
    BY <1>2
  <2>2. QED
    BY <1>2, <2>1 DEF Parts, Listed, Fits
<1>5. /\ DOMAIN s.map \subseteq Bits(n) /\ \A x \in DOMAIN s.map : s.map[x] = g[x]
      /\ DOMAIN s.mvar \subseteq Bits(n) /\ \A x \in DOMAIN s.mvar : s.mvar[x] = g[x]
  BY <1>2, <1>3 DEF Follows
<1>6. IsInjective(Merged(s.mvar, s.map))
  BY <1>3, <1>5 DEF Merged, IsInjective
<1>7. ASSUME NEW i \in DOMAIN m PROVE Balanced(m[i])
  <2> DEFINE S == m[i].first
             f == [x \in S |-> g[x]]
  <2>1. IsFiniteSet(S) /\ IsFiniteSet(m[i].second)
    BY <1>2, <1>4, BitsFinite
  <2>2. \A x, y \in S : g[x] = g[y] => x = y
    BY <1>3, <1>4
  <2>3. f \in Bijection(S, m[i].second)
    <3>1. f \in Injection(S, m[i].second)
      BY <1>4, <2>2 DEF Injection, IsInjective, Image
    <3>2. f \in Surjection(S, m[i].second)
      BY <1>4 DEF Surjection, Range, Image
    <3>3. QED
      BY <3>1, <3>2 DEF Bijection
  <2> HIDE DEF f, S
  <2>4. Cardinality(S) = Cardinality(m[i].second)
    BY <2>1, <2>3, FS_Bijection DEF ExistsBijection
  <2>5. QED
    BY <2>4 DEF Balanced, S
<1>8. \A x \in Bits(n) \ (DOMAIN s.map \cup DOMAIN s.mvar) : \E i \in DOMAIN m : x \in m[i].first
  BY <1>2 DEF Listed, Done
<1>9. Bits(n) = DOMAIN s.map \cup DOMAIN s.mvar \cup UNION { m[i].first : i \in DOMAIN m }
  BY <1>4, <1>5, <1>8
<1>10. Bits(n) = Range(s.map) \cup Range(s.mvar) \cup UNION { m[i].second : i \in DOMAIN m }
  <2>1. ASSUME NEW y \in Bits(n)
        PROVE  y \in Range(s.map) \cup Range(s.mvar) \cup UNION { m[i].second : i \in DOMAIN m }
    <3>1. PICK x \in Bits(n) : g[x] = y
      BY <1>3
    <3>2. CASE x \in DOMAIN s.map \cup DOMAIN s.mvar
      BY <1>5, <3>1, <3>2 DEF Range
    <3>3. CASE x \notin DOMAIN s.map \cup DOMAIN s.mvar
      <4>1. PICK i \in DOMAIN m : x \in m[i].first
        BY <1>8, <3>3
      <4>2. y \in m[i].second
        BY <1>4, <3>1, <4>1 DEF Image
      <4>3. QED
        BY <4>2
    <3>4. QED
      BY <3>2, <3>3
  <2>2. Range(s.map) \subseteq Bits(n) /\ Range(s.mvar) \subseteq Bits(n)
    BY <1>3, <1>5 DEF Range
  <2>3. QED
    BY <1>4, <2>1, <2>2
<1>11. QED
  BY <1>6, <1>7, <1>9, <1>10 DEF n, m

LEMMA FrameSides ==
  ASSUME NEW f, FrameOK(f), NEW s \in SidesOf(f)
  PROVE  /\ RestsSome(s) \/ \E g : Working(s, g)
         /\ f.stage = "reducing" => \E g : Working(s, g)
BY LoopingRests DEF FrameOK, SidesOf, LoopsIn, LoopsOut

(* Bits are never mapped twice, whatever the tests count.                  *)
LEMMA MappingsAreInjective == MapSpec => []MapsInjective
<1>1. MapInv => MapsInjective
  BY FrameSides, RestsSound, WorkingSound DEF MapInv, FramesOK, MapsInjective, OntoItself
<1>2. QED
  BY <1>1, MapInvHolds, PTL

(* reduce may take the first bits of both sides without looking.           *)
LEMMA SizesStayAlike == MapSpec => []SizesAgree
<1>1. MapInv => SizesAgree
  BY FrameSides, WorkingSound DEF MapInv, FramesOK, SizesAgree
<1>2. QED
  BY <1>1, MapInvHolds, PTL

(* No bit of either side is lost, and complete mappings are complete.      *)
LEMMA BitsAreKept == MapSpec => []NoBitLost
<1>1. MapInv => NoBitLost
  BY FrameSides, RestsSound, WorkingSound DEF MapInv, FramesOK, NoBitLost, OntoItself
<1>2. QED
  BY <1>1, MapInvHolds, PTL

(* However many bits the formulas have and whatever their tests count, no  *)
(* bit is mapped twice or lost by bitVarmap, in no call and in no result,  *)
(* and both sides of every PartMap stay alike in size.                     *)
THEOREM MappingsAreExact == MapSpec => []MappingsExact
BY MappingsAreInjective, SizesStayAlike, BitsAreKept, PTL DEF MappingsExact
=============================================================================
