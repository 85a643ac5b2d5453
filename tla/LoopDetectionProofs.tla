------------------------- MODULE LoopDetectionProofs -------------------------
(***************************************************************************)
(* The loop detector's safety for every set of traces, every window of     *)
(* loop lengths and both of its candidate finders, whatever lies around    *)
(* the vector: what it confirms before its pass jumps over cend() really   *)
(* repeats, what it confirms after that lies behind the vector, and what   *)
(* it writes is what LoopReport promises.                                  *)
(*                                                                         *)
(* ConfirmedRepeat is not inductive: a body is confirmed because its       *)
(* candidate has been compared instruction by instruction, so the          *)
(* invariant must say what every live candidate has already passed         *)
(* (CandidatesAligned), and that candidates and the current body keep the  *)
(* shape the finder gave them, stale or not (Shape).  That a jump leaves   *)
(* nothing of the vector among the candidates that will be advanced, and   *)
(* that no two confirmed bodies are alike (Distinct), is what the report   *)
(* needs besides.                                                          *)
(***************************************************************************)
EXTENDS LoopDetection, WellFoundedInduction, TLAPS

InWindow(l) == MinLoop <= Size(l) /\ Size(l) <= MaxHistory

Shape ==
  /\ current # NoLoop => current \in confirmed
  /\ \A l \in confirmed : InWindow(l)
  /\ \A c \in candidates : InWindow(c)

Distinct ==
  ~ Astray => \A l, m \in confirmed : m # l => ~ Report!Alike(m, l)

WrittenOnce == pass = "running" => reports = {}

IInv ==
  TypeOK /\ Shape /\ CandidatesAligned /\ ConfirmedRepeat /\ Distinct /\ WrittenOnce

(* A nonempty set of naturals has a greatest element when it is bounded.   *)
LEMMA GreatestExists ==
  ASSUME NEW S \in SUBSET Nat, S # {}, NEW b \in Nat, \A i \in S : i <= b
  PROVE  \E i \in S : \A j \in S : j <= i
<1> DEFINE R == { ss \in Nat \X Nat : ss[1] < ss[2] }
           T == { b - i : i \in S }
<1>1. IsWellFoundedOn(R, Nat)
  BY NatLessThanWellFounded, Zenon DEF OpToRel
<1>2. T \subseteq Nat /\ T # {}
  <2>1. \A i \in S : i \in Nat /\ b - i \in Nat
    OBVIOUS
  <2>2. QED
    BY <2>1, Zenon
<1>3. PICK t \in T : \A u \in T : ~ (<<u, t>> \in R)
  <2> HIDE DEF R, T
  <2> QED
    BY <1>1, <1>2, WFMin
<1>4. PICK i \in S : t = b - i
  BY <1>3
<1>5. ASSUME NEW j \in S PROVE j <= i
  <2>1. b - j \in T /\ b - j \in Nat /\ t \in Nat
    BY <1>2, <1>3
  <2>2. ~ (<<b - j, t>> \in R)
    BY <1>3, <2>1
  <2>3. ~ (b - j < t)
    BY <2>1, <2>2
  <2>4. QED
    BY <1>4, <2>1, <2>3
<1>6. QED
  BY <1>4, <1>5

-----------------------------------------------------------------------------
(* Inside the vector the code reads the trace.                             *)
LEMMA AtInside ==
  ASSUME NEW i \in 1 .. N, NEW around
  PROVE  At(i, around) = trace[i]
BY DEF At

(* What a turn of the loop starts from: whatever the check of the current  *)
(* body decided, the live candidates are aligned with the pass.            *)
LEMMA LiveAligned ==
  ASSUME IInv
  PROVE  \A c \in LiveCandidates : c \in Candidate /\ Aligned(c) /\ InWindow(c)
BY DEF IInv, TypeOK, Shape, CandidatesAligned, LiveCandidates

(* A candidate that survives the advance and the opcode comparison has     *)
(* matched everything up to the instruction the pass is at.                *)
Passed(c) ==
  /\ c.begin <= c.cur /\ c.cur < c.end
  /\ it = c.end + (c.cur - c.begin)
  /\ Astray => c.end > N + 1
  /\ ~ Astray =>
       /\ 1 <= c.begin
       /\ \A k \in 0 .. c.cur - c.begin :
            trace[c.begin + k].op = trace[c.end + k].op

LEMMA MatchingPassed ==
  ASSUME IInv, it # N + 1, NEW around, NEW c \in Matching(LiveCandidates, around)
  PROVE  c \in Candidate /\ InWindow(c) /\ Passed(c)
<1>1. PICK x \in LiveCandidates : c = [x EXCEPT !.cur = @ + 1]
  BY DEF Matching, Advanced
<1>2. x \in Candidate /\ Aligned(x) /\ InWindow(x)
  BY LiveAligned
<1>3. /\ c \in Candidate /\ c.begin = x.begin /\ c.end = x.end
      /\ c.cur = x.cur + 1
  BY <1>1, <1>2 DEF Candidate
<1>4. InWindow(c)
  BY <1>2, <1>3 DEF InWindow, Size
<1>5. c.begin <= c.cur /\ c.cur < c.end
  BY <1>2, <1>3 DEF Aligned, Candidate
<1>6. it = c.end + (c.cur - c.begin) /\ (Astray => c.end > N + 1)
  BY <1>2, <1>3 DEF Aligned, Candidate
<1>7. ASSUME ~ Astray
      PROVE  /\ 1 <= c.begin
             /\ \A k \in 0 .. c.cur - c.begin :
                  trace[c.begin + k].op = trace[c.end + k].op
  <2>1. 1 <= c.begin /\ it \in Nat /\ N \in Nat /\ it <= N
    BY <1>2, <1>3, <1>7 DEF Aligned, Astray, IInv, TypeOK, N
  <2>2. c.cur \in 1 .. N /\ it \in 1 .. N
    BY <1>3, <1>5, <1>6, <2>1 DEF Candidate
  <2>3. trace[c.cur].op = trace[it].op
    BY <2>2, AtInside DEF Matching
  <2>4. ASSUME NEW k \in 0 .. c.cur - c.begin
        PROVE  trace[c.begin + k].op = trace[c.end + k].op
    <3>1. CASE k = c.cur - c.begin
      <4>1. c.begin + k = c.cur /\ c.end + k = it
        BY <1>3, <1>6, <3>1 DEF Candidate
      <4>2. QED
        BY <2>3, <4>1
    <3>2. CASE k # c.cur - c.begin
      <4>1. k \in 0 .. x.cur - x.begin
        BY <1>2, <1>3, <3>2 DEF Candidate
      <4>2. QED
        BY <1>2, <1>3, <1>7, <4>1 DEF Aligned
    <3>3. QED
      BY <3>1, <3>2
  <2>5. QED
    BY <2>1, <2>4
<1>8. QED
  BY <1>3, <1>4, <1>5, <1>6, <1>7 DEF Passed

(* A finished candidate's body repeats, unless the pass is astray, and its *)
(* length follows from where it ends.                                      *)
LEMMA FinishedRepeats ==
  ASSUME IInv, it # N + 1, NEW around, NEW c \in Finished(LiveCandidates, around)
  PROVE  /\ c \in Candidate
         /\ Body(c) \in Loop
         /\ IF Astray THEN c.end > N + 1 ELSE Repeats(Body(c))
         /\ InWindow(Body(c))
         /\ c.end <= it
         /\ c.begin = 2 * c.end - it - 1
         /\ Body(c) # NoLoop
<1>1. c \in Matching(LiveCandidates, around) /\ c.cur + 1 = c.end
  BY DEF Finished
<1>2. c \in Candidate /\ InWindow(c) /\ Passed(c)
  BY <1>1, MatchingPassed
<1>3. /\ Body(c).begin = c.begin /\ Body(c).end = c.end
      /\ Body(c) \in Loop
      /\ c.begin \in Int /\ c.end \in Nat /\ c.cur \in Int
      /\ it \in Nat /\ N \in Nat
  BY <1>2 DEF Body, Candidate, Loop, IInv, TypeOK, N
<1>4. Size(Body(c)) = c.end - c.begin /\ c.cur - c.begin = Size(Body(c)) - 1
  BY <1>1, <1>3 DEF Size
<1>5. ASSUME ~ Astray PROVE Repeats(Body(c))
  BY <1>1, <1>2, <1>3, <1>4, <1>5 DEF Repeats, Passed, Astray
<1>6. InWindow(Body(c))
  BY <1>2, <1>3 DEF InWindow, Size
<1>7. Body(c) # NoLoop
  BY <1>1, <1>2, <1>3 DEF NoLoop, Passed
<1>8. QED
  BY <1>1, <1>2, <1>3, <1>5, <1>6, <1>7 DEF Passed

(* push_back makes the last fresh loop the current one: the order of the   *)
(* candidate list picks one, because loops that finish in the same turn    *)
(* end at different places.                                                *)
LEMMA LastOfFresh ==
  ASSUME IInv, it # N + 1, NEW around,
         Fresh(Finished(LiveCandidates, around), around) # {}
  PROVE  LastOf(Fresh(Finished(LiveCandidates, around), around))
           \in Fresh(Finished(LiveCandidates, around), around)
<1> DEFINE done  == Finished(LiveCandidates, around)
           fresh == Fresh(done, around)
           E     == { x.end : x \in fresh }
<1>1. \A x \in fresh :
        /\ x \in Loop /\ x.end <= it /\ x.begin = 2 * x.end - it - 1
  <2> SUFFICES ASSUME NEW x \in fresh
               PROVE  x \in Loop /\ x.end <= it /\ x.begin = 2 * x.end - it - 1
    OBVIOUS
  <2>1. PICK c \in done : x = Body(c)
    BY DEF Fresh
  <2>2. x.end = c.end /\ x.begin = c.begin
    BY <2>1 DEF Body
  <2>3. QED
    BY <2>1, <2>2, FinishedRepeats
<1>2. E \subseteq Nat /\ E # {} /\ it \in Nat /\ \A i \in E : i <= it
  <2> HIDE DEF fresh
  <2>1. it \in Nat
    BY DEF IInv, TypeOK
  <2>2. fresh # {}
    BY DEF fresh
  <2>3. QED
    BY <1>1, <2>1, <2>2 DEF Loop
<1>3. PICK i \in E : \A j \in E : j <= i
  <2> HIDE DEF E
  <2> QED
    BY <1>2, GreatestExists
<1>4. PICK x \in fresh : x.end = i
  OBVIOUS
<1>5. ASSUME NEW y \in fresh PROVE x = y \/ Before(y, x)
  <2>1. y.end <= x.end /\ x \in Loop /\ y \in Loop
    BY <1>1, <1>3, <1>4
  <2>2. CASE y.end < x.end
    BY <2>2 DEF Before
  <2>3. CASE y.end = x.end
    <3>1. y.begin = x.begin
      BY <1>1, <2>3
    <3>2. QED
      BY <2>1, <2>3, <3>1 DEF Loop
  <2>4. QED
    BY <2>1, <2>2, <2>3 DEF Loop
<1>6. \E z \in fresh : \A y \in fresh : z = y \/ Before(y, z)
  BY <1>5
<1>7. LastOf(fresh) \in fresh
  <2> HIDE DEF fresh
  <2> QED
    BY <1>6 DEF LastOf
<1>8. QED
  BY <1>7

-----------------------------------------------------------------------------
(* The pass starts with no candidates and no confirmed loops.              *)
LEMMA InvInit == Init => IInv
<1> SUFFICES ASSUME Init PROVE IInv
  OBVIOUS
<1>1. TypeOK
  BY TracesAssumption DEF Init, TypeOK, NoLoop, Loop, Candidate
<1>2. Shape /\ CandidatesAligned /\ ConfirmedRepeat /\ Distinct /\ WrittenOnce
  BY DEF Init, Shape, CandidatesAligned, ConfirmedRepeat, Distinct, WrittenOnce
<1>3. QED
  BY <1>1, <1>2 DEF IInv

(* A candidate the finder proposes starts out aligned: its first           *)
(* instruction is the one the pass is at, and behind the vector its end is *)
(* behind the vector too.                                                  *)
Proposed(starts, around) ==
  starts \in IF it <= N THEN {Starts(around)} ELSE SUBSET StrayStarts(around)

LEMMA NewPassed ==
  ASSUME IInv, it # N + 1, NEW around, NEW starts, Proposed(starts, around),
         NEW c \in NewCandidates(starts)
  PROVE  c \in Candidate /\ InWindow(c) /\ Passed(c) /\ c.cur + 1 < c.end
<1>1. PICK b \in starts : c = [begin |-> b, end |-> it, cur |-> b]
  BY DEF NewCandidates
<1>2. it \in Nat /\ N \in Nat /\ indexed \subseteq 1 .. N /\ (Astray <=> ~ (it <= N))
  BY DEF IInv, TypeOK, N, Astray
<1>3. /\ b \in Int /\ MinLoop <= it - b /\ it - b <= MaxHistory
      /\ it <= N => 1 <= b /\ trace[b].op = trace[it].op
  <2>1. CASE it <= N
    BY <1>1, <1>2, <2>1 DEF Proposed, Starts, Recent
  <2>2. CASE ~ (it <= N)
    BY <1>1, <1>2, <2>2, BoundsAssumption DEF Proposed, StrayStarts
  <2>3. QED
    BY <2>1, <2>2
<1>4. /\ c \in Candidate /\ c.begin = b /\ c.end = it /\ c.cur = b
  BY <1>1, <1>2, <1>3 DEF Candidate
<1>5. InWindow(c) /\ c.cur + 1 < c.end
  BY <1>2, <1>3, <1>4, BoundsAssumption DEF InWindow, Size
<1>6. ASSUME ~ Astray, NEW k \in 0 .. c.cur - c.begin
      PROVE  trace[c.begin + k].op = trace[c.end + k].op
  <2>1. k = 0 /\ b + k = b /\ it + k = it
    BY <1>2, <1>3, <1>4
  <2>2. QED
    BY <1>2, <1>3, <1>4, <1>6, <2>1
<1>7. QED
  BY <1>2, <1>3, <1>4, <1>5, <1>6 DEF Passed, Astray

(* The candidates a turn leaves behind are aligned with its successor.     *)
LEMMA ScanCandidates ==
  ASSUME IInv, it # N + 1, it' = it + 1, trace' = trace, NEW around, NEW starts,
         Proposed(starts, around),
         NEW c \in (Matching(LiveCandidates, around) \ Finished(LiveCandidates, around))
                     \cup NewCandidates(starts)
  PROVE  c \in Candidate /\ InWindow(c) /\ Aligned(c)'
<1>1. /\ c \in Candidate /\ InWindow(c) /\ Passed(c) /\ c.cur + 1 # c.end
  <2>1. CASE c \in Matching(LiveCandidates, around) \ Finished(LiveCandidates, around)
    BY <2>1, MatchingPassed DEF Finished
  <2>2. CASE c \in NewCandidates(starts)
    BY <2>2, NewPassed DEF Candidate
  <2>3. QED
    BY <2>1, <2>2
<1>2. it \in Nat /\ N \in Nat /\ N' = N /\ (Astray' <=> Astray)
  BY DEF IInv, TypeOK, N, Astray
<1>3. /\ c.begin <= c.cur /\ c.cur + 1 < c.end
      /\ it' = c.end + (c.cur - c.begin) + 1
  BY <1>1, <1>2 DEF Passed, Candidate
<1>4. QED
  BY <1>1, <1>2, <1>3 DEF Passed, Aligned

(* std::find before push_back: what a turn inside the vector confirms      *)
(* differs, as a body, from everything confirmed before and in that turn.  *)
LEMMA SameInside ==
  ASSUME IInv, NEW around, NEW x, NEW y,
         x.begin \in Nat \ {0}, x.end \in Nat, x.end <= N + 1,
         y.begin \in Nat \ {0}, y.end \in Nat, y.end <= N + 1,
         Report!Alike(x, y)
  PROVE  SameBody(x, y, around)
<1>1. Size(x) = Size(y) /\ Size(x) = x.end - x.begin /\ N \in Nat
  BY DEF Report!Alike, Report!Length, Size, IInv, TypeOK, N
<1>2. ASSUME NEW k \in 0 .. Size(x) - 1
      PROVE  At(x.begin + k, around) = At(y.begin + k, around)
  <2>1. x.begin + k \in 1 .. N /\ y.begin + k \in 1 .. N
    BY <1>1 DEF Size
  <2>2. trace[x.begin + k] = trace[y.begin + k]
    BY <1>1 DEF Report!Alike, Report!Length
  <2>3. QED
    BY <2>1, <2>2, AtInside
<1>3. QED
  BY <1>1, <1>2 DEF SameBody

LEMMA FreshDistinct ==
  ASSUME IInv, it # N + 1, ~ Astray, NEW around,
         NEW l \in Fresh(Finished(LiveCandidates, around), around),
         NEW m \in confirmed \cup Fresh(Finished(LiveCandidates, around), around),
         m # l
  PROVE  ~ Report!Alike(m, l)
<1> DEFINE done == Finished(LiveCandidates, around)
           Inside(x) == /\ x.begin \in Nat \ {0} /\ x.end \in Nat
                        /\ x.end <= N + 1
<1> SUFFICES ASSUME Report!Alike(m, l) PROVE FALSE
  OBVIOUS
<1>1. PICK c \in done :
        /\ l = Body(c)
        /\ \A x \in confirmed : ~ SameBody(x, c, around)
        /\ \A y \in done : Before(y, c) => ~ SameBody(y, c, around)
  BY DEF Fresh
<1>2. l.begin = c.begin /\ l.end = c.end
  BY <1>1 DEF Body
<1>3. ASSUME NEW x \in Loop, Repeats(x) PROVE Inside(x)
  <2>1. x.begin \in Int /\ x.end \in Nat /\ N \in Nat
    BY DEF Loop, IInv, TypeOK, N
  <2>2. QED
    BY <1>3, <2>1 DEF Repeats, Size
<1>4. /\ c \in Candidate /\ c.begin = 2 * c.end - it - 1
      /\ l \in Loop /\ Repeats(l)
  BY <1>1, FinishedRepeats
<1>5. Inside(l)
  BY <1>3, <1>4
<1>6. CASE m \in confirmed
  <2>1. Inside(m)
    BY <1>3, <1>6 DEF IInv, TypeOK, ConfirmedRepeat
  <2> HIDE DEF done
  <2>2. SameBody(m, l, around)
    BY <1>5, <2>1, SameInside
  <2>3. SameBody(m, c, around)
    BY <1>2, <2>2 DEF SameBody, Size
  <2>4. QED
    BY <1>1, <1>6, <2>3
<1>7. CASE m \in Fresh(done, around)
  <2>1. PICK y \in done :
          /\ m = Body(y)
          /\ \A z \in done : Before(z, y) => ~ SameBody(z, y, around)
    BY <1>7 DEF Fresh
  <2>2. m.begin = y.begin /\ m.end = y.end
    BY <2>1 DEF Body
  <2>3. /\ y \in Candidate /\ y.begin = 2 * y.end - it - 1
        /\ m \in Loop /\ Repeats(m)
    BY <2>1, FinishedRepeats
  <2>4. y.end # c.end
    BY <1>1, <1>4, <2>1, <2>3, m # l DEF Body
  <2>5. Inside(m)
    BY <1>3, <2>3
  <2> HIDE DEF done
  <2>6. SameBody(m, l, around) /\ SameBody(l, m, around)
    <3>1. SameBody(m, l, around)
      BY <1>5, <2>5, SameInside
    <3>2. QED
      BY <3>1 DEF SameBody
  <2>7. SameBody(y, c, around) /\ SameBody(c, y, around)
    BY <1>2, <2>2, <2>6 DEF SameBody, Size
  <2>8. Before(y, c) \/ Before(c, y)
    BY <1>4, <2>3, <2>4 DEF Before, Candidate
  <2>9. QED
    BY <1>1, <2>1, <2>7, <2>8
<1>8. QED
  BY <1>6, <1>7

(* A jump over a stride keeps what has been confirmed; it leaves the pass  *)
(* with a current body, hence with no candidate that will be advanced.     *)
LEMMA SkipInv == IInv /\ SkipIteration => IInv'
<1> SUFFICES ASSUME IInv, SkipIteration PROVE IInv'
  OBVIOUS
<1>1. /\ trace' = trace /\ candidates' = candidates /\ current' = current
      /\ confirmed' = confirmed /\ indexed' = indexed /\ pass' = pass
      /\ reports' = reports /\ it' = it + Size(current) /\ current # NoLoop
  BY DEF SkipIteration
<1>2. Size(current) \in Nat /\ it \in Nat \ {0} /\ N \in Nat
  <2>1. current \in Loop /\ InWindow(current) /\ it \in Nat \ {0} /\ N \in Nat
    BY <1>1 DEF IInv, TypeOK, Shape, N
  <2>2. QED
    BY <2>1, BoundsAssumption DEF InWindow, Size, Loop
<1>3. it' \in Nat \ {0} /\ N' = N /\ (Astray => Astray')
  BY <1>1, <1>2 DEF Astray, N
<1>4. TypeOK'
  <2>1. fast' \in BOOLEAN
    BY Zenon DEF SkipIteration, IInv, TypeOK
  <2>2. QED
    BY <1>1, <1>3, <2>1 DEF IInv, TypeOK
<1>5. Shape' /\ CandidatesAligned' /\ WrittenOnce'
  BY <1>1 DEF IInv, Shape, InWindow, Size, CandidatesAligned, WrittenOnce
<1>6. ConfirmedRepeat'
  <2>1. \A l : Repeats(l)' <=> Repeats(l)
    BY <1>1, <1>3 DEF Repeats
  <2>2. QED
    BY <1>1, <1>3, <2>1 DEF IInv, ConfirmedRepeat
<1>7. Distinct'
  BY <1>1, <1>3 DEF IInv, Distinct, Report!Alike
<1>8. QED
  BY <1>4, <1>5, <1>6, <1>7 DEF IInv

(* A turn keeps the candidates aligned with the cursor, and confirms only  *)
(* what they have passed to the end.                                       *)
LEMMA ScanInv == IInv /\ ScanInstruction => IInv'
<1> SUFFICES ASSUME IInv, ScanInstruction PROVE IInv'
  OBVIOUS
<1>1. PICK around \in Surroundings :
        /\ confirmed' = confirmed
             \cup Fresh(Finished(LiveCandidates, around), around)
        /\ current' = IF Fresh(Finished(LiveCandidates, around), around) = {}
                      THEN NoLoop
                      ELSE LastOf(Fresh(Finished(LiveCandidates, around), around))
        /\ \E starts \in IF it <= N THEN {Starts(around)}
                                    ELSE SUBSET StrayStarts(around) :
             candidates' =
               (Matching(LiveCandidates, around) \ Finished(LiveCandidates, around))
                 \cup NewCandidates(starts)
  BY DEF ScanInstruction
<1> DEFINE fresh == Fresh(Finished(LiveCandidates, around), around)
<1>2. PICK starts :
        /\ Proposed(starts, around)
        /\ candidates' =
             (Matching(LiveCandidates, around) \ Finished(LiveCandidates, around))
               \cup NewCandidates(starts)
  BY <1>1 DEF Proposed
<1>3. /\ it # N + 1 /\ it' = it + 1 /\ trace' = trace
      /\ indexed' = IF fast /\ it <= N THEN indexed \cup {it} ELSE indexed
      /\ pass' = pass /\ reports' = reports
  BY DEF ScanInstruction
<1>4. /\ trace \in Seq(Instr) /\ N \in Nat /\ it \in Nat \ {0}
      /\ confirmed \subseteq Loop /\ indexed \subseteq 1 .. N
      /\ N' = N /\ (Astray' <=> Astray)
  BY <1>3 DEF IInv, TypeOK, N, Astray
<1>5. \A l \in fresh :
        /\ l \in Loop /\ InWindow(l)
        /\ IF Astray THEN l.end > N + 1 ELSE Repeats(l)
  <2> SUFFICES ASSUME NEW l \in fresh
               PROVE  /\ l \in Loop /\ InWindow(l)
                      /\ IF Astray THEN l.end > N + 1 ELSE Repeats(l)
    OBVIOUS
  <2>1. PICK c \in Finished(LiveCandidates, around) : l = Body(c)
    BY DEF Fresh
  <2>2. QED
    BY <1>3, <2>1, FinishedRepeats DEF Body
<1>6. fresh # {} => LastOf(fresh) \in fresh
  BY <1>3, LastOfFresh
<1>7. \A c \in candidates' : c \in Candidate /\ InWindow(c) /\ Aligned(c)'
  BY <1>2, <1>3, ScanCandidates
<1>8. ~ Astray =>
        \A l \in fresh, m \in confirmed \cup fresh : m # l => ~ Report!Alike(m, l)
  BY <1>3, FreshDistinct
<1>9. /\ confirmed' = confirmed \cup fresh
      /\ current' = IF fresh = {} THEN NoLoop ELSE LastOf(fresh)
  BY <1>1
<1> HIDE DEF fresh
<1>10. TypeOK'
  <2>1. current' \in Loop
    BY <1>5, <1>6, <1>9 DEF NoLoop, Loop
  <2>2. confirmed' \subseteq Loop /\ candidates' \subseteq Candidate
    BY <1>4, <1>5, <1>7, <1>9
  <2>3. indexed' \subseteq 1 .. N' /\ it' \in Nat \ {0}
    BY <1>3, <1>4
  <2>4. fast' \in BOOLEAN
    BY Zenon DEF ScanInstruction, IInv, TypeOK
  <2>5. QED
    BY <1>3, <1>4, <2>1, <2>2, <2>3, <2>4 DEF IInv, TypeOK
<1>11. Shape'
  <2>1. current' # NoLoop => current' \in confirmed'
    BY <1>6, <1>9
  <2>2. \A l \in confirmed' : InWindow(l)
    BY <1>5, <1>9 DEF IInv, Shape
  <2>3. QED
    BY <1>7, <2>1, <2>2 DEF Shape, InWindow, Size
<1>12. CandidatesAligned'
  BY <1>7 DEF CandidatesAligned
<1>13. ConfirmedRepeat'
  <2>1. \A l : Repeats(l)' <=> Repeats(l)
    BY <1>3, <1>4 DEF Repeats
  <2>2. QED
    BY <1>4, <1>5, <1>9, <2>1 DEF IInv, ConfirmedRepeat
<1>14. Distinct'
  <2>1. SUFFICES ASSUME ~ Astray, NEW l \in confirmed', NEW m \in confirmed', m # l
                 PROVE  ~ Report!Alike(m, l)'
    BY <1>4 DEF Distinct
  <2>2. Report!Alike(m, l)' <=> Report!Alike(m, l)
    BY <1>3 DEF Report!Alike
  <2>3. CASE l \in fresh
    BY <1>8, <1>9, <2>1, <2>2, <2>3
  <2>4. CASE l \in confirmed /\ m \in fresh
    <3>1. ~ Report!Alike(l, m)
      BY <1>8, <2>1, <2>4
    <3>2. Report!Alike(m, l) => Report!Alike(l, m)
      BY DEF Report!Alike
    <3>3. QED
      BY <2>2, <3>1, <3>2
  <2>5. CASE l \in confirmed /\ m \in confirmed
    BY <2>1, <2>2, <2>5 DEF IInv, Distinct
  <2>6. QED
    BY <1>9, <2>3, <2>4, <2>5
<1>15. WrittenOnce'
  BY <1>3 DEF IInv, WrittenOnce
<1>16. QED
  BY <1>10, <1>11, <1>12, <1>13, <1>14, <1>15 DEF IInv

(* What only ends the pass: the report, the crash, and nothing at all.     *)
LEMMA EndInv ==
  ASSUME IInv,
         UNCHANGED <<trace, fast, it, candidates, current, confirmed, indexed>>,
         \/ WriteReports
         \/ Crash
         \/ UNCHANGED <<pass, reports>>
  PROVE  IInv'
<1>1. TypeOK'
  <2>1. fast' \in BOOLEAN
    BY Zenon DEF IInv, TypeOK
  <2>2. pass' \in {"running", "reported", "killed"} /\ reports' \in SUBSET Loop
    BY DEF IInv, TypeOK, WriteReports, Crash
  <2>3. QED
    BY <2>1, <2>2 DEF IInv, TypeOK, N
<1>2. Shape' /\ CandidatesAligned' /\ ConfirmedRepeat' /\ Distinct'
  BY DEF IInv, Shape, CandidatesAligned, Aligned, ConfirmedRepeat, Repeats, Distinct,
         Report!Alike, Report!Length, Astray, InWindow, Size, N
<1>3. WrittenOnce'
  BY DEF IInv, WrittenOnce, WriteReports, Crash
<1>4. QED
  BY <1>1, <1>2, <1>3 DEF IInv

(* Each step of the pass keeps the invariant.                              *)
LEMMA InvStep == IInv /\ [Next]_vars => IInv'
<1> SUFFICES ASSUME IInv, [Next]_vars PROVE IInv'
  OBVIOUS
<1>1. CASE SkipIteration
  BY <1>1, SkipInv
<1>2. CASE ScanInstruction
  BY <1>2, ScanInv
<1>3. CASE WriteReports
  BY <1>3, EndInv DEF WriteReports
<1>4. CASE Crash
  BY <1>4, EndInv DEF Crash
<1>5. CASE UNCHANGED vars
  BY <1>5, EndInv DEF vars
<1>6. QED
  BY <1>1, <1>2, <1>3, <1>4, <1>5 DEF Next, Ended

(* The inductive invariant holds throughout the pass.                      *)
LEMMA Invariant == Spec => []IInv
BY InvInit, InvStep, PTL DEF Spec

(* The pass's state keeps its types: in particular its iterator never goes *)
(* back, and reports carry no cursor.                                      *)
THEOREM TypeCorrect == Spec => []TypeOK
<1>1. IInv => TypeOK
  BY DEF IInv
<1>2. QED
  BY Invariant, <1>1, PTL

(* Every loop confirmed occurs twice in a row in the trace, but for those  *)
(* confirmed when a stride has jumped over cend(); of these the second run *)
(* lies behind the vector as a whole.                                      *)
THEOREM ReportsRepeat == Spec => []ConfirmedRepeat
<1>1. IInv => ConfirmedRepeat
  BY DEF IInv
<1>2. QED
  BY Invariant, <1>1, PTL

(* Unless a body is being skipped, every candidate is in step with the     *)
(* pass.  It has been compared with the trace up to the last instruction,  *)
(* or, when the pass is behind the vector, was proposed there.             *)
THEOREM CandidatesInStep == Spec => []CandidatesAligned
<1>1. IInv => CandidatesAligned
  BY DEF IInv
<1>2. QED
  BY Invariant, <1>1, PTL

-----------------------------------------------------------------------------
(* The detector implements LoopReport: it writes one report, of bodies     *)
(* that run twice, have a length in the window and are no two alike, or it *)
(* is killed and writes none, whatever it has confirmed behind the vector. *)
THEOREM Implementation == Spec => ReportSpec
<1>1. Init => Report!Init
  BY DEF Init, Report!Init
<1>2. IInv /\ [Next]_vars => [Report!Write]_<<trace, reports>>
  <2> SUFFICES ASSUME IInv, [Next]_vars
               PROVE  [Report!Write]_<<trace, reports>>
    OBVIOUS
  <2>1. CASE WriteReports
    <3>1. /\ reports' = confirmed /\ trace' = trace /\ reports = {}
          /\ ~ Astray
      BY <2>1 DEF WriteReports, IInv, WrittenOnce, TypeOK, N, Astray
    <3>2. ASSUME NEW l \in reports'
          PROVE  /\ Report!RunsTwice(l)
                 /\ MinLoop <= Report!Length(l) /\ Report!Length(l) <= MaxHistory
                 /\ \A m \in reports' : m # l => ~ Report!Alike(m, l)
      <4>1. Repeats(l) /\ InWindow(l)
        BY <3>1 DEF IInv, ConfirmedRepeat, Shape
      <4>2. Report!RunsTwice(l)
        BY <4>1 DEF Repeats, Report!RunsTwice, Report!Length, Size, N
      <4>3. MinLoop <= Report!Length(l) /\ Report!Length(l) <= MaxHistory
        BY <4>1 DEF InWindow, Report!Length, Size
      <4>4. \A m \in reports' : m # l => ~ Report!Alike(m, l)
        BY <3>1 DEF IInv, Distinct
      <4>5. QED
        BY <4>2, <4>3, <4>4
    <3>3. QED
      BY <3>1, <3>2 DEF Report!Write
  <2>2. CASE SkipIteration \/ ScanInstruction \/ Crash \/ UNCHANGED vars
    BY <2>2 DEF SkipIteration, ScanInstruction, Crash, vars
  <2>3. QED
    BY <2>1, <2>2 DEF Next, Ended
<1>3. QED
  BY Invariant, <1>1, <1>2, PTL DEF Spec, ReportSpec, Report!Spec

-----------------------------------------------------------------------------
(* Nothing visible is missed before the first report.  Until then no       *)
(* stride is skipped, so every position has been indexed and every visible *)
(* body whose repetition has begun has its candidate in step with the pass.*)
Followed(b, e) ==
  \/ it <= e
  \/ /\ it < e + (e - b)
     /\ [begin |-> b, end |-> e, cur |-> b + (it - e) - 1] \in candidates

NothingMissed ==
  confirmed = {} =>
    /\ current = NoLoop /\ ~ Astray
    /\ fast => indexed = 1 .. it - 1
    /\ \A b, e \in 1 .. N : Visible([begin |-> b, end |-> e]) => Followed(b, e)

(* Of the candidates that finish in one turn the first in the list is      *)
(* fresh, unless something was confirmed before.                           *)
LEMMA FirstDoneIsFresh ==
  ASSUME IInv, it # N + 1, NEW around, confirmed = {},
         Finished(LiveCandidates, around) # {}
  PROVE  Fresh(Finished(LiveCandidates, around), around) # {}
<1> DEFINE done == Finished(LiveCandidates, around)
           E    == { it - x.end : x \in done }
<1>1. \A x \in done : /\ x \in Candidate /\ x.end <= it
                       /\ x.begin = 2 * x.end - it - 1
  BY FinishedRepeats
<1>2. \A x \in done : x.end \in Nat /\ it - x.end \in Nat /\ it - x.end <= it
  <2> HIDE DEF done
  <2>1. it \in Nat
    BY DEF IInv, TypeOK
  <2>2. QED
    BY <1>1, <2>1 DEF Candidate
<1>3. E \in SUBSET Nat /\ E # {} /\ it \in Nat /\ \A i \in E : i <= it
  <2> HIDE DEF done
  <2>1. E \in SUBSET Nat /\ E # {} /\ \A i \in E : i <= it
    BY <1>2 DEF done
  <2>2. QED
    BY <2>1 DEF IInv, TypeOK
<1>4. PICK i \in E : \A j \in E : j <= i
  <2> HIDE DEF E
  <2> QED
    BY <1>3, GreatestExists
<1>5. PICK c \in done : i = it - c.end
  OBVIOUS
<1>6. ASSUME NEW y \in done PROVE ~ Before(y, c)
  <2>1. it - y.end <= i /\ y.end \in Nat /\ c.end \in Nat /\ it \in Nat
    BY <1>1, <1>3, <1>4 DEF Candidate
  <2>2. c.end <= y.end
    BY <1>5, <2>1
  <2>3. c.end = y.end => c.begin = y.begin
    BY <1>1
  <2>4. c.begin \in Int /\ y.begin \in Int
    BY <1>1 DEF Candidate
  <2>5. QED
    BY <2>1, <2>2, <2>3, <2>4 DEF Before
<1>7. Body(c) \in Fresh(done, around)
  <2> HIDE DEF done, E
  <2>1. c \in { x \in done :
                /\ \A l \in confirmed : ~ SameBody(l, x, around)
                /\ \A y \in done : Before(y, x) => ~ SameBody(y, x, around) }
    BY <1>6
  <2>2. QED
    BY <2>1 DEF Fresh
<1>8. QED
  BY <1>7

(* What a turn does for a visible body.                                    *)
LEMMA BodyFollowed ==
  ASSUME IInv, it \in 1 .. N, current = NoLoop, fast => indexed = 1 .. it - 1,
         NEW around, Finished(LiveCandidates, around) = {},
         NEW b \in 1 .. N, NEW e \in 1 .. N,
         Visible([begin |-> b, end |-> e]), Followed(b, e)
  PROVE  \/ it + 1 <= e
         \/ /\ it + 1 < e + (e - b)
            /\ [begin |-> b, end |-> e, cur |-> b + (it + 1 - e) - 1]
                 \in Matching(LiveCandidates, around) \cup NewCandidates(Starts(around))
<1>1. /\ b < e /\ e + (e - b) - 1 <= N /\ MinLoop <= e - b /\ e - b <= MaxHistory
      /\ e + 5 <= N
      /\ \A k \in 0 .. e - b - 1 : trace[b + k].op = trace[e + k].op
      /\ \A d \in Lookahead : trace[b + d].op = trace[e + d].op
  BY DEF Visible, Repeats, Size
<1>2. it \in Int /\ b \in Int /\ e \in Int /\ N \in Nat /\ MinLoop \in Nat /\ MinLoop >= 2
  BY BoundsAssumption DEF IInv, TypeOK, N
<1>3. CASE it < e
  BY <1>2, <1>3
<1>4. CASE it = e
  <2>1. trace[b].op = trace[it].op
    <3>1. 0 \in 0 .. e - b - 1 /\ b + 0 = b /\ e + 0 = e
      BY <1>1, <1>2
    <3>2. QED
      BY <1>1, <1>4, <3>1
  <2>2. b \in Recent /\ MinLoop <= it - b
    BY <1>1, <1>2, <1>4, <2>1 DEF Recent
  <2>3. ASSUME NEW d \in Lookahead
        PROVE  /\ it + d # N + 1 /\ Readable(it + d)
               /\ At(b + d, around).op = At(it + d, around).op
    <3>1. d \in 1 .. 5 /\ Spare \in Nat
      BY SurroundingsAssumption DEF Lookahead
    <3>2. b + d \in 1 .. N /\ it + d \in 1 .. N
      BY <1>1, <1>2, <1>4, <3>1
    <3>3. Readable(it + d) /\ it + d # N + 1
      BY <1>2, <3>1, <3>2 DEF Readable
    <3>4. QED
      BY <1>1, <1>4, <3>2, <3>3, AtInside
  <2>4. b \in Starts(around)
    BY <2>2, <2>3 DEF Starts, InsideLookahead, LookaheadAgrees
  <2>5. [begin |-> b, end |-> it, cur |-> b] \in NewCandidates(Starts(around))
    BY <2>4 DEF NewCandidates
  <2>6. b + (it + 1 - e) - 1 = b /\ it + 1 < e + (e - b)
    BY <1>1, <1>2, <1>4
  <2>7. QED
    BY <1>4, <2>5, <2>6
<1>5. CASE it > e
  <2> DEFINE c == [begin |-> b, end |-> e, cur |-> b + (it - e) - 1]
             a == [begin |-> b, end |-> e, cur |-> b + (it + 1 - e) - 1]
  <2>1. it < e + (e - b) /\ c \in LiveCandidates
    BY <1>2, <1>5 DEF Followed, LiveCandidates
  <2>2. [c EXCEPT !.cur = @ + 1] = a
    BY <1>2
  <2>3. a \in Advanced(LiveCandidates)
    BY <2>1, <2>2 DEF Advanced
  <2>4. it - e \in 0 .. e - b - 1 /\ e + (it - e) = it /\ b + (it - e) = b + (it + 1 - e) - 1
    BY <1>2, <1>5, <2>1
  <2>5. trace[b + (it - e)].op = trace[it].op
    BY <1>1, <2>4
  <2>6. a.cur = b + (it - e) /\ a.end = e
    BY <2>4
  <2> HIDE DEF a, c
  <2>7. a \in Matching(LiveCandidates, around)
    <3>1. a.cur \in 1 .. N /\ it \in 1 .. N
      BY <1>1, <1>2, <2>1, <2>4, <2>6
    <3>2. At(a.cur, around).op = At(it, around).op
      BY <2>5, <2>6, <3>1, AtInside
    <3>3. QED
      BY <2>3, <3>2 DEF Matching
  <2>8. a.cur + 1 # a.end
    BY <2>7 DEF Finished
  <2>9. it + 1 < e + (e - b)
    BY <1>2, <2>1, <2>6, <2>8
  <2>10. QED
    BY <2>7, <2>9 DEF a
<1>6. QED
  BY <1>2, <1>3, <1>4, <1>5

LEMMA NothingMissedStep ==
  ASSUME IInv, NothingMissed, [Next]_vars
  PROVE  NothingMissed'
<1>1. CASE SkipIteration
  BY <1>1 DEF SkipIteration, NothingMissed
<1>2. CASE ScanInstruction
  <2> SUFFICES ASSUME confirmed' = {} PROVE NothingMissed'
    BY DEF NothingMissed
  <2>1. PICK around \in Surroundings :
          /\ confirmed' = confirmed
               \cup Fresh(Finished(LiveCandidates, around), around)
          /\ current' = IF Fresh(Finished(LiveCandidates, around), around) = {}
                        THEN NoLoop
                        ELSE LastOf(Fresh(Finished(LiveCandidates, around), around))
          /\ \E starts \in IF it <= N THEN {Starts(around)}
                                      ELSE SUBSET StrayStarts(around) :
               candidates' =
                 (Matching(LiveCandidates, around) \ Finished(LiveCandidates, around))
                   \cup NewCandidates(starts)
    BY <1>2 DEF ScanInstruction
  <2>2. it # N + 1 /\ it' = it + 1 /\ trace' = trace
    BY <1>2 DEF ScanInstruction
  <2>3. confirmed = {} /\ Fresh(Finished(LiveCandidates, around), around) = {}
    BY <2>1
  <2>4. it \in 1 .. N /\ N' = N /\ ~ Astray'
    BY <2>2, <2>3 DEF NothingMissed, Astray, IInv, TypeOK, N
  <2>5. Finished(LiveCandidates, around) = {}
    BY <2>2, <2>3, FirstDoneIsFresh
  <2>6. /\ current = NoLoop /\ (fast => indexed = 1 .. it - 1)
        /\ \A b, e \in 1 .. N : Visible([begin |-> b, end |-> e]) => Followed(b, e)
    BY <2>3 DEF NothingMissed
  <2>7. current' = NoLoop
    BY <2>1, <2>3
  <2>8. fast' => indexed' = 1 .. it' - 1
    <3>1. it \in Nat \ {0}
      BY DEF IInv, TypeOK
    <3>2. (1 .. it - 1) \cup {it} = 1 .. it' - 1 /\ it <= N
      BY <2>2, <2>4, <3>1
    <3>3. (fast' <=> fast) /\ (fast /\ it <= N => indexed' = indexed \cup {it})
      BY <1>2, Zenon DEF ScanInstruction
    <3>4. QED
      BY <2>6, <3>2, <3>3, Zenon
  <2>9. candidates' =
          Matching(LiveCandidates, around) \cup NewCandidates(Starts(around))
    BY <2>1, <2>4, <2>5
  <2>10. \A l : Visible(l)' <=> Visible(l)
    BY <2>2, <2>4 DEF Visible, Repeats
  <2>11. ASSUME NEW b \in 1 .. N, NEW e \in 1 .. N,
                Visible([begin |-> b, end |-> e])
         PROVE  Followed(b, e)'
    <3>1. \/ it + 1 <= e
          \/ /\ it + 1 < e + (e - b)
             /\ [begin |-> b, end |-> e, cur |-> b + (it + 1 - e) - 1]
                  \in Matching(LiveCandidates, around) \cup NewCandidates(Starts(around))
      BY <2>2, <2>4, <2>5, <2>6, <2>11, BodyFollowed
    <3>2. QED
      BY <2>2, <2>4, <2>9, <3>1 DEF Followed
  <2>12. \A b, e \in 1 .. N' :
           Visible([begin |-> b, end |-> e])' => Followed(b, e)'
    BY <2>4, <2>10, <2>11
  <2>13. QED
    BY <2>4, <2>7, <2>8, <2>12, Zenon DEF NothingMissed
<1>3. CASE WriteReports \/ Crash \/ UNCHANGED vars
  BY <1>3 DEF WriteReports, Crash, vars, NothingMissed, Followed, Visible, Repeats,
              Astray, N
<1>4. QED
  BY <1>1, <1>2, <1>3 DEF Next, Ended

(* As long as findPotentialLoop and isCheckedFinish have reported nothing, *)
(* no body that the lookahead can see has been executed twice: the first   *)
(* such loop of any trace is reported, by either detector.                 *)
THEOREM FirstLoopIsFound == Spec => []FirstLoopFound
<1>1. Init => NothingMissed
  <2> SUFFICES ASSUME Init PROVE NothingMissed
    OBVIOUS
  <2>1. /\ it = 1 /\ current = NoLoop /\ indexed = {} /\ 1 .. it - 1 = {}
        /\ ~ Astray
    BY TracesAssumption DEF Init, Astray, N
  <2>2. \A b, e \in 1 .. N : Followed(b, e)
    BY <2>1 DEF Followed
  <2>3. QED
    BY <2>1, <2>2 DEF NothingMissed
<1>2. IInv /\ NothingMissed /\ [Next]_vars => NothingMissed'
  BY NothingMissedStep
<1>3. IInv /\ NothingMissed => FirstLoopFound
  <2> SUFFICES ASSUME IInv, NothingMissed, confirmed = {},
                      NEW b \in 1 .. N, NEW e \in 1 .. N,
                      Visible([begin |-> b, end |-> e])
               PROVE  it < e + Size([begin |-> b, end |-> e])
    BY DEF FirstLoopFound
  <2>1. Followed(b, e) /\ b < e /\ it \in Int
    BY DEF NothingMissed, Visible, Repeats, IInv, TypeOK
  <2>2. QED
    BY <2>1 DEF Followed, Size
<1>4. QED
  BY Invariant, <1>1, <1>2, <1>3, PTL DEF Spec
=============================================================================
