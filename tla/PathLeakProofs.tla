---------------------------- MODULE PathLeakProofs ----------------------------
(***************************************************************************)
(* From the jumps to the leakage that is reported, for every key space,    *)
(* every behaviour of the flags, every constraint recorded besides and     *)
(* every bound of the sampling.  For every program without JNG (see        *)
(* BranchConstraints): until a parity jump, a JCXZ, or a JECXZ that is not *)
(* taken, is executed, the recorded constraints describe exactly the       *)
(* inputs that take the trace's path, and the share of random inputs       *)
(* reported is theirs.                                                     *)
(***************************************************************************)
EXTENDS PathLeak, FiniteSetTheorems, TLAPS

(* The initial state is well typed.                                        *)
LEMMA TypeInit == Init => TypeOK
BY DEF Init, TypeOK

(* Every step keeps the state well typed.                                  *)
LEMMA TypeStep == TypeOK /\ [Next]_vars => TypeOK'
<1> SUFFICES ASSUME TypeOK, [Next]_vars PROVE TypeOK'
  OBVIOUS
<1>1. CASE SetFlags
  BY <1>1 DEF SetFlags, TypeOK
<1>2. ASSUME NEW j \in Jumps, Jump(j) PROVE TypeOK'
  BY <1>2 DEF Jump, TypeOK
<1>3. CASE UNCHANGED vars
  BY <1>3 DEF vars, TypeOK
<1>4. QED
  BY <1>1, <1>2, <1>3 DEF Next

(* What a relation between two flags, or a flag and a number, says.        *)
LEMMA OneFlagSays ==
  ASSUME NEW p \in BOOLEAN, NEW q \in BOOLEAN
  PROVE  /\ FlagIs(p, q) <=> (p <=> q)
         /\ Buildop2("equal", Bit(p), 1) = Bit(p)
         /\ Buildop2("equal", Bit(p), 0) = Bit(~ p)
         /\ Buildop2("equal", Bit(p), Bit(q)) = Bit(p <=> q)
         /\ Buildop2("noequal", Bit(p), Bit(q)) = Bit(~ (p <=> q))
         /\ Validates("equal", Bit(p), Bit(q)) <=> (p <=> q)
         /\ Validates("noequal", Bit(p), Bit(q)) <=> ~ (p <=> q)
BY DEF FlagIs, Validates, Buildop2, Bit

(* What a disjunction and a conjunction of relations say.                  *)
LEMMA TwoFlagsSay ==
  ASSUME NEW p \in BOOLEAN, NEW q \in BOOLEAN
  PROVE  /\ Validates("bvor", Bit(p), Bit(q)) <=> p \/ q
         /\ Validates("bvand", Bit(p), Bit(q)) <=> p /\ q
BY DEF Validates, Bit

(* Every other jump records the formula that says which way it went.       *)
LEMMA RecordedIsDirection ==
  ASSUME NEW own \in Flags, NEW f \in Flags,
         NEW j \in AllJumps \ {"JNG"}, ~ Untold(j, own)
  PROVE  Recorded(j, own, f) <=> (Taken(j, f) = Taken(j, own))
<1>0. /\ own.CF \in BOOLEAN /\ own.ZF \in BOOLEAN /\ own.SF \in BOOLEAN
      /\ own.OF \in BOOLEAN /\ own.PF \in BOOLEAN
      /\ f.CF \in BOOLEAN /\ f.ZF \in BOOLEAN /\ f.SF \in BOOLEAN
      /\ f.OF \in BOOLEAN /\ f.PF \in BOOLEAN
      /\ own.EcxZero \in BOOLEAN /\ f.EcxZero \in BOOLEAN
  BY DEF Flags
<1>1. CASE j \in CarryJumps \cup ZeroJumps \cup OverflowJumps \cup SignJumps
  <2>1. /\ FlagIs(f.CF, own.CF) <=> (f.CF <=> own.CF)
        /\ FlagIs(f.ZF, own.ZF) <=> (f.ZF <=> own.ZF)
        /\ FlagIs(f.OF, own.OF) <=> (f.OF <=> own.OF)
        /\ FlagIs(f.SF, own.SF) <=> (f.SF <=> own.SF)
    BY <1>0, OneFlagSays
  <2>2. Recorded(j, own, f) <=>
          /\ j \in CarryJumps    => (f.CF <=> own.CF)
          /\ j \in ZeroJumps     => (f.ZF <=> own.ZF)
          /\ j \in OverflowJumps => (f.OF <=> own.OF)
          /\ j \in SignJumps     => (f.SF <=> own.SF)
    BY <1>1, <2>1, Zenon DEF Recorded, OneFlag, CarryJumps, ZeroJumps, OverflowJumps,
         SignJumps, BelowJumps, LessJumps, GreaterJumps
  <2>3. QED
    BY <1>0, <1>1, <2>2 DEF Taken, CarryJumps, ZeroJumps, OverflowJumps, SignJumps
<1>2. CASE j \in BelowJumps
  <2>1. Recorded(j, own, f) <=> Unsigned(own, f)
    BY <1>2, Zenon DEF Recorded, OneFlag, CarryJumps, ZeroJumps, OverflowJumps,
         SignJumps, BelowJumps, LessJumps, GreaterJumps
  <2>2. \/ \A g \in {own, f} : Taken(j, g) = (g.CF \/ g.ZF)
        \/ \A g \in {own, f} : Taken(j, g) = (~ g.CF /\ ~ g.ZF)
    BY <1>0, <1>2 DEF BelowJumps, Taken
  <2>3. Unsigned(own, f) <=> ((f.CF \/ f.ZF) <=> (own.CF \/ own.ZF))
    <3>1. /\ Buildop2("equal", Bit(f.CF), 1) = Bit(f.CF)
          /\ Buildop2("equal", Bit(f.ZF), 1) = Bit(f.ZF)
          /\ Buildop2("equal", Bit(f.CF), 0) = Bit(~ f.CF)
          /\ Buildop2("equal", Bit(f.ZF), 0) = Bit(~ f.ZF)
      BY <1>0, OneFlagSays
    <3>2. /\ Validates("bvor", Bit(f.CF), Bit(f.ZF)) <=> f.CF \/ f.ZF
          /\ Validates("bvand", Bit(~ f.CF), Bit(~ f.ZF)) <=> ~ f.CF /\ ~ f.ZF
      BY <1>0, TwoFlagsSay
    <3>3. QED
      BY <1>0, <3>1, <3>2 DEF Unsigned
  <2>4. QED
    BY <1>0, <2>1, <2>2, <2>3
<1>3. CASE j \in LessJumps
  <2>1. Recorded(j, own, f) <=> Signed(own, f)
    BY <1>3, Zenon DEF Recorded, OneFlag, CarryJumps, ZeroJumps, OverflowJumps,
         SignJumps, BelowJumps, LessJumps, GreaterJumps
  <2>2. \/ \A g \in {own, f} : Taken(j, g) = Less(g)
        \/ \A g \in {own, f} : Taken(j, g) = ~ Less(g)
    BY <1>0, <1>3 DEF LessJumps, Taken, Less
  <2>3. Signed(own, f) <=> (Less(f) <=> Less(own))
    BY <1>0, OneFlagSays DEF Signed, Less
  <2>4. QED
    BY <1>0, <2>1, <2>2, <2>3 DEF Less
<1>4. CASE j \in GreaterJumps
  <2>1. Recorded(j, own, f) <=> SignedOrEqual(own, f)
    BY <1>4, Zenon DEF Recorded, OneFlag, CarryJumps, ZeroJumps, OverflowJumps,
         SignJumps, BelowJumps, LessJumps, GreaterJumps
  <2>2. \/ \A g \in {own, f} : Taken(j, g) = (g.ZF \/ Less(g))
        \/ \A g \in {own, f} : Taken(j, g) = (~ g.ZF /\ ~ Less(g))
    BY <1>0, <1>4 DEF GreaterJumps, Taken, Less
  <2>3. SignedOrEqual(own, f) <=>
          ((f.ZF \/ Less(f)) <=> (own.ZF \/ Less(own)))
    <3>1. /\ Buildop2("equal", Bit(f.ZF), 1) = Bit(f.ZF)
          /\ Buildop2("equal", Bit(f.ZF), 0) = Bit(~ f.ZF)
          /\ Buildop2("noequal", Bit(f.SF), Bit(f.OF)) = Bit(Less(f))
          /\ Buildop2("equal", Bit(f.SF), Bit(f.OF)) = Bit(~ Less(f))
      BY <1>0, OneFlagSays DEF Less
    <3>2. /\ Validates("bvor", Bit(f.ZF), Bit(Less(f))) <=> f.ZF \/ Less(f)
          /\ Validates("bvand", Bit(~ f.ZF), Bit(~ Less(f))) <=> ~ f.ZF /\ ~ Less(f)
      BY <1>0, TwoFlagsSay DEF Less
    <3>3. QED
      BY <1>0, <3>1, <3>2 DEF SignedOrEqual, OrEqual, Less
  <2>4. QED
    BY <1>0, <2>1, <2>2, <2>3 DEF Less
<1>5. CASE j = "JECXZ"
  <2>1. own.EcxZero
    BY <1>5 DEF Untold
  <2>2. Recorded(j, own, f) <=> f.EcxZero
    <3>1. FlagIs(f.EcxZero, TRUE) <=> f.EcxZero
      BY <1>0, OneFlagSays
    <3>2. QED
      BY <1>5, <3>1, Zenon DEF Recorded, OneFlag, CarryJumps, ZeroJumps, OverflowJumps,
           SignJumps, BelowJumps, LessJumps, GreaterJumps
  <2>3. Taken(j, f) = f.EcxZero /\ Taken(j, own) = own.EcxZero
    BY <1>0, <1>5 DEF Taken
  <2>4. QED
    BY <1>0, <2>1, <2>2, <2>3
<1>6. QED
  BY <1>1, <1>2, <1>3, <1>4, <1>5 DEF AllJumps, Untold

(* QIF's path constraints are exact: while every jump said which way it    *)
(* went, an input satisfies all of them if and only if it goes the         *)
(* trace's way at every conditional jump.                                  *)
THEOREM PathExact ==
  ASSUME Jumps \subseteq AllJumps \ {"JNG"}
  PROVE  Spec => []SamePath
<1>1. Init => SamePath
  BY DEF Init, SamePath
<1>2. TypeOK /\ SamePath /\ [Next]_vars => SamePath'
  <2> SUFFICES ASSUME TypeOK, SamePath, [Next]_vars PROVE SamePath'
    OBVIOUS
  <2>1. CASE SetFlags
    BY <2>1 DEF SetFlags, SamePath
  <2>2. ASSUME NEW j \in Jumps, Jump(j) PROVE SamePath'
    <3> SUFFICES ASSUME ~ silent' PROVE path' = same'
      BY DEF SamePath
    <3>0. path = same /\ j \in AllJumps \ {"JNG"} /\ ~ Untold(j, flags[KeyInput])
      BY <2>2 DEF Jump, SamePath
    <3>1. KeyInput \in Inputs /\ flags[KeyInput] \in Flags
      BY InputAssumption, FlagsAssumption DEF TypeOK
    <3>2. \A x \in Inputs :
            x \in Satisfying(j) <=> (Taken(j, flags[x]) = Taken(j, flags[KeyInput]))
      BY <3>0, <3>1, RecordedIsDirection, FlagsAssumption DEF Satisfying, TypeOK
    <3>3. KeyInput \in Satisfying(j)
      BY <3>1, <3>2
    <3>4. path' = path \cap Satisfying(j)
      BY <2>2, <3>3 DEF Jump, TypeOK
    <3>5. same' = { x \in same : Taken(j, flags[x]) = Taken(j, flags[KeyInput]) }
      BY <2>2 DEF Jump
    <3>6. QED
      BY <3>0, <3>2, <3>4, <3>5 DEF TypeOK
  <2>3. CASE UNCHANGED vars
    BY <2>3 DEF vars, SamePath
  <2>4. QED
    BY <2>1, <2>2, <2>3 DEF Next
<1>3. QED
  BY TypeInit, TypeStep, <1>1, <1>2, PTL DEF Spec

-----------------------------------------------------------------------------
(* The replay of PathLeak is that of BranchConstraints, and what comes     *)
(* after it leaves the path alone.                                         *)
THEOREM ReplayRecordsPath == PathLeakSpec => Spec
<1>1. PathLeakInit => Init
  BY DEF PathLeakInit
<1>2. TypeOK /\ [PathLeakNext]_pathLeakVars => [Next]_vars
  <2> SUFFICES ASSUME TypeOK, [PathLeakNext]_pathLeakVars PROVE [Next]_vars
    OBVIOUS
  <2>1. CASE FlagsChange
    BY <2>1 DEF FlagsChange, Next
  <2>2. ASSUME NEW j \in Jumps, RecordJump(j) \/ DropJump(j) PROVE Next
    BY <2>2 DEF RecordJump, DropJump, Next
  <2>3. CASE RecordOther
    BY <2>3 DEF RecordOther
  <2>4. CASE ReplayEnds
    <3>1. flags[KeyInput] \in FlagStates
      BY InputAssumption DEF TypeOK
    <3>2. (CHOOSE f \in FlagStates : TRUE) \in FlagStates
      BY <3>1
    <3>3. flags' \in [Inputs -> FlagStates]
      BY <2>4, <3>2 DEF ReplayEnds
    <3> QED
      BY <2>4, <3>3 DEF ReplayEnds, SetFlags, Next
  <2>5. CASE Estimate \/ Terminated \/ UNCHANGED pathLeakVars
    BY <2>5 DEF Estimate, Terminated, pathLeakVars
  <2> QED
    BY <2>1, <2>2, <2>3, <2>4, <2>5 DEF PathLeakNext
<1>3. TypeOK /\ [Next]_vars => TypeOK'
  BY TypeStep
<1> QED
  BY <1>1, <1>2, <1>3, TypeInit, PTL DEF PathLeakSpec, Spec

(* So the path constraints that the estimate starts from are exact.        *)
THEOREM PathExactInReplay ==
  ASSUME Jumps \subseteq AllJumps \ {"JNG"}
  PROVE  PathLeakSpec => []SamePath
BY PathExact, ReplayRecordsPath, PTL

-----------------------------------------------------------------------------
(* The types of what the estimate works on.                                *)
Phases == {"replay", "reduce", "split", "verify", "run", "groups", "done", "crashed"}

Group == { g \in Seq(Constraint) : Len(g) >= 1 }

Result == [addr : Addresses, num : Nat, type : {"CF", "DA"}, total : Nat]

LeakTypeOK ==
  /\ TypeOK
  /\ alike \subseteq Inputs
  /\ phase \in Phases
  /\ constrains \in Seq(Constraint)
  /\ given \in Seq(Constraint)
  /\ groups \in Seq(Group)
  /\ tests \in Seq(Inputs)
  /\ results \in Seq(Result)
  /\ sampleNum \in Nat /\ satisfied \in Nat /\ rounds \in Nat /\ hits \in Nat
  /\ at \in Nat \ {0}

LEMMA Appended ==
  ASSUME NEW T, NEW s \in Seq(T), NEW e \in T
  PROVE  /\ Append(s, e) \in Seq(T)
         /\ Len(s) \in Nat
         /\ Len(Append(s, e)) = Len(s) + 1
         /\ \A i \in 1 .. Len(s) : Append(s, e)[i] = s[i] /\ s[i] \in T
         /\ Append(s, e)[Len(s) + 1] = e
OBVIOUS

LEMMA SeqOf ==
  ASSUME NEW T, NEW n \in Nat, NEW f \in [1 .. n -> T]
  PROVE  f \in Seq(T)
OBVIOUS

LEMMA ErasedFacts ==
  ASSUME NEW T, NEW s \in Seq(T), NEW n \in 1 .. Len(s)
  PROVE  /\ Erased(s, n) \in Seq(T)
         /\ Len(s) \in Nat /\ Len(Erased(s, n)) = Len(s) - 1
         /\ \A i \in 1 .. Len(s) - 1 :
              /\ i < n => Erased(s, n)[i] = s[i]
              /\ i >= n => Erased(s, n)[i] = s[i + 1]
<1>1. Len(s) \in Nat
  OBVIOUS
<1>2. \A i \in 1 .. Len(s) - 1 : s[IF i < n THEN i ELSE i + 1] \in T
  BY <1>1
<1>3. Erased(s, n) \in [1 .. Len(s) - 1 -> T]
  BY <1>2 DEF Erased
<1>4. Len(s) - 1 \in Nat
  BY <1>1
<1>5. Erased(s, n) \in Seq(T) /\ Len(Erased(s, n)) = Len(s) - 1
  BY <1>3, <1>4
<1> QED
  BY <1>1, <1>5 DEF Erased

LEMMA CountType ==
  ASSUME NEW n \in Nat, NEW sample \in [1 .. n -> Inputs], NEW cs
  PROVE  Count(sample, cs) \in Nat
<1>1. IsFiniteSet(1 .. n)
  BY FS_Interval
<1>2. { i \in DOMAIN sample : Satisfies(sample[i], cs) } \subseteq 1 .. n
  OBVIOUS
<1> QED
  BY <1>1, <1>2, FS_Subset, FS_CardinalityType DEF Count

LEMMA LeakTypeInit == PathLeakInit => LeakTypeOK
BY TypeInit DEF PathLeakInit, EstimateInit, LeakTypeOK, Phases

LEMMA LeakTypeNext == LeakTypeOK /\ [PathLeakNext]_pathLeakVars => LeakTypeOK'
<1> SUFFICES ASSUME LeakTypeOK, [PathLeakNext]_pathLeakVars PROVE LeakTypeOK'
  OBVIOUS
<1> USE DEF LeakTypeOK
<1>1. CASE FlagsChange
  <2>1. TypeOK'
    BY <1>1, TypeStep DEF FlagsChange, Next
  <2> QED
    BY <1>1, <2>1 DEF FlagsChange, SetFlags, AfterReplay
<1>2. ASSUME NEW j \in Jumps, RecordJump(j)
      PROVE  LeakTypeOK'
  <2>1. TypeOK'
    BY <1>2, TypeStep DEF RecordJump, Next
  <2>2. JumpConstraint(j) \in Constraint
    BY AddressAssumption DEF JumpConstraint, Constraint, Satisfying
  <2>3. constrains' \in Seq(Constraint)
    BY <1>2, <2>2, Appended DEF RecordJump
  <2> QED
    BY <1>2, <2>1, <2>3 DEF RecordJump, AfterReplay
<1>3. ASSUME NEW j \in Jumps, DropJump(j)
      PROVE  LeakTypeOK'
  <2>1. TypeOK'
    BY <1>3, TypeStep DEF DropJump, Next
  <2> QED
    BY <1>3, <2>1 DEF DropJump, AfterReplay
<1>4. CASE RecordOther
  <2>1. TypeOK'
    BY <1>4 DEF RecordOther, TypeOK, vars
  <2>2. constrains' \in Seq(Constraint)
    BY <1>4, OthersAssumption, Appended DEF RecordOther
  <2>3. alike' \subseteq Inputs
    BY <1>4 DEF RecordOther
  <2> QED
    BY <1>4, <2>1, <2>2, <2>3 DEF RecordOther, AfterReplay
<1>5. CASE ReplayEnds
  <2>1. (CHOOSE f \in FlagStates : TRUE) \in FlagStates
    <3>1. flags[KeyInput] \in FlagStates
      BY InputAssumption DEF TypeOK
    <3> QED
      BY <3>1
  <2>2. TypeOK'
    BY <1>5, <2>1 DEF ReplayEnds, TypeOK
  <2>3. sampleNum' \in Nat
    BY <1>5, SamplingAssumption DEF ReplayEnds
  <2> QED
    BY <1>5, <2>2, <2>3 DEF ReplayEnds, Phases
<1>6. CASE Estimate
  <2>0. TypeOK' /\ alike' \subseteq Inputs
    BY <1>6 DEF Estimate, TypeOK, vars
  <2>1. CASE ReduceOne
    <3>1. CASE constrains[at].symbolic
      BY <2>0, <2>1, <3>1 DEF ReduceOne
    <3>2. CASE ~ constrains[at].symbolic
      <4>1. constrains' = Erased(constrains, at) /\ at \in 1 .. Len(constrains)
        BY <2>1, <3>2 DEF ReduceOne
      <4>2. constrains' \in Seq(Constraint)
        BY <4>1, ErasedFacts
      <4> QED
        BY <2>0, <2>1, <3>2, <4>2 DEF ReduceOne
    <3> QED
      BY <3>1, <3>2
  <2>2. CASE ReduceEnds
    BY <2>0, <2>2 DEF ReduceEnds, Phases
  <2>3. CASE SplitOne
    <3> DEFINE c == constrains[at]
    <3>1. c \in Constraint
      BY <2>3 DEF SplitOne
    <3>2. CASE GroupsOf(c.addr) = {}
      <4>1. <<c>> \in Group
        BY <3>1 DEF Group
      <4>2. groups' = Append(groups, <<c>>)
        BY <2>3, <3>2 DEF SplitOne
      <4>3. groups' \in Seq(Group)
        BY <4>1, <4>2, Appended
      <4> QED
        BY <2>0, <2>3, <4>3 DEF SplitOne
    <3>3. CASE GroupsOf(c.addr) # {}
      <4>1. groups' = [i \in 1 .. Len(groups) |->
                         IF i \in GroupsOf(c.addr) THEN Append(groups[i], c) ELSE groups[i]]
        BY <2>3, <3>3 DEF SplitOne
      <4>2. ASSUME NEW i \in 1 .. Len(groups)
            PROVE  Append(groups[i], c) \in Group /\ groups[i] \in Group
        <5>1. groups[i] \in Group
          OBVIOUS
        <5>2. groups[i] \in Seq(Constraint) /\ Len(groups[i]) >= 1 /\ Len(groups[i]) \in Nat
          BY <5>1 DEF Group
        <5> HIDE DEF c
        <5>3. Append(groups[i], c) \in Seq(Constraint) /\ Len(Append(groups[i], c)) = Len(groups[i]) + 1
          BY <3>1, <5>2, Appended
        <5> QED
          BY <5>1, <5>2, <5>3 DEF Group
      <4>3. groups' \in [1 .. Len(groups) -> Group]
        BY <4>1, <4>2
      <4>4. groups' \in Seq(Group)
        <5>1. Len(groups) \in Nat
          OBVIOUS
        <5> HIDE DEF LeakTypeOK
        <5> QED
          BY <4>3, <5>1, SeqOf
      <4> QED
        BY <2>0, <2>3, <4>4 DEF SplitOne
    <3> QED
      BY <3>2, <3>3
  <2>4. CASE DrawTests
    <3>1. tests' \in Seq(Inputs) /\ phase' \in Phases
      BY <2>4 DEF DrawTests, RandomTests, Phases
    <3> QED
      BY <2>0, <2>4, <3>1 DEF DrawTests
  <2>5. CASE VerifyOne
    <3>1. CASE KeyInput \in constrains[at].holds
      BY <2>0, <2>5, <3>1 DEF VerifyOne
    <3>2. CASE KeyInput \notin constrains[at].holds
      <4>1. constrains' = Erased(constrains, at) /\ at \in 1 .. Len(constrains)
        BY <2>5, <3>2 DEF VerifyOne
      <4>2. constrains' \in Seq(Constraint)
        BY <4>1, ErasedFacts
      <4> QED
        BY <2>0, <2>5, <3>2, <4>2 DEF VerifyOne
    <3> QED
      BY <3>1, <3>2
  <2>6. CASE VerifyEnds
    BY <2>0, <2>6 DEF VerifyEnds, Phases
  <2>7. CASE Run
    <3>1. Count(tests, constrains) \in Nat
      <4>1. tests \in [1 .. Len(tests) -> Inputs] /\ Len(tests) \in Nat
        OBVIOUS
      <4> QED
        BY <4>1, CountType
    <3> QED
      BY <2>0, <2>7, <3>1 DEF Run, Phases
  <2>8. CASE SampleRound
    <3>1. PICK sample \in RandomTests(RoundSize) : hits' = hits + Count(sample, groups[at])
      BY <2>8 DEF SampleRound
    <3>2. Count(sample, groups[at]) \in Nat
      BY CountType, SamplingAssumption DEF RandomTests
    <3> QED
      BY <2>0, <2>8, <3>1, <3>2 DEF SampleRound
  <2>9. CASE EraseGroup
    <3>1. groups' = Erased(groups, at) /\ at \in 1 .. Len(groups)
      BY <2>9 DEF EraseGroup, GroupDone, InGroup
    <3>2. groups' \in Seq(Group)
      BY <3>1, ErasedFacts
    <3> QED
      BY <2>0, <2>9, <3>2 DEF EraseGroup, GroupDone
  <2>10. CASE KeepGroup
    <3>1. groups[at] \in Group
      BY <2>10 DEF KeepGroup, GroupDone, InGroup
    <3>2. groups[at][1] \in Constraint
      BY <3>1 DEF Group
    <3>3. groups[at][1].addr \in Addresses /\ groups[at][1].type \in {"CF", "DA"}
      BY <3>2 DEF Constraint
    <3>4. rounds * RoundSize \in Nat
      BY SamplingAssumption
    <3>5. [addr |-> groups[at][1].addr, num |-> hits, type |-> groups[at][1].type,
           total |-> Sampled] \in Result
      BY <3>3, <3>4 DEF Result, Sampled
    <3>6. results' \in Seq(Result)
      BY <2>10, <3>5, Appended DEF KeepGroup
    <3> QED
      BY <2>0, <2>10, <3>6 DEF KeepGroup, GroupDone
  <2>11. CASE Report
    BY <2>0, <2>11 DEF Report, Phases
  <2> QED
    BY <1>6, <2>1, <2>2, <2>3, <2>4, <2>5, <2>6, <2>7, <2>8, <2>9, <2>10, <2>11
       DEF Estimate, EstimateStep
<1>7. CASE Terminated \/ UNCHANGED pathLeakVars
  BY <1>7 DEF Terminated, pathLeakVars, estimateVars, vars, TypeOK
<1> QED
  BY <1>1, <1>2, <1>3, <1>4, <1>5, <1>6, <1>7 DEF PathLeakNext

-----------------------------------------------------------------------------
(* What the estimate counts.  The constraints that the trace's key         *)
(* satisfies hold, together, for the inputs that run like it: no step of   *)
(* either erase loop changes that, and the second leaves only those.       *)
Kept(cs) ==
  { x \in Inputs : \A i \in 1 .. Len(cs) : KeyInput \in cs[i].holds => x \in cs[i].holds }

Counting == phase \in {"groups", "done"}

RunsOK ==
  /\ same \cap alike \subseteq Kept(constrains)
  /\ ~ silent => Kept(constrains) = same \cap alike
  /\ phase = "verify" =>
       /\ at <= Len(constrains) + 1
       /\ \A i \in 1 .. at - 1 : KeyInput \in constrains[i].holds
  /\ phase = "run" \/ Counting => \A i \in 1 .. Len(constrains) : KeyInput \in constrains[i].holds
  /\ satisfied = IF Counting THEN Count(tests, constrains) ELSE 0

(* What the groups hold: all constraints of an address among those that    *)
(* have been split, in order, and every constraint split is in a group     *)
(* until groups are erased.                                                *)
Prefix == IF phase = "split" THEN at - 1 ELSE Len(given)

Addr(i) == groups[i][1].addr

SplitOK ==
  phase = "split" =>
    /\ constrains = given
    /\ at <= Len(given) + 1
    /\ \A m \in 1 .. at - 1 : \E i \in 1 .. Len(groups) : Addr(i) = given[m].addr

GatheredOK ==
  /\ \A i, j \in 1 .. Len(groups) : Addr(i) = Addr(j) => i = j
  /\ \A i \in 1 .. Len(groups) : Gathers(groups[i], given, Prefix, Addr(i))

InStep ==
  IF Counting
  THEN /\ Len(results) = at - 1
       /\ at <= Len(groups) + 1
       /\ \A i \in 1 .. Len(results) :
            results[i].addr = Addr(i) /\ results[i].type = groups[i][1].type
  ELSE results = <<>>

GroupsOK ==
  /\ phase \in {"replay", "reduce"} => groups = <<>>
  /\ SplitOK /\ GatheredOK /\ InStep

LEMMA KeptErased ==
  ASSUME NEW cs \in Seq(Constraint), NEW n \in 1 .. Len(cs),
         KeyInput \in cs[n].holds => cs[n].holds = Inputs
  PROVE  Kept(Erased(cs, n)) = Kept(cs)
<1>1. /\ Len(cs) \in Nat /\ Len(Erased(cs, n)) = Len(cs) - 1
      /\ \A i \in 1 .. Len(cs) - 1 :
           /\ i < n => Erased(cs, n)[i] = cs[i]
           /\ i >= n => Erased(cs, n)[i] = cs[i + 1]
  BY ErasedFacts
<1> DEFINE es == Erased(cs, n)
           In(x, c) == KeyInput \in c.holds => x \in c.holds
<1>2. ASSUME NEW x \in Inputs
      PROVE  (\A i \in 1 .. Len(es) : In(x, es[i])) <=> (\A i \in 1 .. Len(cs) : In(x, cs[i]))
  <2>0. In(x, cs[n])
    OBVIOUS
  <2> HIDE DEF es, In
  <2>1. ASSUME \A i \in 1 .. Len(es) : In(x, es[i]), NEW i \in 1 .. Len(cs)
        PROVE  In(x, cs[i])
    <3>1. CASE i < n
      BY <1>1, <2>1, <3>1 DEF es
    <3>2. CASE i > n
      <4>1. i - 1 \in 1 .. Len(es) /\ es[i - 1] = cs[i]
        BY <1>1, <3>2 DEF es
      <4> QED
        BY <2>1, <4>1
    <3> QED
      BY <1>1, <2>0, <3>1, <3>2
  <2>2. ASSUME \A i \in 1 .. Len(cs) : In(x, cs[i]), NEW i \in 1 .. Len(es)
        PROVE  In(x, es[i])
    <3>1. i \in 1 .. Len(cs) - 1 /\ (es[i] = cs[i] \/ es[i] = cs[i + 1])
      BY <1>1 DEF es
    <3> QED
      BY <1>1, <2>2, <3>1
  <2> QED
    BY <2>1, <2>2
<1>3. Kept(es) = { x \in Inputs : \A i \in 1 .. Len(es) : In(x, es[i]) }
  BY DEF Kept
<1>4. Kept(cs) = { x \in Inputs : \A i \in 1 .. Len(cs) : In(x, cs[i]) }
  BY DEF Kept
<1> HIDE DEF es, In
<1>5. Kept(es) = Kept(cs)
  BY <1>2, <1>3, <1>4
<1> QED
  BY <1>5 DEF es

LEMMA KeptAppended ==
  ASSUME NEW cs \in Seq(Constraint), NEW c \in Constraint
  PROVE  Kept(Append(cs, c)) =
           { x \in Kept(cs) : KeyInput \in c.holds => x \in c.holds }
<1> DEFINE es == Append(cs, c)
           In(x, d) == KeyInput \in d.holds => x \in d.holds
<1>1. /\ Len(cs) \in Nat /\ Len(es) = Len(cs) + 1 /\ es[Len(cs) + 1] = c
      /\ \A i \in 1 .. Len(cs) : es[i] = cs[i]
  BY Appended
<1>3. Kept(es) = { x \in Inputs : \A i \in 1 .. Len(es) : In(x, es[i]) }
  BY DEF Kept
<1>4. Kept(cs) = { x \in Inputs : \A i \in 1 .. Len(cs) : In(x, cs[i]) }
  BY DEF Kept
<1>5. { x \in Kept(cs) : KeyInput \in c.holds => x \in c.holds } = { x \in Kept(cs) : In(x, c) }
  OBVIOUS
<1> HIDE DEF es, In
<1>6. 1 .. Len(es) = 1 .. Len(cs) \cup {Len(cs) + 1}
  BY <1>1
<1>7. ASSUME NEW x
      PROVE  (\A i \in 1 .. Len(es) : In(x, es[i]))
               <=> (\A i \in 1 .. Len(cs) : In(x, cs[i])) /\ In(x, c)
  <2>1. (\A i \in 1 .. Len(es) : In(x, es[i]))
          <=> (\A i \in 1 .. Len(cs) : In(x, es[i])) /\ In(x, es[Len(cs) + 1])
    BY <1>6
  <2> QED
    BY <1>1, <2>1
<1>8. Kept(es) = { x \in Kept(cs) : In(x, c) }
  BY <1>3, <1>4, <1>7
<1> QED
  BY <1>5, <1>8 DEF es

LEMMA RunsInit == PathLeakInit => RunsOK
<1> SUFFICES ASSUME PathLeakInit PROVE RunsOK
  OBVIOUS
<1>1. constrains = <<>> /\ phase = "replay" /\ same = Inputs /\ alike = Inputs /\ satisfied = 0
  BY DEF PathLeakInit, Init, EstimateInit
<1>2. Len(constrains) = 0
  BY <1>1
<1>3. Kept(constrains) = Inputs
  BY <1>2 DEF Kept
<1> QED
  BY <1>1, <1>3 DEF RunsOK, Counting

(* A jump narrows what the recorded constraints keep as it narrows the     *)
(* runs, or not at all if it does not tell which way it went.              *)
LEMMA JumpKeeps ==
  ASSUME TypeOK, NEW j \in AllJumps \ {"JNG", "JCXZ"},
         NEW x \in Inputs, Taken(j, flags[x]) = Taken(j, flags[KeyInput])
  PROVE  j # "JP" /\ KeyInput \in Satisfying(j) => x \in Satisfying(j)
<1> SUFFICES ASSUME j # "JP", KeyInput \in Satisfying(j) PROVE x \in Satisfying(j)
  OBVIOUS
<1>1. KeyInput \in Inputs /\ flags[KeyInput] \in Flags /\ flags[x] \in Flags
  BY InputAssumption, FlagsAssumption DEF TypeOK
<1>2. CASE Untold(j, flags[KeyInput])
  <2>1. j = "JECXZ" /\ ~ flags[KeyInput].EcxZero
    BY <1>2 DEF Untold
  <2>2. FlagIs(flags[KeyInput].EcxZero, TRUE)
    BY <2>1 DEF Satisfying, Recorded
  <2> QED
    BY <2>1, <2>2 DEF FlagIs, Validates, Bit
<1>3. CASE ~ Untold(j, flags[KeyInput])
  BY <1>1, <1>3, RecordedIsDirection DEF Satisfying
<1> QED
  BY <1>2, <1>3

LEMMA KeySatisfiesOwn ==
  ASSUME TypeOK, NEW j \in AllJumps \ {"JNG"}, ~ Untold(j, flags[KeyInput])
  PROVE  /\ KeyInput \in Satisfying(j)
         /\ \A x \in Inputs :
              x \in Satisfying(j) <=> (Taken(j, flags[x]) = Taken(j, flags[KeyInput]))
<1>1. KeyInput \in Inputs /\ flags \in [Inputs -> Flags]
  BY InputAssumption, FlagsAssumption DEF TypeOK
<1>2. ASSUME NEW x \in Inputs
      PROVE  x \in Satisfying(j) <=> (Taken(j, flags[x]) = Taken(j, flags[KeyInput]))
  BY <1>1, RecordedIsDirection DEF Satisfying
<1> QED
  BY <1>1, <1>2

LEMMA RunsNext ==
  ASSUME Jumps \subseteq AllJumps \ {"JNG", "JCXZ"},
         LeakTypeOK, RunsOK, [PathLeakNext]_pathLeakVars
  PROVE  RunsOK'
<1>0. TypeOK /\ constrains \in Seq(Constraint) /\ Len(constrains) \in Nat /\ at \in Nat \ {0}
  BY DEF LeakTypeOK
<1>1. CASE FlagsChange
  BY <1>1 DEF FlagsChange, SetFlags, AfterReplay, RunsOK, Counting, Kept
<1>2. ASSUME NEW j \in Jumps, RecordJump(j)
      PROVE  RunsOK'
  <2> DEFINE c == JumpConstraint(j)
  <2>0. j \in AllJumps \ {"JNG", "JCXZ"} /\ j # "JP"
    BY <1>2 DEF RecordJump
  <2>1. c \in Constraint /\ c.holds = Satisfying(j)
    BY AddressAssumption DEF JumpConstraint, Constraint, Satisfying
  <2>2. constrains' = Append(constrains, c) /\ alike' = alike /\ phase = "replay" /\ phase' = "replay"
        /\ satisfied' = satisfied
    BY <1>2 DEF RecordJump, AfterReplay
  <2>3. same' = { x \in same : Taken(j, flags[x]) = Taken(j, flags[KeyInput]) }
        /\ silent' = (silent \/ Untold(j, flags[KeyInput]))
    BY <1>2 DEF RecordJump, Jump
  <2>4. Kept(constrains') = { x \in Kept(constrains) : KeyInput \in Satisfying(j) => x \in Satisfying(j) }
    BY <1>0, <2>1, <2>2, KeptAppended
  <2>5. same' \cap alike' \subseteq Kept(constrains')
    <3> SUFFICES ASSUME NEW x \in same', x \in alike'
                 PROVE  x \in Kept(constrains')
      OBVIOUS
    <3>1. x \in Inputs /\ x \in Kept(constrains) /\ Taken(j, flags[x]) = Taken(j, flags[KeyInput])
      BY <1>0, <2>2, <2>3 DEF TypeOK, RunsOK
    <3> QED
      BY <1>0, <2>0, <2>4, <3>1, JumpKeeps
  <2>6. ASSUME ~ silent'
        PROVE  Kept(constrains') = same' \cap alike'
    <3>1. ~ silent /\ ~ Untold(j, flags[KeyInput])
      BY <2>3, <2>6
    <3>2. Kept(constrains) = same \cap alike
      BY <3>1 DEF RunsOK
    <3>3. /\ KeyInput \in Satisfying(j)
          /\ \A x \in Inputs :
               x \in Satisfying(j) <=> (Taken(j, flags[x]) = Taken(j, flags[KeyInput]))
      BY <1>0, <2>0, <3>1, KeySatisfiesOwn
    <3>4. same \subseteq Inputs
      BY <1>0 DEF TypeOK
    <3> QED
      BY <2>2, <2>3, <2>4, <3>2, <3>3, <3>4
  <2> QED
    BY <2>2, <2>5, <2>6 DEF RunsOK, Counting
<1>3. ASSUME NEW j \in Jumps, DropJump(j)
      PROVE  RunsOK'
  <2>1. constrains' = constrains /\ alike' = alike /\ phase = "replay" /\ phase' = "replay"
        /\ satisfied' = satisfied /\ Satisfying(j) \in {{}, Inputs}
    BY <1>3 DEF DropJump, AfterReplay
  <2>2. same' = { x \in same : Taken(j, flags[x]) = Taken(j, flags[KeyInput]) }
        /\ silent' = (silent \/ Untold(j, flags[KeyInput]))
    BY <1>3 DEF DropJump, Jump
  <2>3. ASSUME ~ silent' PROVE ~ silent /\ same' = same
    <3>1. ~ silent /\ ~ Untold(j, flags[KeyInput]) /\ j \in AllJumps \ {"JNG"}
      BY <2>2, <2>3
    <3>2. /\ KeyInput \in Satisfying(j)
          /\ \A x \in Inputs :
               x \in Satisfying(j) <=> (Taken(j, flags[x]) = Taken(j, flags[KeyInput]))
      BY <1>0, <3>1, KeySatisfiesOwn
    <3>3. same \subseteq Inputs
      BY <1>0 DEF TypeOK
    <3> QED
      BY <2>1, <2>2, <3>1, <3>2, <3>3
  <2>4. same' \cap alike' \subseteq Kept(constrains')
    BY <2>1, <2>2 DEF RunsOK
  <2> QED
    BY <2>1, <2>3, <2>4 DEF RunsOK, Counting
<1>4. CASE RecordOther
  <2>1. PICK c \in Others :
          /\ constrains' = Append(constrains, c)
          /\ alike' = IF KeyInput \in c.holds THEN alike \cap c.holds ELSE alike
    BY <1>4 DEF RecordOther
  <2>2. c \in Constraint
    BY OthersAssumption
  <2>3. Kept(constrains') = { x \in Kept(constrains) : KeyInput \in c.holds => x \in c.holds }
    BY <1>0, <2>1, <2>2, KeptAppended
  <2>4. same' = same /\ silent' = silent /\ phase = "replay" /\ phase' = phase /\ satisfied' = satisfied
    BY <1>4 DEF RecordOther, AfterReplay, vars
  <2>5. same' \cap alike' \subseteq Kept(constrains')
    BY <2>1, <2>3, <2>4 DEF RunsOK
  <2>6. ~ silent' => Kept(constrains') = same' \cap alike'
    BY <2>1, <2>3, <2>4 DEF RunsOK
  <2> QED
    BY <2>4, <2>5, <2>6 DEF RunsOK, Counting
<1>5. CASE ReplayEnds
  BY <1>5 DEF ReplayEnds, RunsOK, Counting
<1>6. CASE Estimate
  <2>0. same' = same /\ silent' = silent /\ alike' = alike
    BY <1>6 DEF Estimate, vars
  <2>1. CASE ReduceOne
    <3>1. CASE constrains[at].symbolic
      BY <2>0, <2>1, <3>1 DEF ReduceOne, RunsOK, Counting
    <3>2. CASE ~ constrains[at].symbolic
      <4>1. constrains' = Erased(constrains, at) /\ at \in 1 .. Len(constrains)
        BY <1>0, <2>1, <3>2 DEF ReduceOne
      <4>2. constrains[at] \in Constraint
        BY <1>0, <4>1
      <4>3. KeyInput \in constrains[at].holds => constrains[at].holds = Inputs
        BY <3>2, <4>2 DEF Constraint
      <4>4. Kept(constrains') = Kept(constrains)
        BY <1>0, <4>1, <4>3, KeptErased
      <4> QED
        BY <2>0, <2>1, <4>4 DEF ReduceOne, RunsOK, Counting
    <3> QED
      BY <3>1, <3>2
  <2>2. CASE ReduceEnds
    BY <2>0, <2>2 DEF ReduceEnds, RunsOK, Counting
  <2>3. CASE SplitOne
    BY <2>0, <2>3 DEF SplitOne, RunsOK, Counting
  <2>4. CASE DrawTests
    <3>1. (phase = "verify" =>
             /\ at <= Len(constrains) + 1
             /\ \A i \in 1 .. at - 1 : KeyInput \in constrains[i].holds)'
      <4>1. at' = 1 /\ constrains' = constrains
        BY <2>4 DEF DrawTests
      <4> QED
        BY <1>0, <4>1
    <3> QED
      BY <2>0, <2>4, <3>1 DEF DrawTests, RunsOK, Counting
  <2>5. CASE VerifyOne
    <3>1. CASE KeyInput \in constrains[at].holds
      <4>1. at' = at + 1 /\ constrains' = constrains /\ phase' = "verify" /\ phase = "verify"
            /\ at <= Len(constrains) /\ satisfied' = satisfied
        BY <2>5, <3>1 DEF VerifyOne
      <4>2. \A i \in 1 .. at' - 1 : KeyInput \in constrains[i].holds
        BY <1>0, <3>1, <4>1 DEF RunsOK
      <4>3. at' <= Len(constrains) + 1
        BY <1>0, <4>1
      <4> QED
        BY <2>0, <4>1, <4>2, <4>3 DEF RunsOK, Counting
    <3>2. CASE KeyInput \notin constrains[at].holds
      <4>1. constrains' = Erased(constrains, at) /\ at \in 1 .. Len(constrains) /\ at' = at
            /\ phase' = "verify" /\ phase = "verify" /\ satisfied' = satisfied
        BY <1>0, <2>5, <3>2 DEF VerifyOne
      <4>2. Kept(constrains') = Kept(constrains)
        BY <1>0, <3>2, <4>1, KeptErased
      <4>3. /\ Len(constrains') = Len(constrains) - 1
            /\ \A i \in 1 .. Len(constrains) - 1 : i < at => constrains'[i] = constrains[i]
        BY <1>0, <4>1, ErasedFacts
      <4>4. \A i \in 1 .. at - 1 : KeyInput \in constrains'[i].holds
        <5> TAKE i \in 1 .. at - 1
        <5>1. i \in 1 .. Len(constrains) - 1 /\ i < at
          BY <1>0, <4>1
        <5> QED
          BY <4>1, <4>3, <5>1 DEF RunsOK
      <4>5. at <= Len(constrains') + 1
        BY <1>0, <4>1, <4>3
      <4> QED
        BY <2>0, <4>1, <4>2, <4>4, <4>5 DEF RunsOK, Counting
    <3> QED
      BY <3>1, <3>2
  <2>6. CASE VerifyEnds
    <3>1. \A i \in 1 .. Len(constrains) : KeyInput \in constrains[i].holds
      BY <1>0, <2>6 DEF VerifyEnds, RunsOK
    <3> QED
      BY <2>0, <2>6, <3>1 DEF VerifyEnds, RunsOK, Counting
  <2>7. CASE Run
    <3>1. satisfied = 0
      BY <2>7 DEF Run, RunsOK, Counting
    <3>2. Count(tests, constrains) \in Nat
      <4>1. tests \in [1 .. Len(tests) -> Inputs] /\ Len(tests) \in Nat
        BY DEF LeakTypeOK
      <4> QED
        BY <4>1, CountType
    <3>3. satisfied' = Count(tests, constrains) /\ tests' = tests /\ constrains' = constrains
      BY <2>7, <3>1, <3>2 DEF Run
    <3> QED
      BY <2>0, <2>7, <3>3 DEF Run, RunsOK, Counting
  <2>8. CASE SampleRound
    BY <2>0, <2>8 DEF SampleRound, RunsOK, Counting
  <2>9. CASE EraseGroup
    BY <2>0, <2>9 DEF EraseGroup, RunsOK, Counting, GroupDone, InGroup
  <2>10. CASE KeepGroup
    BY <2>0, <2>10 DEF KeepGroup, RunsOK, Counting, GroupDone, InGroup
  <2>11. CASE Report
    BY <2>0, <2>11 DEF Report, RunsOK, Counting
  <2> QED
    BY <1>6, <2>1, <2>2, <2>3, <2>4, <2>5, <2>6, <2>7, <2>8, <2>9, <2>10, <2>11
       DEF Estimate, EstimateStep
<1>7. CASE Terminated \/ UNCHANGED pathLeakVars
  BY <1>7 DEF Terminated, pathLeakVars, estimateVars, vars, RunsOK, Counting, Kept
<1> QED
  BY <1>1, <1>2, <1>3, <1>4, <1>5, <1>6, <1>7 DEF PathLeakNext

(* While every jump told which way it went, the share of random inputs     *)
(* that is reported is that of the inputs that run like the trace's key;   *)
(* where one did not, it is no smaller.  For every program without JNG,    *)
(* which records a wrong direction, and JCXZ, which records the carry.     *)
THEOREM SameRunsCounted ==
  ASSUME Jumps \subseteq AllJumps \ {"JNG", "JCXZ"}
  PROVE  PathLeakSpec => []CountsSameRuns
<1>1. LeakTypeOK /\ RunsOK => CountsSameRuns
  <2> SUFFICES ASSUME LeakTypeOK, RunsOK, Counting
               PROVE  LET alikeTests == { i \in DOMAIN tests : tests[i] \in same \cap alike }
                      IN  /\ Cardinality(alikeTests) <= satisfied
                          /\ ~ silent => satisfied = Cardinality(alikeTests)
    BY DEF CountsSameRuns, Counting
  <2> DEFINE alikeTests == { i \in DOMAIN tests : tests[i] \in same \cap alike }
             counted == { i \in DOMAIN tests : Satisfies(tests[i], constrains) }
  <2>1. DOMAIN tests = 1 .. Len(tests) /\ Len(tests) \in Nat
        /\ \A i \in DOMAIN tests : tests[i] \in Inputs
    BY DEF LeakTypeOK
  <2>2. counted = { i \in DOMAIN tests : tests[i] \in Kept(constrains) }
    <3>1. \A i \in 1 .. Len(constrains) : KeyInput \in constrains[i].holds
      BY DEF RunsOK
    <3>2. \A x \in Inputs : Satisfies(x, constrains) <=> x \in Kept(constrains)
      BY <3>1 DEF Satisfies, Kept
    <3> QED
      BY <2>1, <3>2
  <2>3. satisfied = Cardinality(counted)
    BY DEF RunsOK, Count
  <2>4. IsFiniteSet(counted)
    <3>1. IsFiniteSet(1 .. Len(tests))
      BY <2>1, FS_Interval
    <3>2. counted \subseteq 1 .. Len(tests)
      BY <2>1
    <3> QED
      BY <3>1, <3>2, FS_Subset
  <2>5. alikeTests \subseteq counted
    BY <2>2 DEF RunsOK
  <2>6. ~ silent => alikeTests = counted
    BY <2>2 DEF RunsOK
  <2> HIDE DEF counted, alikeTests
  <2>7. Cardinality(alikeTests) <= Cardinality(counted)
    BY <2>4, <2>5, FS_Subset
  <2>8. Cardinality(alikeTests) <= satisfied /\ (~ silent => satisfied = Cardinality(alikeTests))
    BY <2>3, <2>6, <2>7
  <2> QED
    BY <2>8 DEF alikeTests
<1>2. LeakTypeOK /\ RunsOK /\ [PathLeakNext]_pathLeakVars => RunsOK'
  BY RunsNext
<1> QED
  BY <1>1, <1>2, LeakTypeInit, LeakTypeNext, RunsInit, PTL DEF PathLeakSpec

-----------------------------------------------------------------------------
LEMMA GroupFacts ==
  ASSUME LeakTypeOK
  PROVE  /\ Len(groups) \in Nat /\ Len(given) \in Nat /\ Len(results) \in Nat /\ at \in Nat \ {0}
         /\ \A i \in 1 .. Len(groups) :
              groups[i] \in Seq(Constraint) /\ Len(groups[i]) \in Nat /\ Len(groups[i]) >= 1
BY DEF LeakTypeOK, Group

(* A group by itself gathers the only constraint of its address.           *)
LEMMA GathersFirst ==
  ASSUME NEW cs, NEW n \in Nat \ {0}, \A m \in 1 .. n - 1 : cs[m].addr # cs[n].addr
  PROVE  Gathers(<<cs[n]>>, cs, n, cs[n].addr)
<1> DEFINE g == <<cs[n]>>
           place == [k \in 1 .. 1 |-> n]
<1>1. Len(g) = 1 /\ g[1] = cs[n]
  OBVIOUS
<1> HIDE DEF g
<1>2. place \in [1 .. Len(g) -> 1 .. n] /\ place[1] = n
  BY <1>1
<1> HIDE DEF place
<1>3. \A k, l \in 1 .. Len(g) : k < l => place[k] < place[l]
  BY <1>1
<1>4. \A k \in 1 .. Len(g) : g[k] = cs[place[k]]
  BY <1>1, <1>2
<1>5. \A m \in 1 .. n : cs[m].addr = cs[n].addr <=> \E k \in 1 .. Len(g) : place[k] = m
  BY <1>1, <1>2
<1> QED
  BY <1>2, <1>3, <1>4, <1>5 DEF Gathers, g

(* A group of the address of the next constraint takes it, another one     *)
(* does without it.                                                        *)
LEMMA GathersNext ==
  ASSUME NEW cs \in Seq(Constraint), NEW n \in Nat \ {0}, n <= Len(cs), NEW g \in Seq(Constraint),
         NEW a, Gathers(g, cs, n - 1, a)
  PROVE  /\ cs[n].addr = a => Gathers(Append(g, cs[n]), cs, n, a)
         /\ cs[n].addr # a => Gathers(g, cs, n, a)
<1> DEFINE h == Append(g, cs[n])
<1>0. Len(g) \in Nat /\ cs[n] \in Constraint /\ Len(cs) \in Nat
  OBVIOUS
<1>1. /\ Len(h) = Len(g) + 1 /\ h[Len(g) + 1] = cs[n]
      /\ \A k \in 1 .. Len(g) : h[k] = g[k]
  BY <1>0, Appended
<1>2. PICK place \in [1 .. Len(g) -> 1 .. n - 1] :
        /\ \A k, l \in 1 .. Len(g) : k < l => place[k] < place[l]
        /\ \A k \in 1 .. Len(g) : g[k] = cs[place[k]]
        /\ \A m \in 1 .. n - 1 : cs[m].addr = a <=> \E k \in 1 .. Len(g) : place[k] = m
  BY DEF Gathers
<1>3. \A k \in 1 .. Len(g) : place[k] \in 1 .. n - 1
  BY <1>2
<1>4. ASSUME cs[n].addr = a
      PROVE  Gathers(h, cs, n, a)
  <2> DEFINE p == [k \in 1 .. Len(h) |-> IF k <= Len(g) THEN place[k] ELSE n]
  <2>1. /\ p \in [1 .. Len(h) -> 1 .. n] /\ p[Len(g) + 1] = n
        /\ \A k \in 1 .. Len(g) : p[k] = place[k]
    BY <1>0, <1>1, <1>3
  <2>2. 1 .. Len(h) = 1 .. Len(g) \cup {Len(g) + 1}
    BY <1>0, <1>1
  <2> HIDE DEF h, p
  <2>3. ASSUME NEW k \in 1 .. Len(h), NEW l \in 1 .. Len(h), k < l
        PROVE  p[k] < p[l]
    <3>1. k \in 1 .. Len(g)
      BY <1>0, <1>1, <2>3
    <3>2. CASE l \in 1 .. Len(g)
      BY <1>2, <2>1, <2>3, <3>1, <3>2
    <3>3. CASE l = Len(g) + 1
      BY <1>3, <2>1, <3>1, <3>3
    <3> QED
      BY <2>2, <3>2, <3>3
  <2>4. ASSUME NEW k \in 1 .. Len(h) PROVE h[k] = cs[p[k]]
    BY <1>1, <1>2, <2>1, <2>2
  <2>5. ASSUME NEW m \in 1 .. n
        PROVE  cs[m].addr = a <=> \E k \in 1 .. Len(h) : p[k] = m
    <3>1. CASE m = n
      BY <1>4, <2>1, <2>2, <3>1
    <3>2. CASE m # n
      <4>1. m \in 1 .. n - 1
        BY <3>2
      <4>2. (\E k \in 1 .. Len(h) : p[k] = m) <=> \E k \in 1 .. Len(g) : place[k] = m
        BY <2>1, <2>2, <3>2
      <4> QED
        BY <1>2, <4>1, <4>2
    <3> QED
      BY <3>1, <3>2
  <2> QED
    BY <2>1, <2>3, <2>4, <2>5 DEF Gathers
<1>5. ASSUME cs[n].addr # a
      PROVE  Gathers(g, cs, n, a)
  <2>1. place \in [1 .. Len(g) -> 1 .. n]
    BY <1>2
  <2>2. ASSUME NEW m \in 1 .. n
        PROVE  cs[m].addr = a <=> \E k \in 1 .. Len(g) : place[k] = m
    <3>1. CASE m = n
      BY <1>3, <1>5, <3>1
    <3>2. CASE m # n
      <4>1. m \in 1 .. n - 1
        BY <3>2
      <4> QED
        BY <1>2, <4>1
    <3> QED
      BY <3>1, <3>2
  <2> QED
    BY <1>2, <2>1, <2>2 DEF Gathers
<1> QED
  BY <1>4, <1>5

LEMMA GroupsInit == PathLeakInit => GroupsOK
<1> SUFFICES ASSUME PathLeakInit PROVE GroupsOK
  OBVIOUS
<1>1. groups = <<>> /\ results = <<>> /\ phase = "replay" /\ Len(groups) = 0
  BY DEF PathLeakInit, EstimateInit
<1> QED
  BY <1>1 DEF GroupsOK, SplitOK, GatheredOK, InStep, Counting

(* A step before the counting that leaves the groups alone.                *)
LEMMA GroupsAlone ==
  ASSUME GroupsOK, UNCHANGED <<groups, results>>,
         ~ Counting, ~ Counting', phase' # "split",
         phase' \in {"replay", "reduce"} => phase \in {"replay", "reduce"},
         \/ given' = given /\ Prefix' = Prefix
         \/ phase \in {"replay", "reduce"}
  PROVE  GroupsOK'
<1>1. SplitOK'
  BY DEF SplitOK
<1>2. InStep'
  BY DEF GroupsOK, InStep
<1>3. GatheredOK'
  <2>1. CASE given' = given /\ Prefix' = Prefix
    BY <2>1 DEF GroupsOK, GatheredOK, Addr
  <2>2. CASE phase \in {"replay", "reduce"}
    <3>1. groups = <<>> /\ groups' = <<>> /\ Len(groups') = 0
      BY <2>2 DEF GroupsOK
    <3> QED
      BY <3>1 DEF GatheredOK
  <2> QED
    BY <2>1, <2>2
<1>4. phase' \in {"replay", "reduce"} => groups' = <<>>
  BY DEF GroupsOK
<1> QED
  BY <1>1, <1>2, <1>3, <1>4 DEF GroupsOK

LEMMA SplitOneKeeps ==
  ASSUME LeakTypeOK, GroupsOK, SplitOne
  PROVE  GroupsOK'
<1> DEFINE c == constrains[at]
<1>1. /\ phase = "split" /\ phase' = "split" /\ at' = at + 1 /\ given' = given /\ results' = results
      /\ constrains' = constrains /\ constrains = given /\ c = given[at]
      /\ at \in 1 .. Len(given) /\ c \in Constraint /\ given \in Seq(Constraint)
      /\ results = <<>>
  BY DEF SplitOne, LeakTypeOK, GroupsOK, SplitOK, InStep, Counting
<1>2. /\ \A m \in 1 .. at - 1 : \E i \in 1 .. Len(groups) : Addr(i) = given[m].addr
      /\ \A i, j \in 1 .. Len(groups) : Addr(i) = Addr(j) => i = j
      /\ \A i \in 1 .. Len(groups) : Gathers(groups[i], given, at - 1, Addr(i))
  BY <1>1 DEF GroupsOK, SplitOK, GatheredOK, Prefix
<1>3. Prefix' = at
  BY <1>1, GroupFacts DEF Prefix
<1>4. /\ Len(groups) \in Nat
      /\ \A i \in 1 .. Len(groups) :
           groups[i] \in Seq(Constraint) /\ Len(groups[i]) \in Nat /\ Len(groups[i]) >= 1
  BY GroupFacts
<1>5. SUFFICES /\ \A m \in 1 .. at : \E i \in 1 .. Len(groups') : Addr(i)' = given[m].addr
               /\ \A i, j \in 1 .. Len(groups') : Addr(i)' = Addr(j)' => i = j
               /\ \A i \in 1 .. Len(groups') : Gathers(groups'[i], given, at, Addr(i)')
  <2>1. SplitOK'
    <3>1. at' <= Len(given') + 1 /\ at' - 1 = at
      BY <1>1, GroupFacts
    <3> QED
      BY <1>1, <1>5, <3>1 DEF SplitOK, Addr
  <2>2. GatheredOK'
    BY <1>1, <1>3, <1>5 DEF GatheredOK, Addr
  <2>3. InStep'
    BY <1>1 DEF InStep, Counting
  <2> QED
    BY <1>1, <2>1, <2>2, <2>3 DEF GroupsOK
<1>6. CASE GroupsOf(c.addr) = {}
  <2>0. PICK n \in Nat : n = Len(groups) + 1
    BY <1>4
  <2>1. groups' = Append(groups, <<c>>) /\ <<c>> \in Group
    BY <1>1, <1>6 DEF SplitOne, Group
  <2>2. /\ Len(groups') = n /\ groups'[n] = <<c>> /\ groups'[n][1] = c
        /\ \A i \in 1 .. Len(groups) : groups'[i] = groups[i]
    <3>1. groups \in Seq(Group)
      BY DEF LeakTypeOK
    <3>2. Len(groups') = n /\ groups'[n] = <<c>> /\ \A i \in 1 .. Len(groups) : groups'[i] = groups[i]
      BY <2>0, <2>1, <3>1, Appended
    <3>3. <<c>>[1] = c
      OBVIOUS
    <3> QED
      BY <3>2, <3>3
  <2>3. \A i \in 1 .. Len(groups) : Addr(i) # c.addr
    BY <1>6 DEF GroupsOf, Addr
  <2>4. \A m \in 1 .. at - 1 : given[m].addr # given[at].addr
    BY <1>1, <1>2, <2>3
  <2>5. Gathers(<<c>>, given, at, c.addr)
    BY <1>1, <2>4, GathersFirst
  <2>6. 1 .. Len(groups') = 1 .. Len(groups) \cup {n}
    BY <1>4, <2>0, <2>2
  <2>7. /\ \A i \in 1 .. Len(groups) : Addr(i)' = Addr(i)
        /\ Addr(n)' = c.addr
    BY <2>2 DEF Addr
  <2> HIDE DEF c
  <2>8. ASSUME NEW m \in 1 .. at
        PROVE  \E i \in 1 .. Len(groups') : Addr(i)' = given[m].addr
    <3>1. CASE m = at
      BY <1>1, <2>6, <2>7, <3>1
    <3>2. CASE m # at
      <4>1. m \in 1 .. at - 1
        BY <1>1, <3>2
      <4> QED
        BY <1>2, <2>6, <2>7, <4>1
    <3> QED
      BY <3>1, <3>2
  <2>9. ASSUME NEW i \in 1 .. Len(groups'), NEW j \in 1 .. Len(groups'), Addr(i)' = Addr(j)'
        PROVE  i = j
    BY <1>2, <2>3, <2>6, <2>7, <2>9
  <2>10. ASSUME NEW i \in 1 .. Len(groups')
         PROVE  Gathers(groups'[i], given, at, Addr(i)')
    <3>1. CASE i = n
      BY <2>2, <2>5, <2>7, <3>1
    <3>2. CASE i \in 1 .. Len(groups)
      <4>1. Gathers(groups[i], given, at - 1, Addr(i)) /\ given[at].addr # Addr(i)
        BY <1>1, <1>2, <2>3, <3>2
      <4>2. Gathers(groups[i], given, at, Addr(i))
        BY <1>1, <1>4, <3>2, <4>1, GathersNext
      <4> QED
        BY <2>2, <2>7, <3>2, <4>2
    <3> QED
      BY <2>6, <3>1, <3>2
  <2> QED
    BY <2>8, <2>9, <2>10
<1>7. CASE GroupsOf(c.addr) # {}
  <2>1. groups' = [i \in 1 .. Len(groups) |->
                     IF i \in GroupsOf(c.addr) THEN Append(groups[i], c) ELSE groups[i]]
    BY <1>7 DEF SplitOne
  <2>2. /\ Len(groups') = Len(groups)
        /\ \A i \in 1 .. Len(groups) :
             /\ Addr(i) = c.addr => groups'[i] = Append(groups[i], c)
             /\ Addr(i) # c.addr => groups'[i] = groups[i]
    <3>1. \A i \in 1 .. Len(groups) : i \in GroupsOf(c.addr) <=> Addr(i) = c.addr
      BY DEF GroupsOf, Addr
    <3>2. Len(groups') = Len(groups)
      BY <1>4, <2>1
    <3> HIDE DEF c
    <3> QED
      BY <2>1, <3>1, <3>2
  <2>3. \A i \in 1 .. Len(groups) : Addr(i)' = Addr(i)
    <3> TAKE i \in 1 .. Len(groups)
    <3>1. groups[i] \in Seq(Constraint) /\ Len(groups[i]) >= 1 /\ 1 \in 1 .. Len(groups[i])
      BY <1>4
    <3> HIDE DEF c
    <3>2. Append(groups[i], c)[1] = groups[i][1]
      BY <1>1, <3>1, Appended
    <3> QED
      BY <2>2, <3>2 DEF Addr
  <2>4. PICK i0 \in 1 .. Len(groups) : Addr(i0) = c.addr
    BY <1>7 DEF GroupsOf, Addr
  <2> HIDE DEF c
  <2>5. ASSUME NEW m \in 1 .. at
        PROVE  \E i \in 1 .. Len(groups') : Addr(i)' = given[m].addr
    <3>1. CASE m = at
      BY <1>1, <2>2, <2>3, <2>4, <3>1
    <3>2. CASE m # at
      <4>1. m \in 1 .. at - 1
        BY <1>1, <3>2
      <4> QED
        BY <1>2, <2>2, <2>3, <4>1
    <3> QED
      BY <3>1, <3>2
  <2>6. ASSUME NEW i \in 1 .. Len(groups'), NEW j \in 1 .. Len(groups'), Addr(i)' = Addr(j)'
        PROVE  i = j
    BY <1>2, <2>2, <2>3, <2>6, SMTT(20)
  <2>7. ASSUME NEW i \in 1 .. Len(groups')
        PROVE  Gathers(groups'[i], given, at, Addr(i)')
    <3>1. i \in 1 .. Len(groups) /\ Gathers(groups[i], given, at - 1, Addr(i))
          /\ groups[i] \in Seq(Constraint)
      BY <1>2, <1>4, <2>2
    <3>2. /\ given[at].addr = Addr(i) => Gathers(Append(groups[i], given[at]), given, at, Addr(i))
          /\ given[at].addr # Addr(i) => Gathers(groups[i], given, at, Addr(i))
      BY <1>1, <3>1, GathersNext
    <3> QED
      BY <1>1, <2>2, <2>3, <3>1, <3>2
  <2> QED
    BY <2>5, <2>6, <2>7
<1> QED
  BY <1>6, <1>7

LEMMA EraseGroupKeeps ==
  ASSUME LeakTypeOK, GroupsOK, EraseGroup
  PROVE  GroupsOK'
<1>1. /\ Counting /\ Counting' /\ phase' = "groups" /\ phase = "groups" /\ at' = at
      /\ given' = given /\ results' = results /\ at \in 1 .. Len(groups)
      /\ groups' = Erased(groups, at)
      /\ Prefix' = Prefix
  BY GroupFacts DEF EraseGroup, GroupDone, InGroup, Counting, Prefix
<1>2. /\ Len(groups) \in Nat /\ Len(groups') = Len(groups) - 1
      /\ \A i \in 1 .. Len(groups) - 1 :
           /\ i < at => groups'[i] = groups[i]
           /\ i >= at => groups'[i] = groups[i + 1]
  BY <1>1, ErasedFacts DEF LeakTypeOK
<1> DEFINE Old(i) == IF i < at THEN i ELSE i + 1
<1>3. \A i \in 1 .. Len(groups') : Old(i) \in 1 .. Len(groups) /\ groups'[i] = groups[Old(i)]
  BY <1>1, <1>2
<1>4. \A i \in 1 .. Len(groups') : Addr(i)' = Addr(Old(i))
  BY <1>3 DEF Addr
<1>5. \A i, j \in 1 .. Len(groups') : Old(i) = Old(j) => i = j
  BY <1>1, <1>2
<1>6. /\ \A i, j \in 1 .. Len(groups) : Addr(i) = Addr(j) => i = j
      /\ \A i \in 1 .. Len(groups) : Gathers(groups[i], given, Prefix, Addr(i))
  BY DEF GroupsOK, GatheredOK
<1>7. GatheredOK'
  <2> HIDE DEF Old
  <2>1. ASSUME NEW i \in 1 .. Len(groups'), NEW j \in 1 .. Len(groups'), Addr(i)' = Addr(j)'
        PROVE  i = j
    BY <1>3, <1>4, <1>5, <1>6, <2>1
  <2>2. ASSUME NEW i \in 1 .. Len(groups')
        PROVE  Gathers(groups'[i], given', Prefix', Addr(i)')
    BY <1>1, <1>3, <1>4, <1>6
  <2> QED
    BY <2>1, <2>2 DEF GatheredOK, Addr
<1>8. InStep'
  <2>1. /\ Len(results) = at - 1 /\ Len(results) \in Nat
        /\ \A i \in 1 .. Len(results) :
             results[i].addr = Addr(i) /\ results[i].type = groups[i][1].type
    BY <1>1, GroupFacts DEF GroupsOK, InStep
  <2>2. \A i \in 1 .. Len(results) : groups'[i] = groups[i]
    BY <1>1, <1>2, <2>1
  <2>3. at <= Len(groups') + 1
    BY <1>1, <1>2
  <2> QED
    BY <1>1, <2>1, <2>2, <2>3 DEF InStep, Counting, Addr
<1> QED
  BY <1>1, <1>7, <1>8 DEF GroupsOK, SplitOK

LEMMA KeepGroupKeeps ==
  ASSUME LeakTypeOK, LeakTypeOK', GroupsOK, KeepGroup
  PROVE  GroupsOK'
<1>1. /\ Counting /\ Counting' /\ phase' = "groups" /\ phase = "groups" /\ at' = at + 1
      /\ given' = given /\ groups' = groups /\ at \in 1 .. Len(groups)
      /\ Prefix' = Prefix
  BY GroupFacts DEF KeepGroup, GroupDone, InGroup, Counting, Prefix
<1>2. PICK r : results' = Append(results, r) /\ r.addr = Addr(at) /\ r.type = groups[at][1].type
  BY DEF KeepGroup, Addr
<1>3. /\ Len(results) = at - 1 /\ Len(results) \in Nat
      /\ \A i \in 1 .. Len(results) :
           results[i].addr = Addr(i) /\ results[i].type = groups[i][1].type
  BY <1>1, GroupFacts DEF GroupsOK, InStep
<1>4. /\ Len(results') = Len(results) + 1
      /\ \A i \in 1 .. Len(results) : results'[i] = results[i]
      /\ results'[Len(results) + 1] = r
  <2>1. results \in Seq(Result \cup {r})
    BY DEF LeakTypeOK
  <2> QED
    BY <1>2, <2>1, Appended
<1>5. Len(results') = at /\ Len(results) + 1 = at
  BY <1>1, <1>3, <1>4
<1>6. \A i \in 1 .. Len(results') :
        results'[i].addr = Addr(i) /\ results'[i].type = groups[i][1].type
  <2> TAKE i \in 1 .. Len(results')
  <2>1. CASE i = at
    BY <1>2, <1>4, <1>5, <2>1
  <2>2. CASE i # at
    <3>1. i \in 1 .. Len(results)
      BY <1>1, <1>3, <1>5, <2>2
    <3> QED
      BY <1>3, <1>4, <3>1
  <2> QED
    BY <2>1, <2>2
<1>7. InStep'
  <2>1. at' <= Len(groups') + 1 /\ Len(results') = at' - 1
    BY <1>1, <1>5, GroupFacts
  <2> QED
    BY <1>1, <1>6, <2>1 DEF InStep, Counting, Addr
<1>8. GatheredOK'
  BY <1>1 DEF GroupsOK, GatheredOK, Addr
<1> QED
  BY <1>1, <1>7, <1>8 DEF GroupsOK, SplitOK

LEMMA GroupsNext ==
  ASSUME LeakTypeOK, LeakTypeOK', GroupsOK, [PathLeakNext]_pathLeakVars
  PROVE  GroupsOK'
<1>1. CASE FlagsChange \/ RecordOther \/ \E j \in Jumps : RecordJump(j) \/ DropJump(j)
  <2>1. phase = "replay" /\ phase' = "replay" /\ UNCHANGED <<groups, results>>
    BY <1>1 DEF FlagsChange, RecordOther, RecordJump, DropJump, AfterReplay
  <2> QED
    BY <2>1, GroupsAlone DEF Counting
<1>2. CASE ReplayEnds
  <2>1. phase = "replay" /\ phase' = "reduce" /\ UNCHANGED <<groups, results>>
    BY <1>2 DEF ReplayEnds
  <2> QED
    BY <2>1, GroupsAlone DEF Counting
<1>3. CASE ReduceOne
  <2>1. phase = "reduce" /\ phase' = "reduce" /\ UNCHANGED <<groups, results>>
    BY <1>3 DEF ReduceOne
  <2> QED
    BY <2>1, GroupsAlone DEF Counting
<1>4. CASE ReduceEnds
  <2>1. /\ phase = "reduce" /\ phase' = "split" /\ UNCHANGED <<groups, results>>
        /\ constrains' = given' /\ at' = 1 /\ Len(given') \in Nat
    BY <1>4 DEF ReduceEnds, LeakTypeOK
  <2>2. groups = <<>> /\ groups' = <<>> /\ Len(groups') = 0 /\ results' = <<>>
    BY <2>1 DEF GroupsOK, InStep, Counting
  <2>3. SplitOK'
    BY <2>1 DEF SplitOK
  <2>4. GatheredOK'
    BY <2>2 DEF GatheredOK
  <2> QED
    BY <2>1, <2>2, <2>3, <2>4 DEF GroupsOK, InStep, Counting
<1>5. CASE SplitOne
  BY <1>5, SplitOneKeeps
<1>6. CASE DrawTests
  <2>1. /\ phase = "split" /\ phase' \in {"verify", "crashed"} /\ UNCHANGED <<groups, results, given>>
        /\ at > Len(constrains) /\ constrains = given /\ at <= Len(given) + 1
    BY <1>6 DEF DrawTests, GroupsOK, SplitOK
  <2>2. Prefix = Len(given) /\ Prefix' = Prefix
    BY <2>1, GroupFacts DEF Prefix
  <2> QED
    BY <2>1, <2>2, GroupsAlone DEF Counting
<1>7. CASE VerifyOne \/ VerifyEnds
  <2>1. phase = "verify" /\ phase' \in {"verify", "run"} /\ UNCHANGED <<groups, results, given>>
    BY <1>7 DEF VerifyOne, VerifyEnds
  <2> QED
    BY <2>1, GroupsAlone DEF Counting, Prefix
<1>8. CASE Run
  <2>1. /\ phase = "run" /\ phase' = "groups" /\ UNCHANGED <<groups, results, given>> /\ at' = 1
        /\ results = <<>> /\ Len(results) = 0 /\ Prefix' = Prefix
    BY <1>8 DEF Run, GroupsOK, InStep, Counting, Prefix
  <2>2. InStep'
    BY <2>1, GroupFacts DEF InStep, Counting
  <2>3. GatheredOK'
    BY <2>1 DEF GroupsOK, GatheredOK, Addr
  <2> QED
    BY <2>1, <2>2, <2>3 DEF GroupsOK, SplitOK
<1>9. CASE SampleRound \/ Report
  <2>1. /\ phase = "groups" /\ phase' \in {"groups", "done"}
        /\ UNCHANGED <<groups, results, given, at>> /\ Prefix' = Prefix
    BY <1>9 DEF SampleRound, Report, InGroup, Prefix
  <2>2. InStep'
    BY <2>1 DEF GroupsOK, InStep, Counting, Addr
  <2>3. GatheredOK'
    BY <2>1 DEF GroupsOK, GatheredOK, Addr
  <2> QED
    BY <2>1, <2>2, <2>3 DEF GroupsOK, SplitOK
<1>10. CASE EraseGroup
  BY <1>10, EraseGroupKeeps
<1>11. CASE KeepGroup
  BY <1>11, KeepGroupKeeps
<1>12. CASE Terminated \/ UNCHANGED pathLeakVars
  BY <1>12 DEF Terminated, pathLeakVars, estimateVars, GroupsOK, SplitOK, GatheredOK, InStep,
     Counting, Addr, Prefix
<1> QED
  BY <1>1, <1>2, <1>3, <1>4, <1>5, <1>6, <1>7, <1>8, <1>9, <1>10, <1>11, <1>12
     DEF PathLeakNext, Estimate, EstimateStep

(* spiltConstrainsByAddress and run_addr_group, for any constraints at any *)
(* addresses: one group for an address, with all its constraints in their  *)
(* order, and a result for each group that is kept, in step with them.     *)
THEOREM ResultsMatchGroups == PathLeakSpec => []ResultsFollowGroups
<1>1. LeakTypeOK /\ GroupsOK => ResultsFollowGroups
  <2> SUFFICES ASSUME LeakTypeOK, GroupsOK, Counting PROVE ResultsFollowGroups
    BY DEF ResultsFollowGroups, Counting
  <2>1. Prefix = Len(given)
    BY DEF Counting, Prefix
  <2> QED
    BY <2>1 DEF ResultsFollowGroups, GroupsOK, GatheredOK, InStep, Addr
<1>2. LeakTypeOK /\ LeakTypeOK' /\ GroupsOK /\ [PathLeakNext]_pathLeakVars => GroupsOK'
  BY GroupsNext
<1> QED
  BY <1>1, <1>2, LeakTypeInit, LeakTypeNext, GroupsInit, PTL DEF PathLeakSpec
=============================================================================
