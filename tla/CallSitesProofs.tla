--------------------------- MODULE CallSitesProofs ---------------------------
(***************************************************************************)
(* What the run checks on small files, small tables and one key, proved    *)
(* for every address space, every set of function files, any number of     *)
(* keys and any trace: first about FunctionTable, then about the call      *)
(* stacks, alone and fed by the table's answers.                           *)
(***************************************************************************)
EXTENDS CallSites, WellFoundedInduction, TLAPS

(* CHOOSE finds the least index of a nonempty set of indices: the linear   *)
(* search of Function.cpp stops at the first routine that holds the        *)
(* address.                                                                *)
LEMMA LeastExists ==
  ASSUME NEW S \in SUBSET Nat, S # {}
  PROVE  Least(S) \in S /\ \A j \in S : Least(S) <= j
<1> DEFINE R == { ss \in Nat \X Nat : ss[1] < ss[2] }
<1>1. IsWellFoundedOn(R, Nat)
  BY NatLessThanWellFounded, Zenon DEF OpToRel
<1>2. PICK i \in S : \A j \in S : ~ (<<j, i>> \in R)
  <2> HIDE DEF R
  <2> QED
    BY <1>1, WFMin
<1>3. ASSUME NEW j \in S PROVE i <= j
  <2>1. ~ (<<j, i>> \in R)
    BY <1>2
  <2>2. i \in Nat /\ j \in Nat
    OBVIOUS
  <2>3. ~ (j < i)
    BY <2>1, <2>2
  <2>4. QED
    BY <2>2, <2>3
<1>4. QED
  BY <1>3 DEF Least

(* The search returns 0 exactly when no routine holds the address, and     *)
(* otherwise an index of the table whose routine does.                     *)
LEMMA FirstHolderFinds ==
  ASSUME NEW addr, rtns \in Seq(Routine)
  PROVE  /\ FirstHolder(addr) \in 0 .. Len(rtns)
         /\ FirstHolder(addr) = NotFound <=> Holders(addr) = {}
         /\ FirstHolder(addr) # NotFound =>
              Holds(rtns[FirstHolder(addr)], addr)
<1>1. Holders(addr) \in SUBSET (1 .. Len(rtns)) /\ Len(rtns) \in Nat
  BY DEF Holders
<1>2. CASE Holders(addr) = {}
  BY <1>1, <1>2 DEF FirstHolder, NotFound
<1>3. CASE Holders(addr) # {}
  <2>1. Least(Holders(addr)) \in Holders(addr)
    BY <1>1, <1>3, LeastExists
  <2>2. FirstHolder(addr) = Least(Holders(addr))
    BY <1>3 DEF FirstHolder
  <2>3. FirstHolder(addr) \in 1 .. Len(rtns)
    BY <1>1, <2>1, <2>2
  <2>4. Holds(rtns[FirstHolder(addr)], addr)
    BY <2>1, <2>2 DEF Holders
  <2>5. QED
    BY <1>1, <1>3, <2>3, <2>4 DEF NotFound
<1>4. QED
  BY <1>2, <1>3

-----------------------------------------------------------------------------
(* The strengthening: the cache is set once the file has been read, from   *)
(* then on it is an index of a table that no longer changes, and only then *)
(* is anything answered.                                                   *)
CacheSetLast ==
  /\ read > 0 => Len(rtns) > 0
  /\ cache # 0 => read = Len(file)
  /\ answer.by # "none" => cache # 0

Inv == TypeOK /\ CacheSetLast

(* A loaded line gives a routine whose end is within the address space.    *)
LEMMA RoutineOfType ==
  ASSUME NEW line \in Line
  PROVE  RoutineOf(line) \in Routine
BY AddressSpaceAssumption DEF RoutineOf, Line, Routine, Address

(* Nothing is asked before the table is loaded, so no answer is cached.    *)
LEMMA InvInit == Init => Inv
<1> SUFFICES ASSUME Init PROVE Inv
  OBVIOUS
<1>1. file \in Seq(Line) /\ Len(file) \in Nat
  BY FilesAssumption DEF Init
<1>2. 0 \in Address
  BY AddressSpaceAssumption DEF Address
<1>3. QED
  BY <1>1, <1>2 DEF Init, Inv, TypeOK, CacheSetLast, NoAnswer, NotFound

(* Loading leaves the cache empty; a query only caches what it answered.   *)
LEMMA InvStep == Inv /\ [Next]_vars => Inv'
<1> SUFFICES ASSUME Inv, [Next]_vars PROVE Inv'
  OBVIOUS
<1> USE DEF Inv
<1>1. /\ file \in Seq(Line) \ {<<>>} /\ Len(file) \in Nat \ {0}
      /\ rtns \in Seq(Routine) /\ Len(rtns) \in Nat
  BY FilesAssumption DEF TypeOK
<1>2. CASE LoadLine
  <2>1. cache = 0 /\ cache' = 0 /\ answer' = answer /\ answer.by = "none"
    BY <1>1, <1>2 DEF LoadLine, CacheSetLast, TypeOK
  <2> DEFINE r == RoutineOf(file[read + 1])
  <2>2. read' = read + 1 /\ read' \in 1 .. Len(file) /\ file' = file
    BY <1>1, <1>2 DEF LoadLine, TypeOK
  <2>3. r \in Routine
    <3>1. file[read + 1] \in Line
      BY <1>1, <2>2
    <3>2. QED
      BY <3>1, RoutineOfType
  <2>4. rtns' \in Seq(Routine) /\ Len(rtns') >= Len(rtns) /\ Len(rtns') > 0
    <3>1. CASE Known(r.start)
      BY <3>1, <1>1, <1>2 DEF LoadLine, Known
    <3>2. CASE ~ Known(r.start)
      BY <3>2, <1>1, <1>2, <2>3 DEF LoadLine
    <3>3. QED
      BY <3>1, <3>2
  <2>5. Len(rtns') \in Nat
    BY <2>4
  <2>6. TypeOK'
    BY <1>1, <2>1, <2>2, <2>4, <2>5 DEF TypeOK
  <2>7. CacheSetLast'
    BY <2>1, <2>4 DEF CacheSetLast
  <2>8. QED
    BY <2>6, <2>7
<1>3. CASE FinishLoading
  BY <1>1, <1>3 DEF FinishLoading, TypeOK, CacheSetLast
<1>4. ASSUME NEW addr \in Address, GetFunRoutine(addr)
      PROVE  Inv'
  <2>1. FirstHolder(addr) \in 0 .. Len(rtns)
    BY <1>1, FirstHolderFinds
  <2>2. QED
    BY <1>1, <1>4, <2>1
       DEF GetFunRoutine, TypeOK, CacheSetLast, Loaded, NotFound
<1>5. ASSUME NEW addr \in Address, GetFunctionAndLibrary(addr)
      PROVE  Inv'
  <2>1. FirstHolder(addr) \in 0 .. Len(rtns)
    BY <1>1, FirstHolderFinds
  <2>2. QED
    BY <1>1, <1>5, <2>1
       DEF GetFunctionAndLibrary, TypeOK, CacheSetLast, Loaded
<1>6. CASE UNCHANGED vars
  BY <1>6 DEF vars, TypeOK, CacheSetLast
<1>7. QED
  BY <1>2, <1>3, <1>4, <1>5, <1>6 DEF Next

(* The table, the cache and the answers keep their types, with the end     *)
(* addresses of Function.cpp wrapping at the end of the address space.     *)
THEOREM TypeCorrect == Spec => []TypeOK
<1>1. Inv => TypeOK
  BY DEF Inv
<1>2. QED
  BY InvInit, InvStep, <1>1, PTL DEF Spec

-----------------------------------------------------------------------------
(* An answer is a routine that holds the address asked for, or "not found" *)
(* when no routine holds it, whatever was asked before and whatever the    *)
(* cache holds (getFunRoutine and getFunctionAndLibrary).                  *)
THEOREM AnswersHold == Spec => []AnswerHolds
<1>1. Init => AnswerHolds
  BY DEF Init, AnswerHolds, NoAnswer
<1>2. Inv /\ AnswerHolds /\ [Next]_vars => AnswerHolds'
  <2> SUFFICES ASSUME Inv, AnswerHolds, [Next]_vars PROVE AnswerHolds'
    OBVIOUS
  <2>1. rtns \in Seq(Routine)
    BY DEF Inv, TypeOK
  <2>2. ASSUME NEW addr \in Address, GetFunRoutine(addr)
        PROVE  AnswerHolds'
    <3>1. rtns' = rtns /\ answer'.addr = addr
      BY <2>2 DEF GetFunRoutine
    <3>2. CASE Cached(addr)
      <4>1. answer'.rtn = cache /\ cache # NotFound
        BY <2>2, <3>2 DEF GetFunRoutine, Loaded, NotFound
      <4>2. QED
        BY <3>1, <3>2, <4>1 DEF Cached, AnswerHolds
    <3>3. CASE ~ Cached(addr)
      <4>1. answer'.rtn = FirstHolder(addr)
        BY <2>2, <3>3 DEF GetFunRoutine
      <4>2. QED
        BY <2>1, <3>1, <4>1, FirstHolderFinds DEF AnswerHolds, Holders
    <3>4. QED
      BY <3>2, <3>3
  <2>3. ASSUME NEW addr \in Address, GetFunctionAndLibrary(addr)
        PROVE  AnswerHolds'
    <3>1. /\ rtns' = rtns /\ answer'.addr = addr
          /\ answer'.rtn = FirstHolder(addr)
      BY <2>3 DEF GetFunctionAndLibrary
    <3>2. QED
      BY <2>1, <3>1, FirstHolderFinds DEF AnswerHolds, Holders
  <2>4. CASE LoadLine
    BY <2>4 DEF LoadLine, AnswerHolds, Inv, TypeOK, CacheSetLast
  <2>5. CASE FinishLoading
    BY <2>5 DEF FinishLoading, AnswerHolds, Holders
  <2>6. CASE UNCHANGED vars
    BY <2>6 DEF vars, AnswerHolds, Holders
  <2>7. QED
    BY <2>2, <2>3, <2>4, <2>5, <2>6 DEF Next
<1>3. QED
  BY InvInit, InvStep, <1>1, <1>2, PTL DEF Spec

(* What is cached holds the address, and in a separated table nothing else *)
(* does.                                                                   *)
LEMMA CacheStep ==
  ASSUME Inv, CacheTransparent, [Next]_vars
  PROVE  CacheTransparent'
<1>1. rtns \in Seq(Routine) /\ cache \in 0 .. Len(rtns) /\ Len(rtns) \in Nat
  BY DEF Inv, TypeOK
<1>2. ASSUME NEW addr \in Address, GetFunRoutine(addr)
      PROVE  CacheTransparent'
  <2>1. rtns' = rtns /\ answer'.addr = addr
    BY <1>2 DEF GetFunRoutine
  <2>2. FirstHolder(addr)' = FirstHolder(addr) /\ Separated' = Separated
    BY <2>1 DEF FirstHolder, Holders, Separated
  <2>3. CASE Cached(addr)
    <3>1. SUFFICES ASSUME Separated PROVE FirstHolder(addr) = cache
      BY <1>2, <2>1, <2>2, <2>3 DEF GetFunRoutine, CacheTransparent
    <3>2. cache \in Holders(addr)
      BY <1>1, <1>2, <2>3 DEF GetFunRoutine, Loaded, Cached, Holders
    <3>3. \A i \in Holders(addr) : i = cache
      BY <1>1, <3>1, <3>2 DEF Separated, Holders
    <3>4. Holders(addr) = {cache}
      BY <3>2, <3>3
    <3>5. FirstHolder(addr) = Least(Holders(addr))
      BY <3>4 DEF FirstHolder
    <3>6. Holders(addr) \in SUBSET Nat
      BY <1>1 DEF Holders
    <3>7. Least(Holders(addr)) \in Holders(addr)
      BY <3>2, <3>6, LeastExists
    <3>8. QED
      BY <3>4, <3>5, <3>7
  <2>4. CASE ~ Cached(addr)
    BY <1>2, <2>1, <2>2, <2>4 DEF GetFunRoutine, CacheTransparent
  <2>5. QED
    BY <2>3, <2>4
<1>3. ASSUME NEW addr \in Address, GetFunctionAndLibrary(addr)
      PROVE  CacheTransparent'
  BY <1>3 DEF GetFunctionAndLibrary, CacheTransparent, FirstHolder, Holders
<1>4. CASE LoadLine
  BY <1>4 DEF LoadLine, CacheTransparent, Inv, TypeOK, CacheSetLast
<1>5. CASE FinishLoading
  BY <1>5 DEF FinishLoading, CacheTransparent, Separated, FirstHolder, Holders
<1>6. CASE UNCHANGED vars
  BY <1>6 DEF vars, CacheTransparent, Separated, FirstHolder, Holders
<1>7. QED
  BY <1>2, <1>3, <1>4, <1>5, <1>6 DEF Next

(* Where routines share no address, not even a routine's closing one, the  *)
(* cached lookup of getFunRoutine and getFunName gives what an uncached    *)
(* search of the table would give: earlier queries cannot be observed.     *)
THEOREM CacheInvisible == Spec => []CacheTransparent
<1>1. Init => CacheTransparent
  BY DEF Init, CacheTransparent, NoAnswer
<1>2. Inv /\ CacheTransparent /\ [Next]_vars => CacheTransparent'
  BY CacheStep
<1>3. QED
  BY InvInit, InvStep, <1>1, <1>2, PTL DEF Spec

(* Where routines are back to back an address inside one of them, other    *)
(* than the first byte after another, is answered with that routine and no *)
(* other, whichever lookup is asked and whatever it has cached.            *)
THEOREM InteriorsAreExact == Spec => []InteriorExact
<1>1. TypeOK /\ AnswerHolds => InteriorExact
  <2> SUFFICES ASSUME TypeOK, AnswerHolds, BackToBack, answer.by # "none",
                      NEW i \in 1 .. Len(rtns),
                      Inside(rtns[i], answer.addr),
                      \A j \in 1 .. Len(rtns) : rtns[j].end # answer.addr
               PROVE  answer.rtn = i
    BY DEF InteriorExact
  <2> DEFINE a == answer.addr
             j == answer.rtn
  <2>1. /\ rtns \in Seq(Routine) /\ Len(rtns) \in Nat
        /\ j \in 0 .. Len(rtns) /\ a \in Int
    BY DEF TypeOK, Address
  <2>2. ASSUME NEW k \in 1 .. Len(rtns)
        PROVE  rtns[k].start \in Int /\ rtns[k].end \in Int
    <3>1. rtns[k] \in Routine
      BY <2>1
    <3>2. rtns[k].start \in Address /\ rtns[k].end \in Address
      BY <3>1 DEF Routine
    <3>3. QED
      BY <3>2 DEF Address
  <2>3. i \in Holders(a)
    BY <2>1, <2>2 DEF Holders, Holds, Inside
  <2>4. j # NotFound /\ Holds(rtns[j], a)
    BY <2>3 DEF AnswerHolds
  <2>5. j \in 1 .. Len(rtns)
    BY <2>1, <2>4 DEF NotFound
  <2> HIDE DEF j
  <2>6. SUFFICES ASSUME j # i PROVE FALSE
    BY DEF j
  <2>7. rtns[i].end <= rtns[j].start \/ rtns[j].end <= rtns[i].start
    BY <2>5, <2>6 DEF BackToBack
  <2>8. rtns[j].end # a
    BY <2>5
  <2>9. QED
    BY <2>1, <2>2, <2>4, <2>5, <2>7, <2>8 DEF Inside, Holds
<1>2. QED
  BY TypeCorrect, AnswersHold, <1>1, PTL

-----------------------------------------------------------------------------
Stack ==
  [funs  : Seq(Nat),
   depth : Int,
   sites : Seq([name : Nat, depth : Int]),
   fast  : Nat]

(* DepthIsHeight of one stack.                                             *)
Even(s) ==
  /\ s.funs # <<>> => s.depth = Len(s.funs) - 1
  /\ s.funs = <<>> => s.depth < 0
  /\ \A i \in 1 .. Len(s.funs) - 1 : s.funs[i] # s.funs[i + 1]

StacksInv ==
  \/ stacks = NoStacks
  \/ stacks \in [KeyIds -> Stack] /\ \A k \in KeyIds : Even(stacks[k])

(* The constructor pushes the first function at depth 0.                   *)
LEMMA NewStackEven ==
  ASSUME NEW name \in Nat
  PROVE  NewStack(name) \in Stack /\ Even(NewStack(name))
BY DEF NewStack, Stack, Even

(* updateStack pushes one function and counts one, or does nothing.        *)
LEMMA UpdateStackEven ==
  ASSUME NEW s \in Stack, NEW name \in Nat, Even(s)
  PROVE  UpdateStack(s, name) \in Stack /\ Even(UpdateStack(s, name))
<1>1. CASE s.funs = <<>> \/ Top(s) = name
  BY <1>1 DEF UpdateStack
<1>2. CASE ~ (s.funs = <<>> \/ Top(s) = name)
  <2> DEFINE u == UpdateStack(s, name)
  <2>1. s.funs \in Seq(Nat) /\ Len(s.funs) \in Nat \ {0} /\ s.depth = Len(s.funs) - 1
    BY <1>2 DEF Stack, Even
  <2>2. s.sites \in Seq([name : Nat, depth : Int]) /\ s.depth + 1 \in Int
    BY <2>1 DEF Stack
  <2>3. Site(s, name, s.depth + 1) \in Seq([name : Nat, depth : Int])
    BY <2>2 DEF Site
  <2>4. u = [funs  |-> Append(s.funs, name),
             depth |-> s.depth + 1,
             sites |-> Site(s, name, s.depth + 1),
             fast  |-> s.fast]
    BY <1>2 DEF UpdateStack, Stack
  <2>5. u \in Stack
    <3>1. Append(s.funs, name) \in Seq(Nat)
      BY <2>1
    <3>2. QED
      BY <2>2, <2>3, <2>4, <3>1 DEF Stack
  <2>6. u.funs = Append(s.funs, name) /\ u.depth = s.depth + 1
    BY <2>4
  <2>7. u.funs # <<>> /\ u.depth = Len(u.funs) - 1
    BY <2>1, <2>6
  <2>8. ASSUME NEW i \in 1 .. Len(u.funs) - 1
        PROVE  u.funs[i] # u.funs[i + 1]
    <3>1. CASE i = Len(s.funs)
      <4>1. u.funs[i] = Top(s) /\ u.funs[i + 1] = name
        BY <2>1, <2>6, <3>1 DEF Top
      <4>2. QED
        BY <1>2, <4>1
    <3>2. CASE i # Len(s.funs)
      <4>1. i \in 1 .. Len(s.funs) - 1
        BY <2>1, <2>6, <3>2
      <4>2. u.funs[i] = s.funs[i] /\ u.funs[i + 1] = s.funs[i + 1]
        BY <2>1, <2>6, <4>1
      <4>3. QED
        BY <4>1, <4>2 DEF Even
    <3>3. QED
      BY <3>1, <3>2
  <2>9. QED
    BY <2>5, <2>7, <2>8 DEF Even
<1>3. QED
  BY <1>1, <1>2

(* retStack pops and counts down; of the last function that makes the      *)
(* depth -1, and of an empty stack still less.                             *)
LEMMA RetStackEven ==
  ASSUME NEW s \in Stack, NEW name \in Nat, Even(s)
  PROVE  RetStack(s, name) \in Stack /\ Even(RetStack(s, name))
<1> DEFINE u == RetStack(s, name)
<1>0. s.depth \in Int /\ s.funs \in Seq(Nat) /\ Len(s.funs) \in Nat
  BY DEF Stack
<1>1. CASE s.funs = <<>>
  <2>1. u = [funs |-> s.funs, depth |-> s.depth - 1, sites |-> s.sites, fast |-> s.fast]
    BY <1>1 DEF RetStack, Stack
  <2>2. s.depth < 0
    BY <1>1 DEF Even
  <2>3. u.funs = <<>> /\ u.depth = s.depth - 1
    BY <1>1, <2>1
  <2>4. u \in Stack
    <3>1. s.depth - 1 \in Int
      BY <1>0
    <3>2. QED
      BY <2>1, <3>1 DEF Stack
  <2>5. QED
    BY <1>0, <2>2, <2>3, <2>4 DEF Even
<1>2. CASE s.funs # <<>> /\ Top(s) # name
  BY <1>2 DEF RetStack
<1>3. CASE s.funs # <<>> /\ Top(s) = name
  <2>1. Len(s.funs) > 0 /\ s.depth = Len(s.funs) - 1
    BY <1>0, <1>3 DEF Even
  <2>2. u = [funs  |-> SubSeq(s.funs, 1, Len(s.funs) - 1),
             depth |-> s.depth - 1,
             sites |-> s.sites,
             fast  |-> s.fast]
    BY <1>3 DEF RetStack, Stack
  <2>3. SubSeq(s.funs, 1, Len(s.funs) - 1) \in Seq(Nat)
    BY <1>0, <2>1, SMTT(20)
  <2>4. u \in Stack
    <3>1. s.depth - 1 \in Int
      BY <1>0
    <3>2. QED
      BY <2>2, <2>3, <3>1 DEF Stack
  <2>5. u.funs = SubSeq(s.funs, 1, Len(s.funs) - 1) /\ u.depth = s.depth - 1
    BY <2>2
  <2>6. Len(u.funs) = Len(s.funs) - 1
    BY <1>0, <2>1, <2>5
  <2>7. /\ u.funs # <<>> => u.depth = Len(u.funs) - 1
        /\ u.funs = <<>> => u.depth < 0
    <3>1. u.depth = Len(u.funs) - 1 /\ Len(u.funs) \in Nat
      BY <1>0, <2>1, <2>5, <2>6
    <3>2. u.funs = <<>> => Len(u.funs) = 0
      OBVIOUS
    <3>3. QED
      BY <3>1, <3>2
  <2>8. ASSUME NEW i \in 1 .. Len(u.funs) - 1
        PROVE  u.funs[i] # u.funs[i + 1]
    <3>1. i \in 1 .. Len(s.funs) - 1
      BY <1>0, <2>6
    <3>2. u.funs[i] = s.funs[i] /\ u.funs[i + 1] = s.funs[i + 1]
      BY <1>0, <2>1, <2>5, <2>6, SMTT(20)
    <3>3. QED
      BY <3>1, <3>2 DEF Even
  <2>9. QED
    BY <2>4, <2>7, <2>8 DEF Even
<1>4. QED
  BY <1>1, <1>2, <1>3

(* fastUpdate leaves stack and depth alone.                                *)
LEMMA FastUpdateEven ==
  ASSUME NEW s \in Stack, NEW name \in Nat, Even(s)
  PROVE  FastUpdate(s, name) \in Stack /\ Even(FastUpdate(s, name))
<1>1. CASE name = s.fast
  BY <1>1 DEF FastUpdate
<1>2. CASE name # s.fast
  <2>1. Site(s, name, 0) \in Seq([name : Nat, depth : Int])
    BY DEF Site, Stack
  <2>2. FastUpdate(s, name) = [s EXCEPT !.sites = Site(s, name, 0), !.fast = name]
    BY <1>2 DEF FastUpdate
  <2>3. QED
    BY <2>1, <2>2 DEF Stack, Even
<1>3. QED
  BY <1>1, <1>2

-----------------------------------------------------------------------------
(* Every step of the composition is a step of the table or leaves it.      *)
LEMMA TableSteps == SitesNext => [Next]_vars
BY DEF SitesNext, Table, Asked, StartReplay, Execute, RecordConstraint, Next

(* What getFunName answers is a name: an index of the table or 0.          *)
LEMMA AnswerIsName ==
  ASSUME Inv, NEW addr \in Address, GetFunRoutine(addr)
  PROVE  answer'.rtn \in Nat
<1>1. Inv'
  BY InvStep DEF Next
<1>2. answer'.rtn \in 0 .. Len(rtns') /\ Len(rtns') \in Nat
  BY <1>1 DEF Inv, TypeOK
<1>3. QED
  BY <1>2

(* Each way of keeping the stacks keeps every stack even.                  *)
LEMMA StacksStep ==
  ASSUME Inv, StacksInv, [SitesNext]_<<vars, siteVars>>
  PROVE  StacksInv'
<1>1. ASSUME NEW addr \in Address, StartReplay(addr)
      PROVE  StacksInv'
  <2>1. answer'.rtn \in Nat /\ Create(answer'.rtn)
    BY <1>1, AnswerIsName DEF StartReplay
  <2>2. QED
    BY <2>1, NewStackEven DEF Create, StacksInv
<1>2. ASSUME NEW addr \in Address, NEW isRet \in BOOLEAN, Execute(addr, isRet)
      PROVE  StacksInv'
  <2>1. Created /\ stacks \in [KeyIds -> Stack] /\ \A k \in KeyIds : Even(stacks[k])
    BY <1>2 DEF Execute, Created, StacksInv
  <2>2. CASE mode = "off"
    BY <1>2, <2>2 DEF Execute, StacksInv
  <2>3. CASE mode # "off"
    <3> DEFINE name == answer'.rtn
    <3>1. name \in Nat
      BY <1>2, <2>3, AnswerIsName DEF Execute
    <3>2. FastCallStack(name) \/ RetInst(name) \/ ProceedInst(name)
      BY <1>2, <2>3 DEF Execute
    <3> HIDE DEF name
    <3>3. CASE FastCallStack(name)
      BY <2>1, <3>1, <3>3, FastUpdateEven DEF FastCallStack, StacksInv
    <3>4. CASE ProceedInst(name)
      BY <2>1, <3>1, <3>4, UpdateStackEven DEF ProceedInst, StacksInv
    <3>5. CASE RetInst(name)
      <4>1. ASSUME NEW k \in KeyIds
            PROVE  LET u == UpdateStack(RetStack(stacks[k], name), name)
                   IN  u \in Stack /\ Even(u)
        <5>1. RetStack(stacks[k], name) \in Stack /\ Even(RetStack(stacks[k], name))
          BY <2>1, <3>1, RetStackEven
        <5>2. QED
          BY <3>1, <5>1, UpdateStackEven
      <4>2. QED
        BY <3>5, <4>1 DEF RetInst, StacksInv
    <3>6. QED
      BY <3>2, <3>3, <3>4, <3>5
  <2>4. QED
    BY <2>2, <2>3
<1>3. CASE Table
  BY <1>3 DEF Table, siteVars, StacksInv
<1>4. ASSUME NEW key \in KeyIds, RecordConstraint(key)
      PROVE  StacksInv'
  BY <1>4 DEF RecordConstraint, StacksInv
<1>5. CASE UNCHANGED <<vars, siteVars>>
  BY <1>5 DEF siteVars, StacksInv
<1>6. QED
  BY <1>1, <1>2, <1>3, <1>4, <1>5 DEF SitesNext

(* Depth and stack of CallStack.cpp are counted apart, by a push and a     *)
(* ++, a pop and a --, one of them behind a test the other is not behind:  *)
(* for every table, trace and set of key bytes the depth is the height of  *)
(* the stack, or below zero once the first function has returned.          *)
THEOREM DepthsAreHeights == SitesSpec => []DepthIsHeight
<1>1. SitesInit => Inv /\ StacksInv
  BY InvInit DEF SitesInit, StacksInit, StacksInv
<1>2. Inv /\ StacksInv /\ [SitesNext]_<<vars, siteVars>> => Inv' /\ StacksInv'
  <2>1. [SitesNext]_<<vars, siteVars>> => [Next]_vars
    BY TableSteps
  <2>2. QED
    BY <2>1, InvStep, StacksStep
<1>3. StacksInv => DepthIsHeight
  BY DEF StacksInv, DepthIsHeight, Created, Even
<1>4. QED
  BY <1>1, <1>2, <1>3, PTL DEF SitesSpec

-----------------------------------------------------------------------------
(* How far along the path the sites of a stack reach, in each way of       *)
(* keeping the stacks.  The stack proper ends where the path does, as long *)
(* as there is one.                                                        *)
OnFast(s, p) == NamesTo(s.sites, p, Len(p)) /\ s.fast = p[Len(p)]

OnStack(s, p) ==
  /\ \E n \in 1 .. Len(p) : NamesTo(s.sites, p, n)
  /\ s.funs # <<>> => NamesTo(s.sites, p, Len(p)) /\ Top(s) = p[Len(p)]

Reaches(s, p) ==
  /\ mode = "off"    => NamesTo(s.sites, p, 1)
  /\ mode = "fast"   => OnFast(s, p)
  /\ mode = "stacks" => OnStack(s, p)

(* A site of the function last reached changes nothing.                    *)
LEMMA SameSite ==
  ASSUME NEW sites \in Seq([name : Nat, depth : Int]) \ {<<>>}, NEW p, NEW n \in Nat \ {0},
         NEW name \in Nat, NEW depth, NamesTo(sites, p, n), p[n] = name
  PROVE  NamesTo(Append(sites, [name |-> name, depth |-> depth]), p, n)
<1> DEFINE m == Len(sites)
           new == Append(sites, [name |-> name, depth |-> depth])
<1>1. m \in Nat \ {0} /\ Len(new) = m + 1
  OBVIOUS
<1>2. PICK at \in [1 .. m -> 1 .. n] :
        /\ at[1] = 1
        /\ at[m] = n
        /\ \A i \in 1 .. m - 1 : at[i + 1] \in {at[i], at[i] + 1}
        /\ \A i \in 1 .. m : sites[i].name = p[at[i]]
  BY DEF NamesTo
<1> DEFINE to == [i \in 1 .. m + 1 |-> IF i = m + 1 THEN n ELSE at[i]]
<1>3. to \in [1 .. m + 1 -> 1 .. n]
  BY <1>1
<1>4. to[1] = 1 /\ to[m + 1] = n
  BY <1>1, <1>2
<1>5. ASSUME NEW i \in 1 .. m
      PROVE  to[i + 1] \in {to[i], to[i] + 1}
  <2>1. CASE i = m
    BY <1>1, <1>2, <2>1
  <2>2. CASE i # m
    <3>1. i \in 1 .. m - 1 /\ i + 1 \in 1 .. m + 1 /\ i + 1 # m + 1 /\ i # m + 1
      BY <1>1, <2>2
    <3>2. to[i + 1] = at[i + 1] /\ to[i] = at[i]
      BY <3>1
    <3>3. QED
      BY <1>2, <3>1, <3>2
  <2>3. QED
    BY <2>1, <2>2
<1>6. ASSUME NEW i \in 1 .. m + 1
      PROVE  new[i].name = p[to[i]]
  <2>1. CASE i = m + 1
    BY <1>1, <2>1
  <2>2. CASE i # m + 1
    <3>1. i \in 1 .. m /\ new[i] = sites[i] /\ to[i] = at[i]
      BY <1>1, <2>2
    <3>2. QED
      BY <1>2, <3>1
  <2>3. QED
    BY <2>1, <2>2
<1> HIDE DEF to, new
<1>7. m + 1 - 1 = m
  BY <1>1
<1>8. /\ to \in [1 .. Len(new) -> 1 .. n]
      /\ to[1] = 1
      /\ to[Len(new)] = n
      /\ \A i \in 1 .. Len(new) - 1 : to[i + 1] \in {to[i], to[i] + 1}
      /\ \A i \in 1 .. Len(new) : new[i].name = p[to[i]]
  <2>1. Len(new) = m + 1 /\ Len(new) - 1 = m
    BY <1>1, <1>7 DEF new
  <2> HIDE DEF m
  <2>2. QED
    BY <1>3, <1>4, <1>5, <1>6, <2>1
<1>9. NamesTo(new, p, n)
  BY <1>8, Zenon DEF NamesTo
<1>10. QED
  BY <1>9 DEF new

(* A site of the function that the path goes on to.                        *)
LEMMA NextSite ==
  ASSUME NEW sites \in Seq([name : Nat, depth : Int]) \ {<<>>},
         NEW p \in Seq(Nat) \ {<<>>}, NEW name \in Nat, NEW depth,
         NamesTo(sites, p, Len(p))
  PROVE  NamesTo(Append(sites, [name |-> name, depth |-> depth]),
                 Append(p, name), Len(p) + 1)
<1> DEFINE m == Len(sites)
           n == Len(p)
           q == Append(p, name)
           new == Append(sites, [name |-> name, depth |-> depth])
<1>1. m \in Nat \ {0} /\ Len(new) = m + 1 /\ n \in Nat \ {0}
  OBVIOUS
<1>2. PICK at \in [1 .. m -> 1 .. n] :
        /\ at[1] = 1
        /\ at[m] = n
        /\ \A i \in 1 .. m - 1 : at[i + 1] \in {at[i], at[i] + 1}
        /\ \A i \in 1 .. m : sites[i].name = p[at[i]]
  BY DEF NamesTo
<1> DEFINE to == [i \in 1 .. m + 1 |-> IF i = m + 1 THEN n + 1 ELSE at[i]]
<1>3. to \in [1 .. m + 1 -> 1 .. n + 1]
  BY <1>1
<1>4. to[1] = 1 /\ to[m + 1] = n + 1
  BY <1>1, <1>2
<1>5. ASSUME NEW i \in 1 .. m
      PROVE  to[i + 1] \in {to[i], to[i] + 1}
  <2>1. CASE i = m
    BY <1>1, <1>2, <2>1
  <2>2. CASE i # m
    <3>1. i \in 1 .. m - 1 /\ i + 1 \in 1 .. m + 1 /\ i + 1 # m + 1 /\ i # m + 1
      BY <1>1, <2>2
    <3>2. to[i + 1] = at[i + 1] /\ to[i] = at[i]
      BY <3>1
    <3>3. QED
      BY <1>2, <3>1, <3>2
  <2>3. QED
    BY <2>1, <2>2
<1>6. ASSUME NEW i \in 1 .. m + 1
      PROVE  new[i].name = q[to[i]]
  <2>1. CASE i = m + 1
    BY <1>1, <2>1
  <2>2. CASE i # m + 1
    <3>0. i \in 1 .. m
      BY <1>1, <2>2
    <3>1. new[i] = sites[i] /\ to[i] = at[i] /\ at[i] \in 1 .. n
      BY <1>1, <2>2, <3>0, SMTT(20)
    <3>2. q[at[i]] = p[at[i]]
      BY <1>1, <3>1
    <3>3. QED
      BY <1>2, <3>0, <3>1, <3>2
  <2>3. QED
    BY <2>1, <2>2
<1> HIDE DEF to, new
<1>7. m + 1 - 1 = m
  BY <1>1
<1>8. /\ to \in [1 .. Len(new) -> 1 .. n + 1]
      /\ to[1] = 1
      /\ to[Len(new)] = n + 1
      /\ \A i \in 1 .. Len(new) - 1 : to[i + 1] \in {to[i], to[i] + 1}
      /\ \A i \in 1 .. Len(new) : new[i].name = q[to[i]]
  <2>1. Len(new) = m + 1 /\ Len(new) - 1 = m
    BY <1>1, <1>7 DEF new
  <2> HIDE DEF m
  <2>2. QED
    BY <1>3, <1>4, <1>5, <1>6, <2>1
<1>9. NamesTo(new, q, n + 1)
  BY <1>8, Zenon DEF NamesTo
<1>10. QED
  BY <1>9 DEF new

(* The part of the path the sites name does not change when it goes on.    *)
LEMMA PathGoesOn ==
  ASSUME NEW sites \in Seq([name : Nat, depth : Int]) \ {<<>>},
         NEW p \in Seq(Nat), NEW name \in Nat, NEW n \in 1 .. Len(p),
         NamesTo(sites, p, n)
  PROVE  NamesTo(sites, Append(p, name), n)
<1>1. \A i \in 1 .. n : Append(p, name)[i] = p[i]
  OBVIOUS
<1>2. QED
  BY <1>1 DEF NamesTo

(* The path goes on to another function, or stays.                         *)
LEMMA SteppedPath ==
  ASSUME NEW p \in Seq(Nat) \ {<<>>}, NEW name \in Nat
  PROVE  /\ Stepped(p, name) \in Seq(Nat) \ {<<>>}
         /\ Len(Stepped(p, name)) \in Nat \ {0}
         /\ Stepped(p, name)[Len(Stepped(p, name))] = name
         /\ p[Len(p)] = name => Stepped(p, name) = p
         /\ p[Len(p)] # name => /\ Stepped(p, name) = Append(p, name)
                                /\ Len(Stepped(p, name)) = Len(p) + 1
BY DEF Stepped

(* An appended element leaves no empty sequence.                           *)
LEMMA AppendedNotEmpty ==
  ASSUME NEW T, NEW seq \in Seq(T), NEW e \in T
  PROVE  Append(seq, e) \in Seq(T) \ {<<>>}
<1>1. Append(seq, e) \in Seq(T) /\ Len(Append(seq, e)) = Len(seq) + 1 /\ Len(seq) \in Nat
  OBVIOUS
<1>2. Append(seq, e) # <<>>
  BY <1>1
<1>3. QED
  BY <1>1, <1>2

(* A list of sites is not empty once a site was added.                     *)
LEMMA SiteAdded ==
  ASSUME NEW s \in Stack, NEW name \in Nat, NEW depth \in Int
  PROVE  Site(s, name, depth) # <<>>
<1>1. s.sites \in Seq([name : Nat, depth : Int])
  BY DEF Stack
<1>2. [name |-> name, depth |-> depth] \in [name : Nat, depth : Int]
  OBVIOUS
<1>3. QED
  BY <1>1, <1>2, AppendedNotEmpty DEF Site

(* A site of the executed function keeps sites and path at the same place. *)
LEMMA SiteStepped ==
  ASSUME NEW s \in Stack, s.sites # <<>>, NEW p \in Seq(Nat) \ {<<>>},
         NEW name \in Nat, NEW depth \in Int, NamesTo(s.sites, p, Len(p))
  PROVE  NamesTo(Site(s, name, depth), Stepped(p, name), Len(Stepped(p, name)))
<1>1. s.sites \in Seq([name : Nat, depth : Int]) \ {<<>>} /\ Len(p) \in Nat \ {0}
  BY DEF Stack
<1>2. CASE p[Len(p)] = name
  BY <1>1, <1>2, SameSite, SteppedPath DEF Site
<1>3. CASE p[Len(p)] # name
  <2>1. /\ Stepped(p, name) = Append(p, name)
        /\ Len(Stepped(p, name)) = Len(p) + 1
    BY <1>3, SteppedPath
  <2>2. NamesTo(Append(s.sites, [name |-> name, depth |-> depth]),
                Append(p, name), Len(p) + 1)
    BY <1>1, NextSite
  <2>3. QED
    BY <2>1, <2>2 DEF Site
<1>4. QED
  BY <1>2, <1>3

(* Without a site of their own the sites stay where they are.              *)
LEMMA SitesStay ==
  ASSUME NEW s \in Stack, s.sites # <<>>, NEW p \in Seq(Nat) \ {<<>>},
         NEW name \in Nat, NEW n \in 1 .. Len(p), NamesTo(s.sites, p, n)
  PROVE  n \in 1 .. Len(Stepped(p, name)) /\ NamesTo(s.sites, Stepped(p, name), n)
<1>1. s.sites \in Seq([name : Nat, depth : Int]) \ {<<>>} /\ Len(p) \in Nat
  BY DEF Stack
<1>2. CASE p[Len(p)] = name
  BY <1>2, SteppedPath
<1>3. CASE p[Len(p)] # name
  <2>1. /\ Stepped(p, name) = Append(p, name)
        /\ Len(Stepped(p, name)) = Len(p) + 1
    BY <1>3, SteppedPath
  <2>2. NamesTo(s.sites, Append(p, name), n)
    BY <1>1, PathGoesOn
  <2>3. QED
    BY <1>1, <2>1, <2>2
<1>4. QED
  BY <1>2, <1>3

(* fastUpdate: the list follows the path.                                  *)
LEMMA FastFollows ==
  ASSUME NEW s \in Stack, s.sites # <<>>, NEW p \in Seq(Nat) \ {<<>>},
         NEW name \in Nat, OnFast(s, p)
  PROVE  /\ OnFast(FastUpdate(s, name), Stepped(p, name))
         /\ FastUpdate(s, name).sites # <<>>
<1>1. CASE name = s.fast
  <2>1. FastUpdate(s, name) = s /\ Stepped(p, name) = p
    BY <1>1, SteppedPath DEF FastUpdate, OnFast
  <2>2. QED
    BY <2>1
<1>2. CASE name # s.fast
  <2>1. FastUpdate(s, name) = [s EXCEPT !.sites = Site(s, name, 0), !.fast = name]
    BY <1>2 DEF FastUpdate
  <2>2. /\ FastUpdate(s, name).sites = Site(s, name, 0)
        /\ FastUpdate(s, name).fast = name
    BY <2>1 DEF Stack
  <2>3. NamesTo(Site(s, name, 0), Stepped(p, name), Len(Stepped(p, name)))
    BY SiteStepped DEF OnFast
  <2>4. Site(s, name, 0) # <<>>
    BY SiteAdded
  <2>5. QED
    BY <2>2, <2>3, <2>4, SteppedPath DEF OnFast
<1>3. QED
  BY <1>1, <1>2

(* updateStack: a function is pushed with a site, or it is on top already, *)
(* or there is no stack any more.                                          *)
LEMMA UpdateFollows ==
  ASSUME NEW s \in Stack, s.sites # <<>>, Even(s), NEW p \in Seq(Nat) \ {<<>>},
         NEW name \in Nat,
         \E n \in 1 .. Len(p) : NamesTo(s.sites, p, n),
         s.funs # <<>> => NamesTo(s.sites, p, Len(p)),
         (s.funs # <<>> /\ Top(s) = name) => p[Len(p)] = name
  PROVE  /\ OnStack(UpdateStack(s, name), Stepped(p, name))
         /\ UpdateStack(s, name).sites # <<>>
         /\ UpdateStack(s, name).funs = <<>> <=> s.funs = <<>>
<1> DEFINE q == Stepped(p, name)
<1>0. PICK n \in 1 .. Len(p) : NamesTo(s.sites, p, n)
  OBVIOUS
<1>1. n \in 1 .. Len(q) /\ NamesTo(s.sites, q, n)
  BY <1>0, SitesStay
<1>2. CASE s.funs = <<>>
  BY <1>1, <1>2 DEF UpdateStack, OnStack
<1>3. CASE s.funs # <<>> /\ Top(s) = name
  <2>1. UpdateStack(s, name) = s /\ q = p
    BY <1>3, SteppedPath DEF UpdateStack
  <2>2. QED
    BY <1>3, <1>0, <2>1 DEF OnStack
<1>4. CASE s.funs # <<>> /\ Top(s) # name
  <2> DEFINE u == UpdateStack(s, name)
  <2>1. s.funs \in Seq(Nat) /\ s.depth \in Int /\ s.sites \in Seq([name : Nat, depth : Int])
    BY DEF Stack
  <2>2. u = [funs  |-> Append(s.funs, name),
             depth |-> s.depth + 1,
             sites |-> Site(s, name, s.depth + 1),
             fast  |-> s.fast]
    BY <1>4 DEF UpdateStack, Stack
  <2>3. u.funs = Append(s.funs, name) /\ u.sites = Site(s, name, s.depth + 1)
    BY <2>2
  <2>4. NamesTo(Site(s, name, s.depth + 1), q, Len(q))
    <3>1. s.depth + 1 \in Int
      BY <2>1
    <3>2. QED
      BY <1>4, <3>1, SiteStepped
  <2>5. Site(s, name, s.depth + 1) # <<>>
    <3>1. s.depth + 1 \in Int
      BY <2>1
    <3>2. QED
      BY <3>1, SiteAdded
  <2>6. u.funs # <<>> /\ Top(u) = name
    <3>1. Len(u.funs) = Len(s.funs) + 1 /\ Len(s.funs) \in Nat
      BY <2>1, <2>3
    <3>2. u.funs[Len(u.funs)] = name
      BY <2>1, <2>3, <3>1
    <3> HIDE DEF u
    <3>3. u.funs # <<>>
      BY <3>1
    <3>4. QED
      BY <3>2, <3>3 DEF Top
  <2>7. Len(q) \in 1 .. Len(q) /\ q[Len(q)] = name
    BY SteppedPath
  <2> HIDE DEF u, q
  <2>8. OnStack(u, q) /\ u.sites # <<>>
    BY <2>3, <2>4, <2>5, <2>6, <2>7 DEF OnStack
  <2>9. QED
    BY <1>4, <2>6, <2>8 DEF u, q
<1>5. QED
  BY <1>2, <1>3, <1>4

(* ret takes the executed function off the top; updateStack then pushes    *)
(* it again, unless it was the last.                                       *)
LEMMA RetFollows ==
  ASSUME NEW s \in Stack, s.sites # <<>>, Even(s), NEW p \in Seq(Nat) \ {<<>>},
         NEW name \in Nat, OnStack(s, p)
  PROVE  LET u == UpdateStack(RetStack(s, name), name)
         IN  /\ OnStack(u, Stepped(p, name))
             /\ u.sites # <<>>
             /\ s.funs = <<>> => u.funs = <<>>
<1> DEFINE r == RetStack(s, name)
<1>1. r \in Stack /\ Even(r)
  BY RetStackEven
<1>2. r.sites = s.sites
  BY DEF RetStack, Stack
<1>3. s.funs = <<>> => r.funs = <<>>
  BY DEF RetStack, Stack
<1>4. (r.funs # <<>> /\ Top(r) = name) => p[Len(p)] = name
  <2>1. CASE s.funs # <<>> /\ Top(s) = name
    BY <2>1 DEF OnStack
  <2>2. CASE s.funs = <<>> \/ Top(s) # name
    <3>1. r.funs = s.funs
      BY <2>2 DEF RetStack, Stack
    <3>2. QED
      BY <2>2, <3>1 DEF Top
  <2>3. QED
    BY <2>1, <2>2
<1> HIDE DEF r
<1>5. /\ \E n \in 1 .. Len(p) : NamesTo(r.sites, p, n)
      /\ r.funs # <<>> => NamesTo(r.sites, p, Len(p))
  BY <1>2, <1>3 DEF OnStack
<1>6. /\ OnStack(UpdateStack(r, name), Stepped(p, name))
      /\ UpdateStack(r, name).sites # <<>>
      /\ UpdateStack(r, name).funs = <<>> <=> r.funs = <<>>
  BY <1>1, <1>2, <1>4, <1>5, UpdateFollows
<1>7. QED
  BY <1>3, <1>6 DEF r

-----------------------------------------------------------------------------
(* Once the table is loaded it does not change, and where it is separated  *)
(* it answers what an uncached search answers.                             *)
LEMMA AnswerIsSearch ==
  ASSUME Inv, CacheTransparent, NEW addr \in Address, GetFunRoutine(addr)
  PROVE  /\ Separated' <=> Separated
         /\ Loaded'
         /\ FirstHolder(addr) \in Nat
         /\ Separated => answer'.rtn = FirstHolder(addr)
<1>1. rtns' = rtns /\ answer'.addr = addr /\ answer'.by = "cached"
  BY DEF GetFunRoutine
<1>2. (Separated' <=> Separated) /\ FirstHolder(addr)' = FirstHolder(addr)
  BY <1>1 DEF Separated, FirstHolder, Holders
<1>3. CacheTransparent'
  BY CacheStep DEF Next
<1>4. Separated => answer'.rtn = FirstHolder(addr)
  BY <1>1, <1>2, <1>3 DEF CacheTransparent, FirstHolder, Holders
<1>5. FirstHolder(addr) \in 0 .. Len(rtns) /\ Len(rtns) \in Nat
  <2>1. rtns \in Seq(Routine)
    BY DEF Inv, TypeOK
  <2>2. QED
    BY <2>1, FirstHolderFinds
<1>6. Loaded'
  BY <1>5 DEF GetFunRoutine, Loaded, NotFound
<1>7. QED
  BY <1>2, <1>4, <1>5, <1>6

(* Of a table that no longer changes.                                      *)
LEMMA TableKept ==
  ASSUME Inv, Loaded, Next
  PROVE  Loaded' /\ (Separated' <=> Separated)
<1>1. read = Len(file) /\ cache # 0
  BY DEF Inv, CacheSetLast, Loaded
<1>2. rtns \in Seq(Routine) /\ ~ LoadLine /\ ~ FinishLoading
  BY <1>1 DEF LoadLine, FinishLoading, Inv, TypeOK
<1>3. PICK addr \in Address : GetFunRoutine(addr) \/ GetFunctionAndLibrary(addr)
  BY <1>2 DEF Next
<1>4. rtns' = rtns
  BY <1>3 DEF GetFunRoutine, GetFunctionAndLibrary
<1>5. Loaded'
  <2>1. FirstHolder(addr) \in 0 .. Len(rtns)
    BY <1>2, FirstHolderFinds
  <2>2. QED
    BY <1>1, <1>3, <2>1 DEF GetFunRoutine, GetFunctionAndLibrary, Loaded, NotFound
<1>6. QED
  BY <1>4, <1>5 DEF Separated

(* The first site is that of the first instruction.                        *)
LEMMA NewStackReaches ==
  ASSUME NEW name \in Nat
  PROVE  /\ NewStack(name).sites # <<>>
         /\ Reaches(NewStack(name), <<name>>)
<1> DEFINE s == NewStack(name)
           p == <<name>>
<1>1. /\ s.sites = <<[name |-> name, depth |-> 0]>> /\ s.funs = <<name>> /\ s.fast = name
  BY DEF NewStack
<1>2. Len(s.sites) = 1 /\ s.sites[1].name = name /\ Len(p) = 1 /\ p[1] = name
  BY <1>1
<1>3. NamesTo(s.sites, p, 1)
  <2> DEFINE at == [i \in 1 .. 1 |-> 1]
  <2>1. at \in [1 .. 1 -> 1 .. 1] /\ at[1] = 1
    OBVIOUS
  <2> HIDE DEF at, s, p
  <2>2. \A i \in 1 .. 1 : s.sites[i].name = p[at[i]]
    BY <1>2, <2>1
  <2>3. \A i \in 1 .. 1 - 1 : at[i + 1] \in {at[i], at[i] + 1}
    OBVIOUS
  <2>4. at \in [1 .. Len(s.sites) -> 1 .. 1] /\ at[Len(s.sites)] = 1
    BY <1>2, <2>1
  <2>5. QED
    BY <1>2, <2>1, <2>2, <2>3, <2>4, Zenon DEF NamesTo
<1>4. Top(s) = name /\ s.sites # <<>>
  BY <1>1 DEF Top
<1> HIDE DEF s, p
<1>5. 1 \in 1 .. Len(p)
  BY <1>2
<1>6. QED
  BY <1>1, <1>2, <1>3, <1>4, <1>5 DEF Reaches, OnFast, OnStack, s, p

(* What SitesFollowPath says of one copy.                                  *)
Follows(c) ==
  /\ mode = "off"    => NamesTo(c.sites, c.path, 1)
  /\ mode = "fast"   => NamesTo(c.sites, c.path, Len(c.path))
  /\ mode = "stacks" =>
       /\ \E n \in 1 .. Len(c.path) : NamesTo(c.sites, c.path, n)
       /\ (\A k \in KeyIds : stacks[k].funs # <<>>) =>
             NamesTo(c.sites, c.path, Len(c.path))

(* SitesFollowPath, copy by copy.                                          *)
LEMMA FollowsIsProperty ==
  ASSUME mode \in {"off", "fast", "stacks"}
  PROVE  SitesFollowPath <=> \A c \in copies : Separated => Follows(c)
<1>1. CASE mode = "off"
  BY <1>1 DEF SitesFollowPath, Follows
<1>2. CASE mode = "fast"
  BY <1>2 DEF SitesFollowPath, Follows
<1>3. CASE mode = "stacks"
  BY <1>3 DEF SitesFollowPath, Follows
<1>4. QED
  BY <1>1, <1>2, <1>3

(* The strengthening.  A stack that is empty stays empty, so the condition *)
(* of SitesFollowPath on the stacks of now speaks of the time of the copy. *)
SitesInv ==
  /\ mode \in {"off", "fast", "stacks"}
  /\ (~ Created \/ KeyIds = {}) => copies = {}
  /\ Created => Loaded /\ path \in Seq(Nat) \ {<<>>}
  /\ (Created /\ Separated) =>
       \A k \in KeyIds : stacks[k].sites # <<>> /\ Reaches(stacks[k], path)
  /\ \A c \in copies : Separated => Follows(c)

(* QIFSEEngine::init: sites and path begin with the same function.         *)
LEMMA StartReplayFollows ==
  ASSUME Inv, CacheTransparent, SitesInv, NEW addr \in Address, StartReplay(addr)
  PROVE  SitesInv'
<1> DEFINE name == answer'.rtn
           first == FirstHolder(addr)
<1>1. GetFunRoutine(addr) /\ Create(name) /\ path' = <<first>> /\ UNCHANGED <<mode, copies>>
  BY DEF StartReplay
<1>2. /\ (Separated' <=> Separated) /\ Loaded' /\ first \in Nat
      /\ Separated => name = first
  BY <1>1, AnswerIsSearch
<1>3. name \in Nat
  BY <1>1, AnswerIsName
<1>4. copies' = {} /\ stacks' = [k \in KeyIds |-> NewStack(name)]
  BY <1>1 DEF Create, SitesInv, Created
<1> HIDE DEF name, first
<1>5. <<first>> \in Seq(Nat) \ {<<>>}
  BY <1>2
<1>6. ASSUME Separated, NEW k \in KeyIds
      PROVE  stacks'[k].sites # <<>> /\ Reaches(stacks[k], path)'
  <2>1. stacks'[k] = NewStack(first) /\ path' = <<first>>
    BY <1>1, <1>2, <1>4, <1>6
  <2>2. NewStack(first).sites # <<>> /\ Reaches(NewStack(first), <<first>>)
    BY <1>2, NewStackReaches
  <2>3. QED
    BY <1>1, <2>1, <2>2 DEF Reaches
<1>7. QED
  BY <1>1, <1>2, <1>4, <1>5, <1>6 DEF SitesInv

(* An instruction moves every stack and the path alike; copies are left.   *)
LEMMA ExecuteFollows ==
  ASSUME Inv, CacheTransparent, StacksInv, SitesInv,
         NEW addr \in Address, NEW isRet \in BOOLEAN, Execute(addr, isRet)
  PROVE  SitesInv'
<1> DEFINE name == answer'.rtn
           here == FirstHolder(addr)
           p    == Stepped(path, here)
<1>1. /\ Created /\ Loaded /\ path \in Seq(Nat) \ {<<>>} /\ path' = p
      /\ mode' = mode /\ copies' = copies
      /\ mode \in {"off", "fast", "stacks"}
      /\ stacks \in [KeyIds -> Stack] /\ \A k \in KeyIds : Even(stacks[k])
      /\ Separated => \A k \in KeyIds : stacks[k].sites # <<>> /\ Reaches(stacks[k], path)
      /\ \A c \in copies : Separated => Follows(c)
  BY DEF Execute, SitesInv, StacksInv, Created
<1>2. here \in Nat
  <2>1. rtns \in Seq(Routine)
    BY DEF Inv, TypeOK
  <2>2. here \in 0 .. Len(rtns) /\ Len(rtns) \in Nat
    BY <2>1, FirstHolderFinds
  <2>3. QED
    BY <2>2
<1>3. /\ (Separated' <=> Separated) /\ Loaded'
      /\ (mode # "off" /\ Separated) => name = here
  <2>1. CASE mode = "off"
    BY <1>1, <2>1 DEF Execute, vars, Separated, Loaded
  <2>2. CASE mode # "off"
    BY <2>2, AnswerIsSearch DEF Execute
  <2>3. QED
    BY <2>1, <2>2
<1>4. mode # "off" =>
        \/ mode = "fast" /\ FastCallStack(name)
        \/ mode = "stacks" /\ (RetInst(name) \/ ProceedInst(name))
  BY <1>1 DEF Execute
<1>5. p \in Seq(Nat) \ {<<>>}
  BY <1>1, <1>2, SteppedPath
<1> HIDE DEF name, here
<1>6. ASSUME Separated, NEW k \in KeyIds
      PROVE  /\ stacks'[k].sites # <<>> /\ Reaches(stacks[k], path)'
             /\ mode = "stacks" /\ stacks[k].funs = <<>> => stacks'[k].funs = <<>>
  <2>1. /\ stacks[k] \in Stack /\ Even(stacks[k])
        /\ stacks[k].sites # <<>> /\ Reaches(stacks[k], path)
    BY <1>1, <1>6
  <2> DEFINE s == stacks[k]
  <2>2. CASE mode = "off"
    <3>1. stacks' = stacks
      BY <2>2 DEF Execute
    <3>2. NamesTo(s.sites, path, 1) /\ 1 \in 1 .. Len(path)
      BY <1>1, <2>1, <2>2 DEF Reaches
    <3>3. NamesTo(s.sites, p, 1)
      BY <1>1, <1>2, <2>1, <3>2, SitesStay
    <3>4. QED
      BY <1>1, <2>1, <2>2, <3>1, <3>3 DEF Reaches
  <2>3. CASE mode = "fast"
    <3>1. stacks'[k] = FastUpdate(s, here)
      BY <1>1, <1>3, <1>4, <1>6, <2>3 DEF FastCallStack
    <3>2. OnFast(s, path)
      BY <2>1, <2>3 DEF Reaches
    <3>3. OnFast(FastUpdate(s, here), p) /\ FastUpdate(s, here).sites # <<>>
      BY <1>1, <1>2, <2>1, <3>2, FastFollows
    <3>4. QED
      BY <1>1, <2>3, <3>1, <3>3 DEF Reaches, OnFast
  <2>4. CASE mode = "stacks" /\ ProceedInst(here)
    <3>1. stacks'[k] = UpdateStack(s, here)
      BY <1>1, <2>4 DEF ProceedInst
    <3>2. OnStack(s, path)
      BY <2>1, <2>4 DEF Reaches
    <3>3. /\ OnStack(UpdateStack(s, here), p)
          /\ UpdateStack(s, here).sites # <<>>
          /\ UpdateStack(s, here).funs = <<>> <=> s.funs = <<>>
      <4>1. /\ \E n \in 1 .. Len(path) : NamesTo(s.sites, path, n)
            /\ s.funs # <<>> => NamesTo(s.sites, path, Len(path))
            /\ (s.funs # <<>> /\ Top(s) = here) => path[Len(path)] = here
        BY <3>2 DEF OnStack
      <4>2. QED
        BY <1>1, <1>2, <2>1, <4>1, UpdateFollows
    <3>4. QED
      BY <1>1, <2>4, <3>1, <3>3 DEF Reaches, OnStack
  <2>5. CASE mode = "stacks" /\ RetInst(here)
    <3> DEFINE u == UpdateStack(RetStack(s, here), here)
    <3>1. stacks'[k] = u
      BY <1>1, <2>5 DEF RetInst
    <3>2. OnStack(s, path)
      BY <2>1, <2>5 DEF Reaches
    <3>3. OnStack(u, p) /\ u.sites # <<>> /\ (s.funs = <<>> => u.funs = <<>>)
      BY <1>1, <1>2, <2>1, <3>2, RetFollows
    <3> HIDE DEF u
    <3>4. QED
      BY <1>1, <2>5, <3>1, <3>3 DEF Reaches, OnStack
  <2>6. QED
    BY <1>1, <1>3, <1>4, <1>6, <2>2, <2>3, <2>4, <2>5
<1>7. ASSUME Separated, NEW c \in copies
      PROVE  Follows(c)'
  <2>1. Follows(c)
    BY <1>1, <1>7
  <2>2. (mode = "stacks" /\ \A k \in KeyIds : stacks'[k].funs # <<>>) =>
          \A k \in KeyIds : stacks[k].funs # <<>>
    BY <1>6, <1>7
  <2>3. QED
    BY <1>1, <2>1, <2>2 DEF Follows
<1>8. QED
  <2>1. Created' => Loaded' /\ path' \in Seq(Nat) \ {<<>>}
    BY <1>1, <1>3, <1>5
  <2>2. (~ Created' \/ KeyIds = {}) => copies' = {}
    <3>1. CASE KeyIds = {}
      BY <1>1, <3>1 DEF SitesInv
    <3>2. CASE KeyIds # {}
      <4>1. DOMAIN stacks' = KeyIds
        BY <1>1, <1>4
           DEF Execute, FastCallStack, RetInst, ProceedInst
      <4>2. DOMAIN NoStacks = {}
        BY DEF NoStacks
      <4>3. Created'
        BY <3>2, <4>1, <4>2 DEF Created
      <4>4. QED
        BY <3>2, <4>3
    <3>3. QED
      BY <3>1, <3>2
  <2>3. QED
    BY <1>1, <1>3, <1>6, <1>7, <2>1, <2>2 DEF SitesInv

(* Questions of others do not change the table; a copy is as far along as  *)
(* its stack.                                                              *)
LEMMA SitesStep ==
  ASSUME Inv, CacheTransparent, StacksInv, SitesInv, [SitesNext]_<<vars, siteVars>>
  PROVE  SitesInv'
<1>1. CASE Table
  <2>1. Next /\ UNCHANGED siteVars
    BY <1>1 DEF Table, Asked, Next
  <2>2. Created => Loaded' /\ (Separated' <=> Separated)
    BY <2>1, TableKept DEF SitesInv
  <2>3. CASE Created
    BY <2>1, <2>2, <2>3
       DEF SitesInv, siteVars, Created, Follows, Reaches, OnFast, OnStack
  <2>4. CASE ~ Created
    BY <2>1, <2>4 DEF SitesInv, siteVars, Created
  <2>5. QED
    BY <2>3, <2>4
<1>2. ASSUME NEW key \in KeyIds, RecordConstraint(key)
      PROVE  SitesInv'
  <2>0. PICK new : new = [sites |-> stacks[key].sites, path |-> path]
    OBVIOUS
  <2>1. /\ Created /\ copies' = {new}
        /\ UNCHANGED <<vars, stacks, mode, path>>
    BY <1>2, <2>0 DEF RecordConstraint
  <2>2. new.sites = stacks[key].sites /\ new.path = path
    BY <2>0
  <2>3. ASSUME Separated
        PROVE  Follows(new)
    <3>1. Reaches(stacks[key], path)
      BY <2>1, <2>3 DEF SitesInv
    <3>2. QED
      BY <2>2, <3>1 DEF Follows, Reaches, OnFast, OnStack
  <2>4. Created' /\ (Separated' <=> Separated) /\ (Loaded' <=> Loaded)
    BY <2>1 DEF vars, Created, Separated, Loaded
  <2>5. Separated' => Follows(new)'
    BY <2>1, <2>3, <2>4 DEF Follows
  <2>6. Separated' => \A k \in KeyIds : stacks'[k].sites # <<>> /\ Reaches(stacks[k], path)'
    BY <2>1, <2>4 DEF SitesInv, Reaches
  <2>7. QED
    BY <1>2, <2>1, <2>4, <2>5, <2>6 DEF SitesInv
<1>3. CASE UNCHANGED <<vars, siteVars>>
  BY <1>3 DEF SitesInv, vars, siteVars, Created, Loaded, Separated, Follows, Reaches, OnFast, OnStack
<1>4. QED
  BY <1>1, <1>2, <1>3, StartReplayFollows, ExecuteFollows DEF SitesNext

(* The sites that are printed with a leak are the functions executed       *)
(* before it, in order, in each of the three ways QIFSEEngine keeps them   *)
(* (as compiled the first only): for every separated table, whoever asks   *)
(* it in between, every trace of instructions and every key.               *)
THEOREM SitesAreThePath == SitesSpec => []SitesFollowPath
<1>1. SitesInit => Inv /\ CacheTransparent /\ StacksInv /\ SitesInv
  <2> SUFFICES ASSUME SitesInit
               PROVE  Inv /\ CacheTransparent /\ StacksInv /\ SitesInv
    OBVIOUS
  <2>1. Init /\ Inv
    BY InvInit DEF SitesInit
  <2>2. CacheTransparent
    BY <2>1 DEF Init, CacheTransparent, NoAnswer
  <2>3. StacksInv /\ SitesInv
    BY DEF SitesInit, StacksInit, StacksInv, SitesInv, Created
  <2>4. QED
    BY <2>1, <2>2, <2>3
<1>2. /\ Inv /\ CacheTransparent /\ StacksInv /\ SitesInv
      /\ [SitesNext]_<<vars, siteVars>>
      => Inv' /\ CacheTransparent' /\ StacksInv' /\ SitesInv'
  <2> SUFFICES ASSUME Inv, CacheTransparent, StacksInv, SitesInv,
                      [SitesNext]_<<vars, siteVars>>
               PROVE  Inv' /\ CacheTransparent' /\ StacksInv' /\ SitesInv'
    OBVIOUS
  <2>1. [Next]_vars
    BY TableSteps
  <2>2. Inv' /\ CacheTransparent'
    BY <2>1, InvStep, CacheStep
  <2>3. StacksInv' /\ SitesInv'
    BY StacksStep, SitesStep
  <2>4. QED
    BY <2>2, <2>3
<1>3. SitesInv => SitesFollowPath
  BY FollowsIsProperty DEF SitesInv
<1>4. QED
  BY <1>1, <1>2, <1>3, PTL DEF SitesSpec

(* Fed by the replay and asked by the error messages, the table is still   *)
(* the table: what was proved of it holds in the composition.              *)
THEOREM TableIsKept == SitesSpec => Spec
<1>1. SitesInit => Init
  BY DEF SitesInit
<1>2. [SitesNext]_<<vars, siteVars>> => [Next]_vars
  BY TableSteps
<1>3. QED
  BY <1>1, <1>2, PTL DEF SitesSpec, Spec

=============================================================================
