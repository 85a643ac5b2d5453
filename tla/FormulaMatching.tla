--------------------------- MODULE FormulaMatching ---------------------------
(***************************************************************************)
(* The comparison of two traces by SymbolicExecution, after the replay:    *)
(* the formulas the engines end with are collected and thinned out, and    *)
(* matchFunction looks for a target formula for every reference formula.   *)
(* Two formulas match when fuzzing agrees, or when they have the same      *)
(* shape, where subformulas with different operations at their roots must  *)
(* have a mapping of their bits: bitVarmap refines a partial mapping by    *)
(* feeding both formulas unit vectors and counting the ones that come out, *)
(* pairs two bits and calls itself when that is not enough.  Bits already  *)
(* mapped get random values, the same on both sides.                       *)
(***************************************************************************)
EXTENDS Formulas, BitMapping, TLC

CONSTANTS
  Traces,       (* what the two engines may end with                       *)
  MinLength,    (* FORMULA_MIN_LENGTH: 6                                   *)
  MaxLength,    (* FORMULA_MAX_LENGTH: 65535                               *)
  MinInputs,    (* MIN_NUM_INPUT: 2                                        *)
  MaxPermuted   (* 5: more inputs than these get the value 1               *)

VARIABLES
  ends,      (* registers and cells of the two engines at the end          *)
  formulas,  (* reference and target formulas that are compared            *)
  phase,     (* executed, matching, checking, mapping, done                *)
  at,        (* matchFunction's i and j                                    *)
  result,    (* reference formula -> target formula                        *)
  todo       (* checkFormula: pairs of subformulas still to be compared    *)

matchVars == <<ends, formulas, phase, at, result, todo>>
vars == <<matchVars, mapVars>>

-----------------------------------------------------------------------------
(* getAllOutput: operations, not leaves, in eax to edx and in memory;      *)
(* isTree refuses the large ones.                                          *)
Outputs(end) ==
  SelectSeq(end.registers \o end.cells,
            LAMBDA v : ~ IsLeaf(v) /\ FormulaLength(v) <= MaxLength)

(* reduceValues: the first of equal formulas, without short and long ones. *)
ReduceValues(vs) ==
  LET first == SelectSeq([i \in DOMAIN vs |-> i],
                         LAMBDA i : \A k \in 1 .. i - 1 : ~ SameFormula(vs[k], vs[i]))
  IN  SelectSeq([i \in DOMAIN first |-> vs[first[i]]],
                LAMBDA v : FormulaLength(v) \in MinLength .. MaxLength)

InputNumber(v) == Cardinality(InputSymbolSet(v))

(* input2val and conexec: the i-th value for the i-th symbol.              *)
ValueOf(v, values) ==
  LET symbols == InputSymbolSet(v) IN
  Eval(v, [s \in symbols |-> values[Cardinality({ t \in symbols : t <= s })]])

-----------------------------------------------------------------------------
(* fuzzFormula.  std::next_permutation yields ascending order.             *)
RECURSIVE PermutationsOf(_)
PermutationsOf(s) ==
  IF s = {} THEN << <<>> >>
  ELSE FlattenSeq([k \in 1 .. Cardinality(s) |->
         LET x == Ascending(s)[k]
             rest == PermutationsOf(s \ {x})
         IN  [i \in DOMAIN rest |-> <<x>> \o rest[i]]])

(* extendVector                                                            *)
Extended(values, n) == values \o [i \in 1 .. n - Len(values) |-> 1]

(* The loop stops one permutation early.                                   *)
TestSet_NotLast(n) ==
  LET all == PermutationsOf(1 .. IF n > MaxPermuted THEN MaxPermuted ELSE n)
  IN  [i \in 1 .. Len(all) - 1 |-> Extended(all[i], n)]

TestSet(n) ==
  LET all == PermutationsOf(1 .. IF n > MaxPermuted THEN MaxPermuted ELSE n)
  IN  [i \in DOMAIN all |-> Extended(all[i], n)]

Plus1(values) == [i \in DOMAIN values |-> Cut(values[i] + 1)]
Times15(values) == [i \in DOMAIN values |-> Cut(values[i] * 15)]

(* One turn of the loop over the permutations.  A permutation that agrees  *)
(* at first and fails a later test leaves the reference's last value       *)
(* behind, with which the remaining ones are compared.                     *)
TryPermutation(v1, v2, seed, acc, test) ==
  IF acc.found \/ ValueOf(v2, test) # acc.output1 THEN acc
  ELSE LET mul1 == ValueOf(v1, Times15(Plus1(seed)))
       IN  [found |-> /\ ValueOf(v1, Plus1(seed)) = ValueOf(v2, Plus1(test))
                      /\ mul1 = ValueOf(v2, Times15(Plus1(test))),
            output1 |-> mul1]

FuzzFormula(v1, v2) ==
  LET n == InputNumber(v1)
      same == [i \in 1 .. n |-> Cut(15)]
      seed == Extended([i \in 1 .. (IF n > MaxPermuted THEN MaxPermuted ELSE n) |-> i], n)
  IN  /\ n = InputNumber(v2)
      /\ ValueOf(v1, same) = ValueOf(v2, same)
      /\ FoldLeft(LAMBDA acc, test : TryPermutation(v1, v2, seed, acc, test),
                  [found |-> FALSE, output1 |-> ValueOf(v1, seed)], TestSet(n)).found

-----------------------------------------------------------------------------
OutputBits == Bits(Width)
InputBits(v) == Bits(Width * InputNumber(v))

(* Setting row i of a matrix of inputs: the i-th bit that is not mapped is *)
(* one, the other unmapped bits zero; a mapped bit has its random value,   *)
(* which rows past the unmapped bits have alone.  The other side's matrix  *)
(* is set at the places of the first side's unmapped bits.                 *)
UnmappedBits(v, mapped) == Ascending(InputBits(v) \ mapped)

Ones1(v, mapIn, r, i) ==
  LET unmapped == UnmappedBits(v, DOMAIN mapIn) IN
  { b \in DOMAIN mapIn : r[b] }
    \cup (IF i < Len(unmapped) THEN {unmapped[i + 1]} ELSE {})

(* Random values of their own for the other side.                          *)
Ones2_Inverted(v1, mapIn, r, i) ==
  LET unmapped == UnmappedBits(v1, DOMAIN mapIn) IN
  IF i < Len(unmapped)
  THEN ({ mapIn[b] : b \in { c \in DOMAIN mapIn : ~ r[c] } } \ ToSet(unmapped)) \cup {unmapped[i + 1]}
  ELSE { mapIn[b] : b \in { c \in DOMAIN mapIn : ~ r[c] } }

Ones2(v1, mapIn, r, i) ==
  LET unmapped == UnmappedBits(v1, DOMAIN mapIn)
      random == { mapIn[b] : b \in { c \in DOMAIN mapIn : r[c] } }
  IN  IF i < Len(unmapped) THEN (random \ ToSet(unmapped)) \cup {unmapped[i + 1]}
      ELSE random

(* bv2var: word k of the input has bits Width * k and on.                  *)
WordsOf(v, ones) ==
  [k \in 1 .. InputNumber(v) |->
     FoldLeft(LAMBDA n, b : n + (IF Width * (k - 1) + b \in ones THEN 2^b ELSE 0), 0,
              [b \in 1 .. Width |-> b - 1])]

BitOf(x, b) == (x \div 2^b) % 2

(* setOutputMatrix: the outputs for the rows of an input matrix.           *)
OutputOf(v, rows) ==
  [i \in InputBits(v) |-> ValueOf(v, WordsOf(v, rows[i]))]

OnesIn(x) == FoldLeft(LAMBDA n, b : n + BitOf(x, b - 1), 0, [b \in 1 .. Width |-> b])

(* getRowVector, getColVector                                              *)
RowVector(out) == [i \in DOMAIN out |-> OnesIn(out[i])]
ColVector(out) ==
  [b \in OutputBits |-> Cardinality({ i \in DOMAIN out : BitOf(out[i], b) = 1 })]

-----------------------------------------------------------------------------
Init ==
  /\ ends \in Traces
  /\ formulas = [reference |-> <<>>, target |-> <<>>]
  /\ phase = "executed"
  /\ at = <<1, 1>>
  /\ result = <<>>
  /\ todo = <<>>
  /\ MapInit

(* main: formulas are collected and thinned out; lists whose lengths       *)
(* differ by more than a factor of three are not compared.                 *)
CollectFormulas ==
  LET reference == ReduceValues(Outputs(ends.reference))
      target == ReduceValues(Outputs(ends.target))
  IN  /\ phase = "executed"
      /\ formulas' = [reference |-> reference, target |-> target]
      /\ phase' = IF Len(reference) > 3 * Len(target) \/ Len(target) > 3 * Len(reference)
                  THEN "done" ELSE "matching"
      /\ UNCHANGED <<ends, at, result, todo, mapVars>>

Reference == formulas.reference[at[1]]
Target == formulas.target[at[2]]

AtReference == phase = "matching" /\ at[1] <= Len(formulas.reference)
AtPair == AtReference /\ at[2] <= Len(formulas.target)

NextReference == at' = <<at[1] + 1, 1>>
NextTarget == at' = <<at[1], at[2] + 1>>

Record == result' = (at[1] :> at[2]) @@ result

(* The reference formula has too few inputs, or has met every target.      *)
SkipReference ==
  /\ AtReference
  /\ at[2] > Len(formulas.target) \/ InputNumber(Reference) < MinInputs
  /\ NextReference
  /\ UNCHANGED <<ends, formulas, phase, result, todo, mapVars>>

(* The first condition follows from the second and the reference's own.    *)
SkipTarget ==
  /\ AtPair
  /\ InputNumber(Reference) >= MinInputs
  /\ InputNumber(Target) # InputNumber(Reference)
  /\ NextTarget
  /\ UNCHANGED <<ends, formulas, phase, result, todo, mapVars>>

Comparable ==
  /\ AtPair
  /\ InputNumber(Reference) >= MinInputs
  /\ InputNumber(Target) = InputNumber(Reference)

FuzzMatches ==
  /\ Comparable
  /\ FuzzFormula(Reference, Target)
  /\ Record
  /\ NextReference
  /\ UNCHANGED <<ends, formulas, phase, todo, mapVars>>

StartCheck ==
  /\ Comparable
  /\ ~ FuzzFormula(Reference, Target)
  /\ phase' = "checking"
  /\ todo' = << <<Reference, Target>> >>
  /\ UNCHANGED <<ends, formulas, at, result, mapVars>>

Finish ==
  /\ phase = "matching"
  /\ at[1] > Len(formulas.reference)
  /\ phase' = "done"
  /\ UNCHANGED <<ends, formulas, at, result, todo, mapVars>>

-----------------------------------------------------------------------------
(* checkFormula on the first pair of todo; the rest are the comparisons    *)
(* that && has yet to make.                                                *)
Left == todo[1][1]
Right == todo[1][2]

LeavesAgree ==
  /\ IsLeaf(Left) /\ IsLeaf(Right)
  /\ Left.op = Right.op
  /\ Left.op = "concrete" => Left.value = Right.value

BothOperations == ~ IsLeaf(Left) /\ ~ IsLeaf(Right)

(* varmapAndoutputCVC for formulas without inputs: constants, but neither  *)
(* of the three that many formulas simplify to.                            *)
ConstantsAgree ==
  LET c == Eval(Left, <<>>) IN c = Eval(Right, <<>>) /\ c \notin {0, 1, Cut(255)}

SubformulaAgrees ==
  \/ LeavesAgree
  \/ /\ BothOperations
     /\ Left.op # Right.op
     /\ InputNumber(Left) = 0 /\ InputNumber(Right) = 0
     /\ ConstantsAgree

SubformulaDescends ==
  BothOperations /\ Left.op = Right.op /\ Len(Left.args) = Len(Right.args)

SubformulaMapped ==
  /\ BothOperations
  /\ Left.op # Right.op
  /\ InputNumber(Left) = InputNumber(Right)
  /\ InputNumber(Left) > 1

Checking == phase = "checking" /\ todo # <<>>

CheckAgrees ==
  /\ Checking
  /\ SubformulaAgrees
  /\ todo' = Tail(todo)
  /\ UNCHANGED <<ends, formulas, phase, at, result, mapVars>>

CheckDescends ==
  /\ Checking
  /\ SubformulaDescends
  /\ todo' = [i \in DOMAIN Left.args |-> <<Left.args[i], Right.args[i]>>] \o Tail(todo)
  /\ UNCHANGED <<ends, formulas, phase, at, result, mapVars>>

CheckFails ==
  /\ Checking
  /\ ~ SubformulaAgrees /\ ~ SubformulaDescends /\ ~ SubformulaMapped
  /\ todo' = <<>>
  /\ phase' = "matching"
  /\ NextTarget
  /\ UNCHANGED <<ends, formulas, result, mapVars>>

CheckMatches ==
  /\ phase = "checking" /\ todo = <<>>
  /\ phase' = "matching"
  /\ Record
  /\ NextReference
  /\ UNCHANGED <<ends, formulas, todo, mapVars>>

-----------------------------------------------------------------------------
(* varmapAndoutputCVC                                                      *)
StartMapping ==
  /\ Checking
  /\ SubformulaMapped
  /\ CallMap(Width * InputNumber(Left), Width)
  /\ phase' = "mapping"
  /\ UNCHANGED <<ends, formulas, at, result, todo>>

(* The outputs of a formula for the rows of an input matrix, as counts of  *)
(* ones.                                                                   *)
Inputs1(r) == [i \in InputBits(Left) |-> Ones1(Left, Top.in.map, r, i)]
Inputs2(r) == [i \in InputBits(Right) |-> Ones2(Left, Top.in.map, r, i)]

(* randomizeMappedVar draws a value for every bit that is mapped.          *)
MapTests ==
  /\ phase = "mapping" /\ AtStage("entered")
  /\ \E r \in [DOMAIN Top.in.map -> BOOLEAN] :
       LET out1 == OutputOf(Left, Inputs1(r))
           out2 == OutputOf(Right, Inputs2(r))
       IN  Test(RowVector(out1), RowVector(out2), ColVector(out1), ColVector(out2))
  /\ UNCHANGED matchVars

MapRuns ==
  /\ phase = "mapping"
  /\ MapTurn
  /\ UNCHANGED matchVars

Rest_Same == todo

Rest == Tail(todo)

(* varmapAndoutputCVC after bitVarmap.                                     *)
MappingEnds ==
  /\ phase = "mapping"
  /\ ForgetMaps
  /\ IF maps # {}
     THEN phase' = "checking" /\ todo' = Rest /\ UNCHANGED at
     ELSE phase' = "matching" /\ todo' = <<>> /\ NextTarget
  /\ UNCHANGED <<ends, formulas, result>>

-----------------------------------------------------------------------------
MatchStep == CollectFormulas \/ SkipReference \/ SkipTarget \/ FuzzMatches \/ StartCheck \/ Finish
CheckStep == CheckAgrees \/ CheckDescends \/ CheckFails \/ CheckMatches
MapStep == StartMapping \/ MapTests \/ MapRuns \/ MappingEnds
Stopped == phase = "done" /\ UNCHANGED vars

Next == MatchStep \/ CheckStep \/ MapStep \/ Stopped

(* The program runs on until it is done.  As some step is possible until   *)
(* then, this is WF_vars(Next) without its ENABLED, which TLC is slow at.   *)
RunsOn == []<>(phase = "done") \/ []<><<TRUE>>_vars

Spec == Init /\ [][Next]_vars /\ RunsOn

-----------------------------------------------------------------------------
Inputs(n) == [1 .. n -> Values]

SameFunction(v, w) ==
  /\ InputNumber(v) = InputNumber(w)
  /\ \A x \in Inputs(InputNumber(v)) : ValueOf(v, x) = ValueOf(w, x)

Arranged(x, p) == [i \in DOMAIN x |-> x[p[i]]]

(* Target w computes reference v when its inputs are taken in the order p. *)
SameInOrder(v, w, p) ==
  \A x \in Inputs(InputNumber(v)) : ValueOf(v, x) = ValueOf(w, Arranged(x, p))

(* An order that agrees on the first test of fuzzFormula, but only there.  *)
AgreesByAccident(v, w, p) ==
  LET seed == [i \in 1 .. InputNumber(v) |-> i] IN
  ValueOf(v, seed) = ValueOf(w, Arranged(seed, p)) /\ ~ SameInOrder(v, w, p)

RECURSIVE NoExtraction(_)
NoExtraction(v) ==
  \/ IsLeaf(v)
  \/ v.op # "extract" /\ \A i \in DOMAIN v.args : NoExtraction(v.args[i])

(* What the replay left for a comparison: operations of proper length and  *)
(* number of inputs.  Extractions are left out, as reduceValues takes two  *)
(* that differ in their bits for the same.                                 *)
Candidates(end) ==
  { v \in ToSet(Outputs(end)) :
      /\ FormulaLength(v) \in MinLength .. MaxLength
      /\ InputNumber(v) \in MinInputs .. MaxPermuted
      /\ NoExtraction(v) }

(* No formula is missed for the order of its inputs: a reference formula   *)
(* that some target computes from inputs numbered in another order is      *)
(* matched, itself or the equal one kept, unless an order agrees by        *)
(* accident on the first test, or the lists are too different in length.   *)
SameFunctionFound ==
  phase = "done" /\ at[1] > Len(formulas.reference) =>
    \A v \in Candidates(ends.reference), w \in Candidates(ends.target) :
      LET orders == Permutations(1 .. InputNumber(v))
      IN  (/\ InputNumber(v) = InputNumber(w)
           /\ \E p \in orders : SameInOrder(v, w, p)
           /\ ~ \E p \in orders : AgreesByAccident(v, w, p))
          => \E i \in DOMAIN result : SameFormula(formulas.reference[i], v)

(* A part of a register that is not itself put together.                   *)
IsPart(v) == Size(v) # Width /\ v.op \notin {"concat", "signext"}

RECURSIVE JoinsPart(_)
JoinsPart(v) ==
  /\ ~ IsLeaf(v)
  /\ \/ v.op \in {"concat", "signext"} /\ \E i \in DOMAIN v.args : IsPart(v.args[i])
     \/ \E i \in DOMAIN v.args : JoinsPart(v.args[i])

RECURSIVE WithConstants(_, _)
WithConstants(v, input) ==
  CASE v.op = "symbol" -> Concrete(input[v.id])
    [] v.op = "concrete" -> v
    [] OTHER -> [v EXCEPT !.args = [i \in DOMAIN v.args |-> WithConstants(v.args[i], input)]]

(* The two evaluations agree on every formula whose symbols have been      *)
(* replaced by numbers, but for concatenations and sign extensions of      *)
(* parts: eval_fast forgets the size of what it extracts and computes.     *)
FastEvalAgrees ==
  phase = "executed" =>
    \A v \in ToSet(Outputs(ends.reference) \o Outputs(ends.target)) :
      ~ JoinsPart(v) =>
        \A input \in [InputSymbolSet(v) -> Values] :
          LET c == WithConstants(v, input) IN FastEval(c) = Eval(c, <<>>)

(* Subformulas that are the same function are mapped, whatever the random  *)
(* bits: the first pairing tried is the identity, and it stays consistent. *)
SameSubformulaMapped ==
  phase = "mapping" /\ frames = <<>> /\ SameFunction(Left, Right) =>
    FullMap([b \in InputBits(Left) |-> b], [b \in OutputBits |-> b]) \in maps

(* The comparison ends: every call of bitVarmap maps a bit more.           *)
Terminates == <>(phase = "done")
=============================================================================
