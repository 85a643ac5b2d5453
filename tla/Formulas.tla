------------------------------- MODULE Formulas -------------------------------
(***************************************************************************)
(* The formulas of the symbolic engines (BitVector): leaves, which are     *)
(* symbols with a number or constants, and operations on formulas.  An     *)
(* extraction has the bits it takes.  Words have Width bits.               *)
(*                                                                         *)
(* Recursion over the tree makes the operators RECURSIVE: this module is   *)
(* for model checking only.                                                *)
(***************************************************************************)
EXTENDS Integers, Sequences, FiniteSets, Bitwise, SequencesExt

CONSTANT Width       (* REGISTER_SIZE, 32 in the code                       *)

Values == 0 .. 2^Width - 1
Cut(n) == n % 2^Width

Symbol(id) == [op |-> "symbol", id |-> id]
Concrete(v) == [op |-> "concrete", value |-> v]
BuildOp(op, args) == [op |-> op, args |-> args]
ExtractOf(v, low, high) == [op |-> "extract", args |-> <<v>>, low |-> low, high |-> high]

IsLeaf(v) == v.op \in {"symbol", "concrete"}

(* getInputSymbolSet                                                       *)
RECURSIVE InputSymbolSet(_)
InputSymbolSet(v) ==
  IF v.op = "symbol" THEN {v.id}
  ELSE IF v.op = "concrete" THEN {}
  ELSE UNION { InputSymbolSet(v.args[i]) : i \in DOMAIN v.args }

(* getFormulaLength: the nodes of the tree.                                *)
RECURSIVE FormulaLength(_)
FormulaLength(v) ==
  IF IsLeaf(v) THEN 1
  ELSE 1 + FoldLeft(LAMBDA n, w : n + FormulaLength(w), 0, v.args)

(* operator==: the same operations on the same leaves.  The bits of an     *)
(* extraction are not compared.                                            *)
RECURSIVE SameFormula(_, _)
SameFormula(v, w) ==
  IF IsLeaf(v) \/ IsLeaf(w) THEN v = w
  ELSE /\ v.op = w.op
       /\ Len(v.args) = Len(w.args)
       /\ \A i \in DOMAIN v.args : SameFormula(v.args[i], w.args[i])

(* The functions of BitVector.cpp on Width bits.                           *)
BV == INSTANCE FlagFormulas WITH ByteBits <- Width \div 4, Inputs <- {}

Rotated(x, n) ==
  LET k == n % Width IN Cut(x * 2^k) + x \div 2^(Width - k)

(* A byte or word of a product, extended with its sign.                    *)
Narrow(product, low, size) == Cut(BV!Signed((product \div (2^low)) % (2^size), size))

SignedProduct(x, y) == BV!Signed(x, Width) * BV!Signed(y, Width)

Flag(b) == IF b THEN 1 ELSE 0

(* The bits a formula has: those of the extraction, the sum of the two     *)
(* parts, the target of an extension, a register's for three operands and  *)
(* otherwise those of the first operand.                                   *)
RECURSIVE Size(_)
Size(v) ==
  CASE v.op = "extract" -> v.high - v.low + 1
    [] v.op = "concat" -> Size(v.args[1]) + Size(v.args[2])
    [] v.op = "signext" -> v.size
    [] IsLeaf(v) \/ v.op = "zeroext" \/ Len(v.args) = 3 -> Width
    [] OTHER -> Size(v.args[1])

(* The cases of eval on the values x, y, z of the operands; m and n are    *)
(* the sizes of the first two.  C++ leaves shifts by Width or more open;   *)
(* x86 takes the count modulo Width.                                       *)
Applied(v, x, y, z, m, n) ==
  CASE v.op = "add" -> Cut(x + y)
    [] v.op = "sub" -> Cut(x - y)
    [] v.op \in {"imul", "imul32_l", "mul", "mul32_l"} -> Cut(x * y)
    [] v.op = "xor" -> x ^^ y
    [] v.op = "xor3" -> (x ^^ y) ^^ z
    [] v.op = "and" -> x & y
    [] v.op = "and3" -> (x & y) & z
    [] v.op = "or" -> x | y
    [] v.op = "or3" -> (x | y) | z
    [] v.op = "not" -> Cut(-1 - x)
    [] v.op = "neg" -> Cut(-x)
    [] v.op = "shl" -> Cut(x * 2^(y % Width))
    [] v.op = "shr" -> x \div 2^(y % Width)
    [] v.op = "sar" -> Cut(BV!Signed(x, Width) \div 2^(y % Width))
    [] v.op = "rol" -> Rotated(x, y)
    [] v.op = "ror" -> Rotated(x, Width - (y % Width))
    [] v.op = "shld" -> BV!Shld(x, y, z)
    [] v.op = "shrd" -> BV!Shrd(x, y, z)
    [] v.op = "quo" -> x \div y
    [] v.op = "rem" -> x % y
    [] v.op = "bit" -> Flag(BV!BitOf(x, y))
    [] v.op = "bsf" -> BV!Bsf(x)
    [] v.op = "equal" -> Flag(x = y)
    [] v.op = "noequal" -> Flag(x # y)
    [] v.op = "greater" -> Flag(x > y)
    [] v.op = "less" -> Flag(x < y)
    [] v.op = "bitnot" -> Flag(x = 0)
    [] v.op = "zeroext" -> x
    [] v.op = "signext" -> BV!Signed(x % (2^m), m) % (2^v.size)
    [] v.op = "concat" -> BV!Joined(x, y, m, n)
    [] v.op = "extract" -> (x \div 2^(v.low - 1)) % (2^(v.high - v.low + 1))
    [] v.op = "mul32_h" -> BV!MulHigh(x, y)
    [] v.op = "imul32_h" -> Cut(SignedProduct(x, y) \div 2^Width)
    [] v.op = "imul16_l" -> Narrow(SignedProduct(x, y), 0, Width \div 2)
    [] v.op = "imul16_h" -> Narrow(SignedProduct(x, y), Width \div 2, Width \div 2)
    [] v.op = "imul8_l" -> Narrow(SignedProduct(x, y), 0, Width \div 4)
    [] v.op = "imul8_h" -> Narrow(SignedProduct(x, y), Width \div 4, Width \div 4)
    [] v.op = "div32_quo" -> BV!DivQuo(x, y, z)
    [] v.op = "div32_rem" -> BV!DivRem(x, y, z)
    [] v.op = "idiv32_quo" -> BV!IdivQuo(x, y, z)
    [] v.op = "idiv32_rem" -> BV!IdivRem(x, y, z)

(* eval: input gives each symbol its value.                                *)
RECURSIVE Eval(_, _)
Eval(v, input) ==
  LET operand(i) == IF i <= Len(v.args) THEN Eval(v.args[i], input) ELSE 0 IN
  CASE v.op = "concrete" -> v.value
    [] v.op = "symbol" -> input[v.id]
    [] OTHER -> Applied(v, operand(1), operand(2), operand(3), Size(v.args[1]),
                        IF Len(v.args) > 1 THEN Size(v.args[2]) ELSE 0)

-----------------------------------------------------------------------------
(* eval_fast, which the repository uses for formulas without symbols: the  *)
(* nodes go through one stack to another and come back operands first;     *)
(* values wait on a third.                                                 *)
RECURSIVE Visited(_, _)
Visited(stack1, stack2) ==
  IF stack1 = <<>> THEN stack2
  ELSE LET top == Last(stack1) IN
       Visited(Front(stack1) \o (IF IsLeaf(top) THEN <<>> ELSE top.args), Append(stack2, top))

(* The number of values a case pops.                                       *)
PopOne == {"zeroext", "extract", "signext", "neg", "not", "bitnot", "bsf"}

PopThree == {"shld", "shrd", "xor3", "and3", "or3"}

PopThreeWide == {"idiv32_quo", "idiv32_rem", "div32_quo", "div32_rem"}

PopTwo ==
  {"concat", "add", "sub", "imul", "xor", "and", "or", "shl", "shr", "bit", "sar", "rol", "ror"}

PopTwoCompare == {"quo", "rem", "equal", "noequal", "greater", "less"}

PopTwoWide ==
  {"mul32_h", "mul32_l", "mul", "imul32_l", "imul32_h", "imul16_l", "imul16_h", "imul8_l",
   "imul8_h"}

Pops(op) ==
  CASE op \in PopOne -> 1
    [] op \in PopTwo \cup PopTwoCompare \cup PopTwoWide -> 2
    [] op \in PopThree \cup PopThreeWide -> 3

(* The new value has the size of a register but for two of the cases.      *)
NewSize(v, m, n) ==
  CASE v.op = "concat" -> m + n
    [] v.op = "signext" -> v.size
    [] OTHER -> Width

(* The first operand is taken for the last.                                *)
FastStep_Reversed(stack3, v) ==
  IF IsLeaf(v) THEN Append(stack3, [value |-> IF v.op = "concrete" THEN v.value ELSE 0,
                                    size |-> Width])
  ELSE LET n == Pops(v.op)
           below == SubSeq(stack3, 1, Len(stack3) - n)
           popped(i) == IF i <= n THEN stack3[Len(stack3) - i + 1] ELSE [value |-> 0, size |-> 0]
       IN  Append(below, [value |-> Applied(v, popped(1).value, popped(2).value, popped(3).value,
                                            popped(1).size, popped(2).size),
                          size |-> NewSize(v, popped(1).size, popped(2).size)])

(* A leaf goes onto the third stack; a symbol counts for the 0 it was made *)
(* with, whatever values were given.                                       *)
FastStep(stack3, v) ==
  IF IsLeaf(v) THEN Append(stack3, [value |-> IF v.op = "concrete" THEN v.value ELSE 0,
                                    size |-> Width])
  ELSE LET n == Pops(v.op)
           below == SubSeq(stack3, 1, Len(stack3) - n)
           popped(i) == IF i <= n THEN stack3[Len(below) + i] ELSE [value |-> 0, size |-> 0]
       IN  Append(below, [value |-> Applied(v, popped(1).value, popped(2).value, popped(3).value,
                                            popped(1).size, popped(2).size),
                          size |-> NewSize(v, popped(1).size, popped(2).size)])

(* For operations; a single leaf makes the second stack run empty.         *)
FastEval(v) == Last(FoldLeft(FastStep, <<>>, Reverse(Visited(<<v>>, <<>>)))).value
=============================================================================
