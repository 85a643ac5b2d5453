---------------------------- MODULE FlagFormulas ----------------------------
(***************************************************************************)
(* Results and flags of the arithmetic instructions: what the processor    *)
(* computes with n bits, and the formulas of lib/ins_semantics.cpp, which  *)
(* are evaluated with Bits bits whatever the size n of the operands.       *)
(* a and b are the destination's and the source's values, c the carry that *)
(* goes in.  Shifts and rotates are by one.                                *)
(***************************************************************************)
EXTENDS LaneFormulas, Bitwise

Differences == {"sub", "sbb", "cmp", "dec", "neg"}
Sums        == {"add", "adc", "inc"}
Logic       == {"and", "or", "xor", "test"}
Shifts      == {"shl", "shr", "sar"}
Rotates     == {"rol", "ror"}
WithCarry   == {"adc", "sbb"}
Operations  == Differences \cup Sums \cup Logic \cup Shifts \cup Rotates \cup {"not"}

(* The sum or difference itself.                                           *)
Total(op, a, b, c) ==
  CASE op \in {"add", "adc"}        -> a + b + c
    [] op \in {"sub", "sbb", "cmp"} -> a - b - c
    [] op = "inc"                   -> a + 1
    [] op = "dec"                   -> a - 1
    [] op = "neg"                   -> -a

(* The result with n bits, which eval computes with n = Bits.              *)
Result(n, op, a, b, c) ==
  CASE op \in Sums \cup Differences -> Total(op, a, b, c) % 2 ^ n
    [] op \in {"and", "test"}       -> a & b
    [] op = "or"                    -> a | b
    [] op = "xor"                   -> a ^^ b
    [] op = "not"                   -> (-a - 1) % 2 ^ n
    [] op = "shl"                   -> (2 * a) % 2 ^ n
    [] op = "shr"                   -> a \div 2
    [] op = "sar"                   -> (Signed(a, n) \div 2) % 2 ^ n
    [] op = "rol"                   -> ((2 * a) % 2 ^ n) + (a \div 2 ^ (n - 1))
    [] op = "ror"                   -> (a \div 2) + ((a % 2) * 2 ^ (n - 1))

Largest(n) == 2 ^ (n - 1) - 1

Negative(v, n) == v > Largest(n)

-----------------------------------------------------------------------------
(* The processor's flags after the instruction; old are those before it, r *)
(* is the result.                                                          *)
CarryOf(old, op, n, a, b, c, r) ==
  CASE op \in {"inc", "dec"}    -> old.CF
    [] op \in Logic             -> FALSE
    [] op = "shl"               -> Negative(a, n)
    [] op \in {"shr", "sar"}    -> a % 2 = 1
    [] op = "rol"               -> r % 2 = 1
    [] op = "ror"               -> Negative(r, n)
    [] OTHER                    -> Total(op, a, b, c) \notin 0 .. 2 ^ n - 1

OverflowOf(op, n, a, b, c, r) ==
  CASE op \in Logic \cup {"sar"} -> FALSE
    [] op \in {"shl", "rol"}     -> Negative(r, n) # Negative(a, n)
    [] op = "shr"                -> Negative(a, n)
    [] op = "ror"                -> Negative(r, n) # Negative((2 * r) % 2 ^ n, n)
    [] OTHER -> Signed(r, n) # Total(op, Signed(a, n), Signed(b, n), c)

ProcessorFlags(old, op, n, a, b, c, r) ==
  LET set == [old EXCEPT !.CF = CarryOf(old, op, n, a, b, c, r),
                         !.OF = OverflowOf(op, n, a, b, c, r)]
  IN  CASE op = "not"       -> old
        [] op \in Rotates   -> set
        [] OTHER            -> [set EXCEPT !.ZF = (r = 0), !.SF = Negative(r, n)]

-----------------------------------------------------------------------------
(* updateOFadd and updateOFsub of operands a, b and result r: the largest  *)
(* positive number is neither positive nor negative to them.               *)
OverflowAdd(n, a, b) ==
  LET r   == (a + b) % Modulus
      max == Largest(n)
  IN  \/ a < max /\ b < max /\ r > max
      \/ a > max /\ b > max /\ r < max

(* Only the first of the two situations.                                   *)
OverflowSub_OneSituation(n, a, b) ==
  a < Largest(n) /\ b > Largest(n) /\ (a - b) % Modulus > Largest(n)

OverflowSub(n, a, b) ==
  LET r   == (a - b) % Modulus
      max == Largest(n)
  IN  \/ a < max /\ b > max /\ r > max
      \/ a > max /\ b < max /\ r < max

(* A comparison the wrong way round.                                       *)
CarrySub_Swapped(a, b) == b < a

(* updateCFadd and updateCFsub.                                            *)
CarryAdd(n, a, b) == b > (2 ^ n - 1 - a) % Modulus
CarrySub(a, b)    == a < b

(* What the classes of the instructions update; r is the result with Bits  *)
(* bits.  INC and DEC leave CF alone, DEC takes the overflow of a sum,     *)
(* shifts and rotates update ZF only.                                      *)
EngineFlags(old, op, n, a, b, r) ==
  LET zero == [old EXCEPT !.ZF = (r = 0)]
      sign == [zero EXCEPT !.SF = Negative(r, n)]
  IN  CASE op = "not" -> old
        [] op \in Shifts \cup Rotates -> zero
        [] op \in Logic -> [sign EXCEPT !.CF = FALSE, !.OF = FALSE]
        [] op \in {"add", "adc"} ->
             [sign EXCEPT !.CF = CarryAdd(n, a, b), !.OF = OverflowAdd(n, a, b)]
        [] op \in {"sub", "sbb", "cmp"} ->
             [sign EXCEPT !.CF = CarrySub(a, b), !.OF = OverflowSub(n, a, b)]
        [] op \in {"inc", "dec"} -> [sign EXCEPT !.OF = OverflowAdd(n, a, 1)]
        [] op = "neg" -> [sign EXCEPT !.CF = CarrySub(0, a), !.OF = OverflowSub(n, 0, a)]

-----------------------------------------------------------------------------
(* What the instructions with a wide operand or result compute: the        *)
(* processor's operation on n bits and the functions of lib/BitVector.cpp, *)
(* which work on Bits bits.                                                *)
(*                                                                         *)
(* Signed numbers of two registers; division rounds towards zero.          *)
Pair(hi, lo) == hi * Modulus + lo

SignedPair(hi, lo) == Signed(hi, Bits) * Modulus + lo

Quotient(a, b) ==
  LET q == (IF a < 0 THEN -a ELSE a) \div (IF b < 0 THEN -b ELSE b)
  IN  IF (a < 0) = (b < 0) THEN q ELSE -q

Remainder(a, b) == a - Quotient(a, b) * b

-----------------------------------------------------------------------------
(* bvmul32_h and bvmul32_l.                                                *)
MulHigh(a, b) == (a * b) \div Modulus
MulLow(a, b)  == (a * b) % Modulus

(* bvdiv32_quo and bvdiv32_rem.                                            *)
DivQuo(hi, lo, d) == (Pair(hi, lo) \div d) % Modulus
DivRem(hi, lo, d) == (Pair(hi, lo) % d) % Modulus

(* bvidiv32_quo and bvidiv32_rem: the divisor is not sign-extended.        *)
IdivQuo(hi, lo, d) == Quotient(SignedPair(hi, lo), d) % Modulus
IdivRem(hi, lo, d) == Remainder(SignedPair(hi, lo), d) % Modulus

(* shld32 and shrd32, by a count of 1 .. Bits - 1.                         *)
Shld(a, b, count) == ((a * 2 ^ count) % Modulus) + (b \div 2 ^ (Bits - count))
Shrd(a, b, count) == (a \div 2 ^ count) + ((b * 2 ^ (Bits - count)) % Modulus)

(* BitVector::bit.                                                         *)
BitOf(a, i) == (a \div 2 ^ (i % Bits)) % 2 = 1

(* BitVector::bsf counts from the highest bit.                             *)
Bsf(a) ==
  IF a = 0 THEN 0
  ELSE CHOOSE i \in 0 .. Bits - 1 : a \div 2 ^ (Bits - 1 - i) = 1

(* The processor's bit scan: the lowest bit that is set.                   *)
LowestBit(a) ==
  CHOOSE i \in 0 .. Bits - 1 : a % 2 ^ i = 0 /\ BitOf(a, i)

(* The four bytes in reverse.                                              *)
Reversed(a) ==
  LET Byte(i) == Slice(a, ByteBits * i + 1, ByteBits * (i + 1))
  IN  Byte(0) * 2 ^ (3 * ByteBits) + Byte(1) * 2 ^ (2 * ByteBits)
      + Byte(2) * 2 ^ ByteBits + Byte(3)

-----------------------------------------------------------------------------
(***************************************************************************)
(* The conditions of the SETcc and CMOVcc classes of                       *)
(* lib/ins_semantics.cpp, written out by hand in each of them.             *)
(* f: the engine's flags for an input; own: the flags the trace recorded.  *)
(***************************************************************************)

CondMoves == {"cmovb", "cmovnb", "cmovz", "cmovnz", "cmovbe", "cmovnbe", "cmovs", "cmovns",
              "cmovl", "cmovnl", "cmovle"}

SetBytes == {"setz", "setnz", "setb", "setnb", "setbe", "setnbe", "setnl", "setle", "setnle"}

(* The jump that the processor takes on the same condition.                *)
JumpLike ==
  [cmovb  |-> "JB",  cmovnb |-> "JAE", cmovz |-> "JE", cmovnz |-> "JNE",
   cmovbe |-> "JBE", cmovnbe |-> "JA", cmovs |-> "JS", cmovns |-> "JNS",
   cmovl  |-> "JL",  cmovnl |-> "JGE", cmovle |-> "JLE",
   setb   |-> "JB",  setnb |-> "JAE",  setz |-> "JE",  setnz |-> "JNE",
   setbe  |-> "JBE", setnbe |-> "JA",  setnl |-> "JGE", setle |-> "JLE", setnle |-> "JG"]

-----------------------------------------------------------------------------
(* A conditional move looks at the recorded flags only, and returns early  *)
(* unless:                                                                 *)
CMOVB(own)   == own.CF
CMOVNB(own)  == ~ own.CF
CMOVZ(own)   == own.ZF
CMOVNZ(own)  == ~ own.ZF
CMOVBE(own)  == ~ (~ own.ZF /\ ~ own.CF)
CMOVNBE(own) == ~ (own.CF \/ own.ZF)
CMOVS(own)   == own.SF
CMOVNS(own)  == ~ own.SF
CMOVLE(own)  == ~ (~ own.ZF /\ own.SF = own.OF)
CMOVNL(own)  == own.SF = own.OF
CMOVL(own)   == own.SF # own.OF

Moves(op, own) ==
  \/ op = "cmovb"   /\ CMOVB(own)
  \/ op = "cmovnb"  /\ CMOVNB(own)
  \/ op = "cmovz"   /\ CMOVZ(own)
  \/ op = "cmovnz"  /\ CMOVNZ(own)
  \/ op = "cmovbe"  /\ CMOVBE(own)
  \/ op = "cmovnbe" /\ CMOVNBE(own)
  \/ op = "cmovs"   /\ CMOVS(own)
  \/ op = "cmovns"  /\ CMOVNS(own)
  \/ op = "cmovle"  /\ CMOVLE(own)
  \/ op = "cmovnl"  /\ CMOVNL(own)
  \/ op = "cmovl"   /\ CMOVL(own)

-----------------------------------------------------------------------------
(* A byte is set to a formula over the flags; SETB to the recorded carry.  *)
SETZ(f)   == f.ZF
SETNZ(f)  == ~ f.ZF
SETB(own) == own.CF
SETNB(f)  == ~ f.CF
SETBE(f)  == f.CF \/ f.ZF
SETNBE(f) == ~ f.ZF /\ ~ f.CF
SETNL(f)  == f.SF = f.OF
SETLE(f)  == f.ZF \/ f.SF # f.OF
SETNLE(f) == ~ f.ZF /\ f.SF = f.OF

IsSet(op, own, f) ==
  \/ op = "setz"   /\ SETZ(f)
  \/ op = "setnz"  /\ SETNZ(f)
  \/ op = "setb"   /\ SETB(own)
  \/ op = "setnb"  /\ SETNB(f)
  \/ op = "setbe"  /\ SETBE(f)
  \/ op = "setnbe" /\ SETNBE(f)
  \/ op = "setnl"  /\ SETNL(f)
  \/ op = "setle"  /\ SETLE(f)
  \/ op = "setnle" /\ SETNLE(f)

=============================================================================
