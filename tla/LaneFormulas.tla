---------------------------- MODULE LaneFormulas ----------------------------
(***************************************************************************)
(* The formulas of registers and of the parts of registers (BitVector.cpp; *)
(* Concat of Engine.cpp; Extract, readReg and writeReg of                  *)
(* QIFSEEngine.cpp).                                                       *)
(*                                                                         *)
(* A formula stands for a value for each input.  Its inner structure       *)
(* matters in one respect: concatenations are taken apart again by         *)
(* Extract, and evaluated part by part.  So a formula is a leaf with its   *)
(* values or a concatenation of two formulas.  The value of a leaf may be  *)
(* wider than its size: operations are evaluated with the width of a       *)
(* register whatever their size.  A byte has ByteBits bits, a register     *)
(* four bytes.                                                             *)
(***************************************************************************)
EXTENDS Integers

CONSTANTS
  Inputs,     (* values of the key                                         *)
  ByteBits    (* 8                                                         *)

ASSUME ByteBitsAssumption == ByteBits \in Nat /\ ByteBits >= 2

Bits    == 4 * ByteBits
Modulus == 2 ^ Bits

Leaf(size, symbolic, value) == [size |-> size, symbolic |-> symbolic, value |-> value]
Constant(size, n) == Leaf(size, FALSE, [x \in Inputs |-> n])

IsConcat(f) == "lo" \in DOMAIN f

(* Bits l to h of v, counted from 1.                                       *)
Slice(v, l, h) == (v \div 2 ^ (l - 1)) % 2 ^ (h - l + 1)

(* BitVector::concat of sizes n and m: op_mask[k] has k + 1 ones, so a     *)
(* part keeps one bit more than it should, and the low part's runs into    *)
(* the high part.                                                          *)
Joined(v, w, n, m) == (((v % 2 ^ (n + 1)) * 2 ^ m) + (w % 2 ^ (m + 1))) % Modulus

RECURSIVE ValueAt(_, _)
ValueAt(f, x) ==
  IF IsConcat(f) THEN Joined(ValueAt(f.hi, x), ValueAt(f.lo, x), f.hi.size, f.lo.size)
  ELSE f.value[x]

Values(f) == [x \in Inputs |-> ValueAt(f, x)]

Concat(hi, lo) ==
  IF hi.symbolic \/ lo.symbolic
  THEN [size |-> hi.size + lo.size, symbolic |-> TRUE, hi |-> hi, lo |-> lo]
  ELSE Leaf(hi.size + lo.size, FALSE,
            [x \in Inputs |-> Joined(hi.value[x], lo.value[x], hi.size, lo.size)])

Piece(f, l, h) ==
  Leaf(h - l + 1, f.symbolic, [x \in Inputs |-> Slice(ValueAt(f, x), l, h)])

(* Bits l to h of a formula, whole bytes.  A part of a concatenation is    *)
(* found, not computed; what is not a part is put together from bytes.     *)
RECURSIVE Extract(_, _, _)
Extract(f, l, h) ==
  CASE ~ f.symbolic -> Piece(f, l, h)
    [] f.symbolic /\ IsConcat(f) /\ h <= f.lo.size ->
         IF l = 1 /\ h = f.lo.size THEN f.lo ELSE Extract(f.lo, l, h)
    [] f.symbolic /\ IsConcat(f) /\ l > f.lo.size ->
         IF l = f.lo.size + 1 /\ h = f.size THEN f.hi
         ELSE Extract(f.hi, l - f.lo.size, h - f.lo.size)
    [] OTHER ->
         IF h - l + 1 > ByteBits
         THEN Concat(Extract(f, l + ByteBits, h), Extract(f, l, l + ByteBits - 1))
         ELSE Piece(f, l, h)

(* ZeroExt and SignExt to a register.                                      *)
ZeroExt(f) == Leaf(Bits, f.symbolic, Values(f))

Signed(v, n) == IF v >= 2 ^ (n - 1) THEN v - 2 ^ n ELSE v

SignExt(f) ==
  Leaf(Bits, f.symbolic,
       [x \in Inputs |-> Signed(Slice(ValueAt(f, x), 1, f.size), f.size) % Modulus])

-----------------------------------------------------------------------------
(* The parts of a register: eax, ax, al and ah.                            *)
Lanes == {"E", "X", "L", "H"}

LaneBits(k) == CASE k = "E" -> Bits [] k = "X" -> 2 * ByteBits [] OTHER -> ByteBits

LowBit(k) == IF k = "H" THEN ByteBits + 1 ELSE 1

HighBit(k) == LowBit(k) + LaneBits(k) - 1

ReadLane(f, k) == IF k = "E" THEN f ELSE Extract(f, LowBit(k), HighBit(k))

(* A write of ah that clears the byte below it.                            *)
WriteLane_LosesLow(f, k, v) ==
  IF k = "E" THEN v
  ELSE LET above == Extract(f, HighBit(k) + 1, Bits)
       IN  IF k # "H" THEN Concat(above, v)
           ELSE Concat(Concat(above, v), Constant(ByteBits, 0))

WriteLane(f, k, v) ==
  IF k = "E" THEN v
  ELSE LET above == Extract(f, HighBit(k) + 1, Bits)
       IN  IF k # "H" THEN Concat(above, v)
           ELSE Concat(Concat(above, v), Extract(f, 1, ByteBits))

(* DynSEEngine: its SEEngine::Extract does not look into a concatenation.  *)
DynReadLane(f, k) ==
  IF k = "E" THEN f ELSE Piece(f, LowBit(k), HighBit(k))

DynWriteLane(f, k, v) ==
  IF k = "E" THEN v
  ELSE LET above == Piece(f, HighBit(k) + 1, Bits)
       IN  IF k # "H" THEN Concat(above, v)
           ELSE Concat(Concat(above, v), Piece(f, 1, ByteBits))

(* The processor's register n, of which one lane is read or written.       *)
Get(n, k) == Slice(n, LowBit(k), HighBit(k))

Put(n, k, v) == n + (v - Get(n, k)) * 2 ^ (LowBit(k) - 1)
=============================================================================
