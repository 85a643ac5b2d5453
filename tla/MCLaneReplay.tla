---------------------------- MODULE MCLaneReplay ----------------------------
(***************************************************************************)
(* Instances of LaneWide for TLC: registers of four bytes of three bits,   *)
(* the trace's key and another.                                            *)
(***************************************************************************)
EXTENDS LaneWide

CONSTANTS key, other, eax, edx, ecx, esi, edi

AllJumps == {"JB", "JE", "JO", "JS", "JBE", "JL", "JG"}

R(r, k)        == [reg |-> r, lane |-> k]
Imm(n)         == [imm |-> n]
Ins(op, d, s)  == [op |-> op, dst |-> d, src |-> s]
Forms(ops, ds, ss) == { Ins(op, d, s) : op \in ops, d \in ds, s \in ss }

Pairs(S, T) == { [x \in Inputs |-> IF x = key THEN m ELSE n] : m \in S, n \in T }

(* Numbers around the limits of signed and unsigned dwords.                *)
Dwords == {0, 1, 2047, 2048, 4095}

WholeProgram ==
  [code    |-> Forms({"add", "sub", "cmp"}, {R(eax, "E")}, {R(edx, "E")})
               \cup Forms({"add", "neg", "inc", "dec", "shl", "ror", "not"},
                          {R(eax, "E")}, {Imm(1)}),
   jumps   |-> AllJumps,
   keys    |-> Pairs(Dwords, Dwords),
   initial |-> {1, 2047, 4094}]

(* Carries of the trace's key.                                             *)
CarryProgram ==
  [code    |-> Forms({"add", "adc", "sbb"}, {R(eax, "E")}, {R(edx, "E")})
               \cup {Ins("ror", R(eax, "E"), Imm(1))}
               \cup {Ins("sbb", R(eax, "E"), Imm(1)), Ins("cmp", R(eax, "E"), Imm(1))},
   jumps   |-> {"JB", "JE", "JL"},
   keys    |-> Pairs({0, 2048}, {1, 4095}),
   initial |-> {1, 4095}]

(* Parts of registers moved about.  The four bytes of the keys differ.     *)
Parts == { R(r, k) : r \in {eax, edx}, k \in {"X", "L", "H"} }

MovingProgram ==
  [code    |-> { i \in Forms({"mov"}, Parts, Parts) :
                   LaneBits(i.dst.lane) = LaneBits(i.src.lane) }
               \cup { Ins(op, R(edx, "E"), s) : op \in {"movzx", "movsx"}, s \in Parts }
               \cup {Ins("mov", R(edx, "E"), R(eax, "E"))},
   jumps   |-> {},
   keys    |-> Pairs({668}, {3427}),
   initial |-> {2258}]

(* Arithmetic on bytes and words.                                          *)
ByteProgram ==
  [code    |-> Forms({"add", "sub", "cmp"}, {R(eax, "L")}, {R(edx, "L"), R(eax, "H")})
               \cup Forms({"add", "xor", "and", "shl", "shr", "sar", "rol", "neg", "dec"},
                          {R(eax, "L")}, {Imm(1)})
               \cup Forms({"or", "test", "cmp"}, {R(eax, "X")}, {R(edx, "X")}),
   jumps   |-> {"JB", "JE", "JL", "JS"},
   keys    |-> Pairs({0, 3, 13, 36, 62}, {2, 5, 31, 60}),
   initial |-> {3, 21, 62}]

(* Conditions: every SETcc and CMOVcc after comparisons and sums.          *)
ConditionProgram ==
  [code    |-> Forms({"cmp", "add"}, {R(eax, "E")}, {R(edx, "E")})
               \cup Forms({"cmp"}, {R(eax, "L")}, {R(edx, "L")})
               \cup Forms(SetBytes, {R(edx, "H")}, {Imm(0)})
               \cup Forms(CondMoves, {R(eax, "E")}, {R(edx, "E")}),
   jumps   |-> {},
   keys    |-> Pairs({0, 2049, 4095}, {1, 2048}),
   initial |-> {1, 2049}]

With(i, n) == [op |-> i.op, dst |-> i.dst, src |-> i.src, by |-> n]

Lea(d, text) == [op |-> "lea", dst |-> R(d, "E"), src |-> Imm(0), addr |-> text]

(* An address of each form.                                                *)
Addresses ==
  {[base |-> edx, index |-> eax, scale |-> 4, sign |-> "-", disp |-> 2],
   [base |-> eax, sign |-> "+", disp |-> 7], [base |-> edx, index |-> eax, scale |-> 1],
   [index |-> eax, scale |-> 2, sign |-> "+", disp |-> 9], [index |-> eax, scale |-> 8],
   [base |-> eax], [disp |-> 100]}

(* Whole registers, where all is exact.                                    *)
WideProgram ==
  [code    |-> Forms({"mul", "div", "imul", "xchg", "bt"}, {R(eax, "E")}, {R(edx, "E")})
               \cup {Ins("bt", R(eax, "E"), Imm(11)), Ins("bswap", R(eax, "E"), Imm(0)),
                     With(Ins("imul", R(edx, "E"), R(eax, "E")), 4093),
                     With(Ins("shld", R(eax, "E"), R(edx, "E")), 5),
                     With(Ins("shrd", R(edx, "E"), R(eax, "E")), 1),
                     Lea(eax, [disp |-> 5])}
               \cup { Lea(edx, a) : a \in Addresses }
               \cup Forms({"cpuid", "rdtsc", "sysenter"}, {R(eax, "E")}, {Imm(9)}),
   jumps   |-> {"JB"},
   keys    |-> Pairs({668, 4095}, {1, 3427}),
   initial |-> {3, 4000}]

(* Whole registers, where the trace's results are taken or the engine is   *)
(* wrong.                                                                  *)
SignedProgram ==
  [code    |-> Forms({"imul1", "idiv", "bsf"}, {R(eax, "E")}, {R(edx, "E")})
               \cup Forms({"cdq", "shl", "inc"}, {R(eax, "E")}, {Imm(1)})
               \cup Forms({"xchg", "sub"}, {R(eax, "E")}, {R(edx, "E")}),
   jumps   |-> {"JE"},
   keys    |-> Pairs({6, 2048, 4095}, {40, 3427}),
   initial |-> {3, 4093}]

(* Products, quotients and exchanges of parts.                             *)
WordProgram ==
  [code    |-> Forms({"mul", "div", "imul"}, {R(eax, "X")}, {R(edx, "X")})
               \cup Forms({"div"}, {R(eax, "L")}, {R(edx, "L"), R(edx, "H")})
               \cup { i \in Forms({"xchg"}, {R(eax, "X"), R(eax, "L"), R(edx, "H")}, Parts) :
                         LaneBits(i.dst.lane) = LaneBits(i.src.lane) }
               \cup Forms({"bt"}, {R(eax, "X")}, {R(edx, "X")}),
   jumps   |-> {"JB"},
   keys    |-> Pairs({668}, {9, 3427}),
   initial |-> {10, 2258}]

Str(op, r, n) == [op |-> op, dst |-> R(r, "E"), src |-> Imm(0), by |-> n]
Rep(op, r, n) == [op |-> op, dst |-> R(r, "E"), src |-> Imm(0), by |-> n, rep |-> TRUE]

(* String instructions, upwards and downwards, with the key as the count   *)
(* or in a pointer.                                                        *)
UpwardProgram ==
  [code    |-> {Str("stosb", edi, 1), Str("stosb", edi, 0 - 1), Str("stosd", edi, 1)}
               \cup Forms({"xchg"}, {R(eax, "E")}, {R(ecx, "E"), R(edi, "E")})
               \cup Forms({"add"}, {R(edi, "E")}, {R(eax, "E")}),
   jumps   |-> {},
   keys    |-> Pairs({0, 668}, {4095}),
   initial |-> {0, 4094}]

StringProgram ==
  [code    |-> {Str("stosd", edi, 0 - 1), Str("lodsd", esi, 1)}
               \cup { Rep(op, edi, n) : op \in {"stosd", "stosb"}, n \in {1, 0 - 1} }
               \cup Forms({"xchg"}, {R(eax, "E")}, {R(ecx, "E"), R(edi, "E"), R(esi, "E")}),
   jumps   |-> {},
   keys    |-> Pairs({1, 668}, {1, 4095}),
   initial |-> {0, 1, 4094}]

MCPrograms ==
  {WholeProgram, CarryProgram, MovingProgram, ByteProgram,
   ConditionProgram, WideProgram, SignedProgram, WordProgram,
   UpwardProgram, StringProgram}
=============================================================================
