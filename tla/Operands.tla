------------------------------ MODULE Operands ------------------------------
(***************************************************************************)
(* The operand parser (createOperand and its helpers, lib/ins_parser.cpp). *)
(*                                                                         *)
(* The text of an operand is a record of the pieces that are printed.  An  *)
(* address has some of                                                     *)
(*   base, index (with its scale), disp (with its sign), var, spaced       *)
(* (a name like local_4h; blanks between the pieces), an operand has       *)
(* either a name, or an imm, or the addr and size of a memory operand.     *)
(*                                                                         *)
(* The parser tries regular expressions one after the other, each          *)
(* anywhere in the text; the number of the first that matches is the tag.  *)
(***************************************************************************)
EXTENDS Integers, Sequences

Has(t, pieces) == pieces \subseteq DOMAIN t

(* The expression of each tag finds its pieces side by side in the text.   *)
Together(t, pieces) == Has(t, pieces) /\ ~ Has(t, {"spaced"})

Matches(tag, t) ==
  CASE tag = 1  -> Has(t, {"disp"})
    [] tag = 2  -> Has(t, {"base"}) \/ Has(t, {"index"})
    [] tag = 3  -> Has(t, {"index"})
    [] tag = 4  -> Together(t, {"base", "disp"}) /\ ~ Has(t, {"index"})
    [] tag = 5  -> Together(t, {"base", "index"})
    [] tag = 6  -> Together(t, {"index", "disp"})
    [] tag = 7  -> Together(t, {"base", "index", "disp"})
    [] tag = 8  -> Has(t, {"var"}) /\ t.var = "arg"
    [] tag = 9  -> Has(t, {"var"}) /\ t.var = "local"
    [] tag = 10 -> Has(t, {"var"}) /\ t.var = "var"

MatchOrder   == <<7, 4, 5, 6, 3, 1, 2>>
VarsFirst    == <<8, 9, 10>> \o MatchOrder
UnknownTag   == 0

FirstTag(order, t) ==
  IF \E k \in DOMAIN order : Matches(order[k], t)
  THEN order[CHOOSE k \in DOMAIN order :
               Matches(order[k], t) /\ \A j \in 1 .. k - 1 : ~ Matches(order[j], t)]
  ELSE UnknownTag

(* The pieces the expression of a tag captures.                            *)
Captured(tag, t) ==
  CASE tag = 1 -> {"disp"}
    [] tag = 2 -> IF Has(t, {"base"}) THEN {"base"} ELSE {"index"}
    [] tag = 3 -> {"index", "scale"}
    [] tag = 4 -> {"base", "sign", "disp"}
    [] tag = 5 -> {"base", "index", "scale"}
    [] tag = 6 -> {"index", "scale", "sign", "disp"}
    [] tag = 7 -> {"base", "index", "scale", "sign", "disp"}
    [] tag \in {8, 9, 10} -> {"var"}
    [] OTHER   -> {}

Fields(tag, t) == [piece \in Captured(tag, t) |-> t[piece]]

CreateAddrOperand(t) ==
  LET tag == FirstTag(MatchOrder, t) IN [tag |-> tag, field |-> Fields(tag, t)]

CreateAddrOperandStatic(t) ==
  LET tag == FirstTag(VarsFirst, t) IN [tag |-> tag, field |-> Fields(tag, t)]

-----------------------------------------------------------------------------
Reg32 == {"eax", "ebx", "ecx", "edx", "esi", "edi", "esp", "ebp"}
Reg16 == {"ax", "bx", "cx", "dx", "si", "di", "bp"}
Reg8  == {"al", "ah", "bl", "bh", "cl", "ch", "dl", "dh"}

(* The 16-bit name that a 32-bit name contains; sp is no name of the       *)
(* parser's.                                                               *)
Contained ==
  [eax |-> {"ax"}, ebx |-> {"bx"}, ecx |-> {"cx"}, edx |-> {"dx"},
   esi |-> {"si"}, edi |-> {"di"}, ebp |-> {"bp"}, esp |-> {}]

NamesIn(t) ==
  IF ~ Has(t, {"name"}) THEN {}
  ELSE {t.name} \cup (IF t.name \in Reg32 THEN Contained[t.name] ELSE {})

Reg(bit, names) == [type |-> "Reg", bit |-> bit, name |-> CHOOSE r \in names : TRUE]

(* An immediate is of 32 bits whatever the other operand.  The digit of    *)
(* xmm0 is an immediate as well.                                           *)
CreateDataOperand(t) ==
  LET names == NamesIn(t)
  IN  IF names \cap Reg32 # {} THEN Reg(32, names \cap Reg32)
      ELSE IF names \cap Reg16 # {} THEN Reg(16, names \cap Reg16)
      ELSE IF names \cap Reg8 # {} THEN Reg(8, names \cap Reg8)
      ELSE IF Has(t, {"imm"}) THEN [type |-> "Imm", bit |-> 32, imm |-> t.imm]
      ELSE [type |-> "Unknown", bit |-> 0]

(* The size keyword; an address without one has no size.  The word in      *)
(* qword and xmmword is found as well.                                     *)
SizeBits(size) ==
  CASE size = "byte" -> 8
    [] size = "dword" -> 32
    [] size \in {"word", "qword", "xmmword"} -> 16
    [] OTHER -> 0

MemOperand(bit, a) == [type |-> "Mem", bit |-> bit, tag |-> a.tag, field |-> a.field]

CreateOperand(t) ==
  IF Has(t, {"addr"}) THEN MemOperand(SizeBits(t.size), CreateAddrOperand(t.addr))
  ELSE CreateDataOperand(t)

CreateOperandStatic(t) ==
  IF Has(t, {"addr"}) THEN MemOperand(SizeBits(t.size), CreateAddrOperandStatic(t.addr))
  ELSE CreateDataOperand(t)
=============================================================================
