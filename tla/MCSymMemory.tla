---------------------------- MODULE MCSymMemory ----------------------------
(***************************************************************************)
(* Instances of MemoryEngines for TLC.  Bytes are 0 or 1; the data written *)
(* are, but for words, the same byte throughout.                           *)
(***************************************************************************)
EXTENDS MemoryEngines

Uniform(S) == { [i \in 0 .. n - 1 |-> b] : n \in {1, 2, 4}, b \in S }

(* Alternating values, so that no two neighbouring bytes are alike.        *)
Alternating == {[a \in Address |-> a % 2]}

(* One key of four bytes, filling the first dword.                         *)
AlignedKey == [i \in 1 .. 4 |-> [addr |-> i - 1, offset |-> i - 1]]

(* Two key ranges, <<2, 3>> and <<5>>, neither filling its dword; the      *)
(* second gets the first's value.                                          *)
TwoRanges == << [addr |-> 2, offset |-> 0], [addr |-> 3, offset |-> 1],
                [addr |-> 5, offset |-> 0] >>

(* A computed program, with naturally aligned accesses of every size.      *)
ComputedProgram ==
  [accesses |-> {<<1, 1>>, <<2, 2>>, <<0, 4>>, <<4, 4>>},
   data     |-> Uniform({[v |-> 0, key |-> FALSE], [v |-> 1, key |-> TRUE]}),
   kinds    |-> OwnData,
   key      |-> AlignedKey]

(* Key material is moved bytewise and copied; memset supplies constants.   *)
LibcProgram ==
  [accesses |-> {<<3, 1>>, <<5, 1>>, <<0, 4>>, <<4, 4>>},
   data     |-> {},
   kinds    |-> {"load", "save", "memcpy", "memset"},
   key      |-> TwoRanges]

(* A word at an odd offset, a dword that straddles two cells, and writes   *)
(* that the engine leaves out.                                             *)
StraddlingProgram ==
  [accesses |-> {<<3, 1>>, <<1, 2>>, <<0, 4>>, <<2, 4>>, <<4, 4>>},
   data     |-> Uniform({[v |-> 1, key |-> FALSE]}),
   kinds    |-> {"load", "update", "push", "sse"},
   key      |-> TwoRanges]

(* For both engines: bytes and dwords, one of them unaligned, on which     *)
(* CryptoHunt ends.                                                        *)
LoopProgram ==
  [accesses |-> {<<1, 1>>, <<6, 1>>, <<0, 4>>, <<4, 4>>, <<3, 4>>},
   data     |-> Uniform({[v |-> 1, key |-> FALSE]}),
   kinds    |-> {"load", "store", "update", "save", "push", "register"},
   key      |-> AlignedKey]

(* For both engines: words, aligned and not.                               *)
WordProgram ==
  [accesses |-> {<<0, 2>>, <<2, 2>>, <<5, 2>>, <<4, 4>>},
   data     |-> {[i \in 0 .. 1 |-> [v |-> i, key |-> FALSE]]},
   kinds    |-> {"load", "update", "movsw"},
   key      |-> AlignedKey]

(* Only the disassembled programs below.                                   *)
StaticProgram == [accesses |-> {}, data |-> {}, kinds |-> {"static"}, key |-> <<>>]

MCPrograms ==
  {LoopProgram, WordProgram, ComputedProgram, LibcProgram, StraddlingProgram, StaticProgram}

-----------------------------------------------------------------------------
Rg(r)           == [name |-> r]
Im(n)           == [imm |-> n]
Mem(size, addr) == [size |-> size, addr |-> addr]
At(r)           == [base |-> r]
Off(r, s, n)    == [base |-> r, sign |-> s, disp |-> n]
Local(a)        == [var |-> "local", home |-> a]
Ins(op, oprs)   == [op |-> op, oprs |-> oprs]
Block(a, b)     == [addr |-> a, end |-> b]

(* One place under several texts and sizes, and parts of a register.       *)
DataCode ==
  {Ins("mov", <<Rg("eax"), Mem("dword", At("ebp"))>>),
   Ins("mov", <<Mem("dword", Off("ebp", "-", 4)), Rg("eax")>>),
   Ins("mov", <<Mem("byte", At("eax")), Rg("ah")>>),
   Ins("mov", <<Rg("al"), Mem("byte", At("eax"))>>),
   Ins("mov", <<Mem("word", Off("ebp", "+", 2)), Rg("ax")>>),
   Ins("mov", <<Rg("ax"), Mem("word", Off("ebp", "+", 2))>>),
   Ins("mov", <<Mem("dword", Local(4)), Im(7)>>),
   Ins("mov", <<Rg("ah"), Rg("al")>>),
   Ins("lea", <<Rg("eax"), Mem("", Off("ebp", "-", 4))>>),
   Ins("lea", <<Rg("eax"), Mem("", [base |-> "ebp", sign |-> "+", disp |-> 2, spaced |-> TRUE])>>),
   Ins("lea", <<Rg("eax"), Mem("", Local(4))>>),
   Ins("jnb", <<Im(5)>>)}

StackCode ==
  {Ins("push", <<o>>) : o \in {Rg("eax"), Rg("esp"), Rg("ax"), Im(1), Mem("dword", At("ebp"))}}
  \cup {Ins("pop", <<Rg(r)>>) : r \in {"eax", "ebp"}}
  \cup {[op |-> "call", oprs |-> <<Im(64)>>, length |-> 5],
        [op |-> "call", oprs |-> <<Rg("eax")>>, length |-> 2],
        Ins("ret", <<>>), Ins("ret", <<Im(4)>>), Ins("leave", <<>>), Ins("enter", <<Im(1)>>),
        Ins("sub", <<Rg("esp"), Im(4)>>), Ins("test", <<Rg("eax"), Rg("eax")>>),
        Ins("unrecognized", <<>>)}

DataFile ==
  [lines  |-> <<10, 12, 14, 15, 16, 18>>,
   blocks |-> <<Block(10, 16), Block(16, 20)>>,
   code   |-> DataCode,
   place  |-> [eax |-> 0, ebp |-> 4]]

(* The blocks out of order.                                                *)
StackFile ==
  [lines  |-> <<10, 12, 14, 15, 16, 18>>,
   blocks |-> <<Block(16, 20), Block(10, 16)>>,
   code   |-> StackCode,
   place  |-> [eax |-> 0, ebp |-> 4, esp |-> 8]]

(* Instructions out of order, blocks that overlap, and one that starts at  *)
(* a line that was not parsed.                                             *)
OverlapFile ==
  [lines  |-> <<10, 14, 12, 16, 18>>,
   blocks |-> <<Block(10, 16), Block(12, 18), Block(13, 20), Block(18, 20)>>,
   code   |-> {Ins("cmp", <<Rg("eax"), Im(1)>>)},
   place  |-> [eax |-> 0]]

MCStaticPrograms == {DataFile, StackFile, OverlapFile}
=============================================================================
