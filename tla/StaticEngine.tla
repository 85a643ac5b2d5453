---------------------------- MODULE StaticEngine ----------------------------
(***************************************************************************)
(* The analysis of disassembled functions (StaticSE/StaticSE.cpp): the     *)
(* instructions are dealt out to the basic blocks (lib/Blocks.cpp), and    *)
(* StaticSEEngine (lib/StaticSEEngine.cpp) runs each block from symbols,   *)
(* beside a processor that runs it from any state.                         *)
(*                                                                         *)
(* Nothing tells the engine an address: its memory is keyed by the text    *)
(* of the operand, size keyword and all.                                   *)
(*                                                                         *)
(* A byte is a token, the at-th byte of [base, off]: an initial value plus *)
(* a constant.  A formula is a sequence of bytes, the lowest first; the    *)
(* symbol the engine makes for a text stands for the four bytes the        *)
(* program has at the address when the block starts.                       *)
(***************************************************************************)
EXTENDS Operands

CONSTANTS
  Space,           (* data addresses, 0 .. Space - 1                       *)
  StaticPrograms   (* records: lines, the addresses of the instructions    *)
                   (* that were parsed; blocks, [addr, end] each; code,    *)
                   (* the instructions there may be; place, where the      *)
                   (* registers point to at first                          *)

VARIABLES
  file,        (* the program                                              *)
  fun_inst,    (* instructions not yet in a block                          *)
  inst_list,   (* those of each block so far                               *)
  current,     (* the block being run, 0 before                            *)
  pc,          (* instructions of it run                                   *)
  m_ctx,       (* registers                                                *)
  m_memory,    (* cells by text                                            *)
  machine,     (* the processor: registers and memory                      *)
  named,       (* history: what the texts of this block have referred to   *)
  faithful     (* history: the block has none of the instructions that the *)
               (* engine takes for something else                          *)

blockVars   == <<current, pc, m_ctx, m_memory, machine, named, faithful>>
staticVars  == <<file, fun_inst, inst_list, blockVars>>

-----------------------------------------------------------------------------
Value(base, n) == [k \in 1 .. 4 |-> [of |-> [base |-> base, off |-> n], at |-> k]]
InitialReg(r)  == Value(<<"reg", r>>, 0)
Immediate(n)   == Value(<<"imm">>, n)

Whole(f) == Len(f) = 4 /\ \A k \in 1 .. 4 : f[k] = [of |-> f[1].of, at |-> k]

Sum(f, n) == IF Whole(f) THEN Value(f[1].of.base, f[1].of.off + n) ELSE Value(<<"sum", f>>, n)

(* Bits lo .. hi; the first operand of a concatenation is the upper.       *)
Extract(f, lo, hi) == SubSeq(f, (lo - 1) \div 8 + 1, hi \div 8)
Concat(f, g)       == g \o f

FullName ==
  [ax |-> "eax", bx |-> "ebx", cx |-> "ecx", dx |-> "edx", si |-> "esi", di |-> "edi",
   bp |-> "ebp", al |-> "eax", ah |-> "eax", bl |-> "ebx", bh |-> "ebx", cl |-> "ecx",
   ch |-> "ecx", dl |-> "edx", dh |-> "edx"]

Owner(name) == IF name \in Reg32 THEN name ELSE FullName[name]

High(name) == name \in {"ah", "bh", "ch", "dh"}

FirstBit(name) == IF High(name) THEN 9 ELSE 1
LastBit(name)  ==
  CASE name \in Reg32 -> 32 [] name \in Reg16 \/ High(name) -> 16 [] OTHER -> 8

ReadReg(regs, name) == Extract(regs[Owner(name)], FirstBit(name), LastBit(name))

WriteReg(regs, name, f) ==
  LET old == regs[Owner(name)]
      upper == Extract(old, LastBit(name) + 1, 32)
      lower == Extract(old, 1, FirstBit(name) - 1)
  IN  [regs EXCEPT ![Owner(name)] = Concat(upper, Concat(f, lower))]

-----------------------------------------------------------------------------
(* The processor.  A register is an address if it is an initial value or   *)
(* an immediate, plus a constant.                                          *)
Pointing(f) == Whole(f) /\ f[1].of.base[1] \in {"imm", "reg"}

PointsTo(f) ==
  f[1].of.off + (IF f[1].of.base[1] = "imm" THEN 0 ELSE file.place[f[1].of.base[2]])

(* Initial memory is of bytes that have nothing to do with one another.    *)
InitialByte(a) == [of |-> [base |-> <<"mem", a>>, off |-> 0], at |-> 1]
InitialWord(a) == [k \in 1 .. 4 |-> InitialByte(a + k - 1)]

Fetched(a, n) == [k \in 1 .. n |-> machine.mem[a + k - 1]]

Stored(a, f) ==
  [b \in 0 .. Space - 1 |-> IF b \in a .. a + Len(f) - 1 THEN f[b - a + 1] ELSE machine.mem[b]]

(* Where an address text leads: a variable's place is fixed in the frame.  *)
Known(t) == Has(t, {"var"}) \/ (Has(t, {"base"}) => Pointing(machine.reg[t.base]))

Effective(t) ==
  IF Has(t, {"var"}) THEN t.home
  ELSE (IF Has(t, {"base"}) THEN PointsTo(machine.reg[t.base]) ELSE 0)
       + (IF ~ Has(t, {"disp"}) THEN 0
          ELSE IF Has(t, {"sign"}) /\ t.sign = "-" THEN 0 - t.disp ELSE t.disp)

InSpace(a, n) == a \in 0 .. Space - n

-----------------------------------------------------------------------------
(* The memory of the engine.                                               *)
NoText == [fixed |-> ""]

(* The text that stands for the stack after a push from memory: esp, which *)
(* is 0 in a static instruction, minus 4.                                  *)
StackText == [fixed |-> "fffffffc"]

(* get_memory_address.                                                     *)
MemoryAddress(i) ==
  IF \E k \in DOMAIN i.oprs : Has(i.oprs[k], {"addr"})
  THEN i.oprs[CHOOSE k \in DOMAIN i.oprs : Has(i.oprs[k], {"addr"})]
  ELSE IF i.oprs = <<>> THEN NoText ELSE i.oprs[Len(i.oprs)]

(* The cells with one for text, the symbol of what is at a.                *)
Entered(cells, text, a) ==
  [t \in DOMAIN cells \cup {text} |-> IF t \in DOMAIN cells THEN cells[t] ELSE InitialWord(a)]

ReadMem(cells, text, n) == Extract(cells[text], 1, 8 * n)

(* A dword replaces the cell; a part is put below the part that the cell   *)
(* had there, the rest of it is gone.                                      *)
WriteMem(cells, text, a, f) ==
  LET old == Entered(cells, text, a)
  IN  [old EXCEPT ![text] = IF Len(f) = 4 THEN f ELSE Concat(Extract(@, 1, 8 * Len(f)), f)]

-----------------------------------------------------------------------------
(* StaticBlock::init: from the instruction at addr up to the first that is *)
(* not below end.                                                          *)
FromIndex(list, b) ==
  IF \E k \in DOMAIN list : list[k] = b.addr
  THEN CHOOSE k \in DOMAIN list : list[k] = b.addr /\ \A j \in 1 .. k - 1 : list[j] # b.addr
  ELSE Len(list) + 1

(* The instruction at end is taken as well.                                *)
UpToIndex_AtEnd(list, b) ==
  LET over == { k \in FromIndex(list, b) .. Len(list) : list[k] > b.end }
  IN  IF over = {} THEN Len(list) ELSE (CHOOSE k \in over : \A j \in over : k <= j) - 1

UpToIndex(list, b) ==
  LET over == { k \in FromIndex(list, b) .. Len(list) : list[k] >= b.end }
  IN  IF over = {} THEN Len(list) ELSE (CHOOSE k \in over : \A j \in over : k <= j) - 1

StartBlock(n) ==
  /\ current' = n
  /\ pc' = 0
  /\ m_ctx' = [r \in DOMAIN file.place |-> InitialReg(r)]
  /\ machine' = [reg |-> [r \in DOMAIN file.place |-> InitialReg(r)],
                 mem |-> [a \in 0 .. Space - 1 |-> InitialByte(a)]]
  /\ named' = {}
  /\ faithful' = TRUE

(* The next block takes its instructions out of the list; after the last,  *)
(* the engine starts.                                                      *)
InitBlock ==
  /\ current = 0
  /\ LET b == file.blocks[Len(inst_list) + 1]
         from == FromIndex(fun_inst, b)
         upTo == UpToIndex(fun_inst, b)
     IN  /\ inst_list' = Append(inst_list, SubSeq(fun_inst, from, upTo))
         /\ fun_inst' = SubSeq(fun_inst, 1, from - 1) \o SubSeq(fun_inst, upTo + 1, Len(fun_inst))
  /\ IF Len(inst_list') = Len(file.blocks)
     THEN StartBlock(1) /\ UNCHANGED m_memory
     ELSE UNCHANGED blockVars
  /\ UNCHANGED file

Running == current \in DOMAIN inst_list

(* A register set that keeps the cells of the block before.                *)
NextBlock_NoReset ==
  /\ Running
  /\ pc = Len(inst_list[current])
  /\ StartBlock(current + 1)
  /\ UNCHANGED <<file, fun_inst, inst_list, m_memory>>

(* The outputs are collected, the memory reset, the registers set to       *)
(* symbols for the next block.                                             *)
NextBlock ==
  /\ Running
  /\ pc = Len(inst_list[current])
  /\ StartBlock(current + 1)
  /\ m_memory' = [t \in {} |-> <<>>]
  /\ UNCHANGED <<file, fun_inst, inst_list>>

-----------------------------------------------------------------------------
(* It is the turn of i, one of ops.                                        *)
Turns(i, ops) == Running /\ pc < Len(inst_list[current]) /\ i.op \in ops

(* One instruction: the registers and cells of the engine, the registers   *)
(* and memory of the processor, and the places the texts stand for.        *)
Turn(regs, cells, newMachine, places) ==
  /\ pc' = pc + 1
  /\ m_ctx' = regs
  /\ m_memory' = cells
  /\ machine' = newMachine
  /\ named' = named \cup places
  /\ UNCHANGED <<file, fun_inst, inst_list, current>>

Place(text, a, n) == [text |-> text, at |-> a, size |-> n]

OprOf(i, k) == CreateOperandStatic(i.oprs[k])
Bytes(o)    == o.bit \div 8

(* MOV to a register.                                                      *)
Load(i) ==
  /\ Turns(i, {"mov"})
  /\ OprOf(i, 1).type = "Reg"
  /\ LET dst == OprOf(i, 1)
         src == OprOf(i, 2)
         text == MemoryAddress(i)
         n == Bytes(dst)
     IN  \/ /\ src.type \in {"Imm", "Reg"}
            /\ LET From(regs) == IF src.type = "Imm" THEN SubSeq(Immediate(src.imm), 1, n)
                                 ELSE ReadReg(regs, src.name)
               IN  Turn(WriteReg(m_ctx, dst.name, From(m_ctx)), m_memory,
                        [machine EXCEPT !.reg = WriteReg(@, dst.name, From(@))], {})
         \/ /\ src.type = "Mem"
            /\ Known(i.oprs[2].addr) /\ InSpace(Effective(i.oprs[2].addr), 4)
            /\ LET a == Effective(i.oprs[2].addr)
                   cells == Entered(m_memory, text, a)
               IN  Turn(WriteReg(m_ctx, dst.name, ReadMem(cells, text, n)), cells,
                        [machine EXCEPT !.reg = WriteReg(@, dst.name, Fetched(a, n))],
                        {Place(text, a, n)})
  /\ UNCHANGED faithful

(* MOV to memory.                                                          *)
Store(i) ==
  /\ Turns(i, {"mov"})
  /\ OprOf(i, 1).type = "Mem"
  /\ Known(i.oprs[1].addr) /\ InSpace(Effective(i.oprs[1].addr), 4)
  /\ LET src == OprOf(i, 2)
         text == MemoryAddress(i)
         a == Effective(i.oprs[1].addr)
         From(regs) == IF src.type = "Imm" THEN SubSeq(Immediate(src.imm), 1, Bytes(OprOf(i, 1)))
                       ELSE ReadReg(regs, src.name)
     IN  Turn(m_ctx, WriteMem(m_memory, text, a, From(m_ctx)),
              [machine EXCEPT !.mem = Stored(a, From(machine.reg))],
              {Place(text, a, Len(From(m_ctx)))})
  /\ UNCHANGED faithful

(* ADD and SUB of an immediate to a register.                              *)
AddImmediate(i) ==
  /\ Turns(i, {"add", "sub"})
  /\ LET r == OprOf(i, 1).name
         n == IF i.op = "add" THEN i.oprs[2].imm ELSE 0 - i.oprs[2].imm
     IN  Turn([m_ctx EXCEPT ![r] = Sum(@, n)], m_memory,
              [machine EXCEPT !.reg[r] = Sum(@, n)], {})
  /\ UNCHANGED faithful

(* LEA of base and displacement; the displacement alone if blanks keep the *)
(* base from it.                                                           *)
LoadAddress(i) ==
  /\ Turns(i, {"lea"})
  /\ LET r == OprOf(i, 1).name
         a == OprOf(i, 2)
         t == i.oprs[2].addr
         Signed(s) == IF s.sign = "-" THEN 0 - s.disp ELSE s.disp
     IN  /\ a.tag \in {1, 2, 4}
         /\ Turn([m_ctx EXCEPT ![r] =
                    CASE a.tag = 4 -> Sum(m_ctx[a.field.base], Signed(a.field))
                      [] a.tag = 2 -> m_ctx[a.field.base]
                      [] OTHER -> Immediate(a.field.disp)],
                 m_memory,
                 [machine EXCEPT !.reg[r] =
                    IF ~ Has(t, {"base"}) THEN Immediate(t.disp)
                    ELSE IF Has(t, {"disp"}) THEN Sum(machine.reg[t.base], Signed(t))
                    ELSE machine.reg[t.base]],
                 {})
         /\ faithful' = (faithful /\ (a.tag = 1 => ~ Has(t, {"base"})))

-----------------------------------------------------------------------------
(* The stack.  esp is moved before the operand is read.                    *)
Lowered(n) == WriteReg(m_ctx, "esp", Sum(m_ctx["esp"], 0 - n))

(* The dword that a register points to, or the one n bytes below esp, is   *)
(* in memory.                                                              *)
AtTop(r) == Pointing(machine.reg[r]) /\ InSpace(PointsTo(machine.reg[r]), 4)

OnStack(n) ==
  Pointing(machine.reg["esp"]) /\ InSpace(PointsTo(machine.reg["esp"]) - n, 4)

(* The processor after a push.                                             *)
Pushed(f) ==
  [machine EXCEPT !.reg["esp"] = Sum(@, 0 - Len(f)),
                  !.mem = Stored(PointsTo(machine.reg["esp"]) - Len(f), f)]

(* PUSH of a register or an immediate, kept under the operand's own text.  *)
Push(i) ==
  /\ Turns(i, {"push"})
  /\ OprOf(i, 1).type \in {"Reg", "Imm"}
  /\ LET o == OprOf(i, 1)
         n == Bytes(o)
         text == MemoryAddress(i)
         a == PointsTo(machine.reg["esp"]) - n
         From(regs) == IF o.type = "Imm" THEN Immediate(o.imm) ELSE ReadReg(regs, o.name)
     IN  /\ OnStack(n)
         /\ Turn(Lowered(n), WriteMem(m_memory, text, a, From(Lowered(n))),
                 Pushed(From(machine.reg)), {Place(text, a, n)})
         /\ faithful' = (faithful /\ (o.type = "Reg" => o.name # "esp"))

(* PUSH of memory.                                                         *)
PushMemory(i) ==
  /\ Turns(i, {"push"})
  /\ OprOf(i, 1).type = "Mem"
  /\ Known(i.oprs[1].addr) /\ InSpace(Effective(i.oprs[1].addr), 4)
  /\ OnStack(4)
  /\ LET text == MemoryAddress(i)
         src == Effective(i.oprs[1].addr)
         a == PointsTo(machine.reg["esp"]) - 4
         cells == Entered(m_memory, text, src)
     IN  Turn(Lowered(4), WriteMem(cells, StackText, a, ReadMem(cells, text, 4)),
              Pushed(Fetched(src, 4)), {Place(text, src, 4), Place(StackText, a, 4)})
  /\ UNCHANGED faithful

(* POP to a register: what is kept under that register's text.             *)
Pop(i) ==
  /\ Turns(i, {"pop"})
  /\ AtTop("esp")
  /\ LET r == OprOf(i, 1).name
         text == MemoryAddress(i)
         a == PointsTo(machine.reg["esp"])
         cells == Entered(m_memory, text, a)
     IN  Turn([m_ctx EXCEPT !["esp"] = Sum(@, 4), ![r] = ReadMem(cells, text, 4)], cells,
              [machine EXCEPT !.reg["esp"] = Sum(@, 4), !.reg[r] = Fetched(a, 4)],
              {Place(text, a, 4)})
  /\ UNCHANGED faithful

(* CALL pushes the address five bytes on, however long the instruction.    *)
Call(i) ==
  /\ Turns(i, {"call"})
  /\ OnStack(4)
  /\ LET text == MemoryAddress(i)
         a == PointsTo(machine.reg["esp"]) - 4
         here == inst_list[current][pc + 1]
     IN  /\ Turn(Lowered(4), WriteMem(m_memory, text, a, Immediate(here + 5)),
                 Pushed(Immediate(here + i.length)), {Place(text, a, 4)})
         /\ faithful' = (faithful /\ i.length = 5)

(* RET, with the bytes of arguments it drops.                              *)
Ret(i) ==
  /\ Turns(i, {"ret"})
  /\ AtTop("esp")
  /\ LET n == 4 + (IF i.oprs = <<>> THEN 0 ELSE OprOf(i, 1).imm)
     IN  Turn([m_ctx EXCEPT !["esp"] = Sum(@, n)], m_memory,
              [machine EXCEPT !.reg["esp"] = Sum(@, n)], {})
  /\ UNCHANGED faithful

(* LEAVE has no operand: ebp is kept under the empty text.                 *)
Leave(i) ==
  /\ Turns(i, {"leave"})
  /\ AtTop("ebp")
  /\ LET text == MemoryAddress(i)
         a == PointsTo(machine.reg["ebp"])
         cells == Entered(m_memory, text, a)
     IN  Turn([m_ctx EXCEPT !["esp"] = Sum(m_ctx["ebp"], 4), !["ebp"] = ReadMem(cells, text, 4)],
              cells,
              [machine EXCEPT !.reg["esp"] = Sum(machine.reg["ebp"], 4),
                              !.reg["ebp"] = Fetched(a, 4)],
              {Place(text, a, 4)})
  /\ UNCHANGED faithful

(* Comparisons and most jumps are passed over; ENTER, SSE instructions and *)
(* those without a model do nothing in the engine, here to the stack.      *)
PassOver(i) ==
  /\ Turns(i, {"cmp", "test", "jmp", "nop"})
  /\ Turn(m_ctx, m_memory, machine, {})
  /\ UNCHANGED faithful

Ignored(i) ==
  /\ Turns(i, {"enter", "sse", "unrecognized"})
  /\ OnStack(4)
  /\ Turn(m_ctx, m_memory, Pushed(Value(<<"other">>, 0)), {})
  /\ faithful' = FALSE

(* run() gives a block up at the first instruction that is refused: a jump *)
(* that is not passed over, for want of flags, or LEA of a variable.       *)
Refused(i) ==
  /\ Turns(i, {"jnb", "lea"})
  /\ i.op = "lea" => OprOf(i, 2).tag \notin 1 .. 7
  /\ pc' = Len(inst_list[current])
  /\ faithful' = (faithful /\ i.op = "jnb" /\ pc' = pc + 1)
  /\ UNCHANGED <<file, fun_inst, inst_list, current, m_ctx, m_memory, machine, named>>

(* A program is what the disassembler prints of a 32-bit one: registers    *)
(* have a place, a move has operands of one size, at most one of them in   *)
(* memory, and what is pushed and popped are dwords, but for the registers *)
(* that are pushed.                                                        *)
StaticProgram(p) ==
  /\ p.lines \in Seq(Nat)
  /\ p.blocks \in Seq([addr : Nat, end : Nat]) /\ p.blocks # <<>>
  /\ \A i \in p.code :
       LET opr(k) == CreateOperandStatic(i.oprs[k]) IN
       /\ \A k \in DOMAIN i.oprs :
            opr(k).type = "Reg" => Owner(opr(k).name) \in DOMAIN p.place
       /\ i.op \in {"push", "pop", "call"} => i.oprs = <<i.oprs[1]>>
       /\ i.op = "push" /\ opr(1).type = "Mem" => opr(1).bit = 32
       /\ i.op \in {"pop", "call"} => opr(1).bit = 32
       /\ i.op = "leave" => i.oprs = <<>>
       /\ i.op = "lea" =>
            /\ Has(i.oprs[2], {"addr"})
            /\ Has(i.oprs[2].addr, {"base"}) => i.oprs[2].addr.base \in DOMAIN p.place
       /\ i.op = "mov" =>
            /\ i.oprs = <<i.oprs[1], i.oprs[2]>>
            /\ opr(2).type \in {"Reg", "Imm", "Mem"}
            /\ opr(1).type = "Mem" => opr(2).type # "Mem"
            /\ opr(2).type # "Imm" => opr(1).bit = opr(2).bit

NotStarted ==
  /\ inst_list = <<>>
  /\ current = 0
  /\ pc = 0
  /\ m_ctx = <<>>
  /\ m_memory = [t \in {} |-> <<>>]
  /\ machine = <<>>
  /\ named = {}
  /\ faithful = TRUE

StaticInit ==
  /\ file \in StaticPrograms
  /\ fun_inst = file.lines
  /\ NotStarted

NoFile == file = <<>> /\ fun_inst = <<>> /\ NotStarted

(* After the last block.                                                   *)
Analysed == current > Len(inst_list)

StaticNext ==
  \/ InitBlock
  \/ NextBlock
  \/ \E i \in file.code :
       \/ Load(i) \/ Store(i) \/ AddImmediate(i) \/ LoadAddress(i)
       \/ Push(i) \/ PushMemory(i) \/ Pop(i) \/ Call(i) \/ Ret(i) \/ Leave(i)
       \/ PassOver(i) \/ Ignored(i) \/ Refused(i)

StaticSpec == StaticInit /\ [][StaticNext]_staticVars

-----------------------------------------------------------------------------
(* Each address of this block was named by one text, always the same, and  *)
(* each text named one address.                                            *)
Overlap(p, q) == p.at < q.at + q.size /\ q.at < p.at + p.size

OneToOne ==
  \A p \in named, q \in named :
    /\ Overlap(p, q) <=> p.text = q.text
    /\ p.text = q.text => p.at = q.at

(* As long as texts and addresses are one to one, the engine's registers   *)
(* and memory are the processor's: nothing it knows is of another block,   *)
(* another operand or another part of a register.                          *)
StaticExact ==
  (Running /\ faithful /\ OneToOne) =>
    /\ m_ctx = machine.reg
    /\ \A t \in DOMAIN m_memory : \E p \in named :
         p.text = t /\ ReadMem(m_memory, t, p.size) = Fetched(p.at, p.size)

(* If the instructions are listed by address, blocks that are disjoint and *)
(* start at instructions that were parsed get theirs, all of them, in the  *)
(* order of the program, in whatever order the blocks are listed.          *)
Addresses(list) == { list[n] : n \in DOMAIN list }

InOrder(list) == \A m, n \in DOMAIN list : m < n => list[m] < list[n]

Within(b) == { a \in Addresses(file.lines) : b.addr <= a /\ a < b.end }

Disjoint ==
  \A j \in DOMAIN file.blocks, k \in DOMAIN file.blocks :
    j # k => file.blocks[j].end <= file.blocks[k].addr \/ file.blocks[k].end <= file.blocks[j].addr

Divided ==
  /\ InOrder(file.lines)
  /\ Disjoint
  /\ \A k \in DOMAIN file.blocks : file.blocks[k].addr \in Addresses(file.lines)

BlocksExact ==
  (current # 0 /\ Divided) =>
    \A k \in DOMAIN file.blocks :
      InOrder(inst_list[k]) /\ Addresses(inst_list[k]) = Within(file.blocks[k])
=============================================================================
