------------------------------ MODULE LaneWide ------------------------------
(***************************************************************************)
(* The rest of the instructions on registers (lib/ins_semantics.cpp), in   *)
(* the replay of LaneReplay: multiplications and divisions, exchanges,     *)
(* address sums, shifts over two registers, bit instructions, those whose  *)
(* results are taken from the trace, and string instructions, of which the *)
(* registers are here and the memory is in SymMemory.  None of them        *)
(* updates a flag of the engine but BT.                                    *)
(***************************************************************************)
EXTENDS LaneReplay, Operands

CONSTANTS
  Acc,    (* eax                                                           *)
  Ext,    (* edx                                                           *)
  Cnt,    (* ecx                                                           *)
  Src     (* esi                                                           *)

ASSUME AccAssumption == {Acc, Ext, Cnt, Src} \subseteq Regs /\ Acc # Ext

AccOf(k) == [reg |-> Acc, lane |-> k]
ExtOf(k) == [reg |-> Ext, lane |-> k]

(* The registers rs get the values the trace has after the instruction.    *)
FromTrace(machines, rs) ==
  [r \in Regs |-> IF r \in rs THEN Constant(Bits, machines[KeyInput].reg[r]) ELSE eng[r]]

(* The registers rs have the processor's values for every key.             *)
AgreeOn(m, machines, rs) ==
  \A r \in rs, x \in Inputs : ValueAt(m[r], x) = machines[x].reg[r]

(* A formula of the values of two others.                                  *)
SrcAt(i, x) == ValueAt(Operand(i, i.src), x)

(* Both registers written, in the engine and in the processor.             *)
InEngine(o, f, p, g) ==
  LET m == [eng EXCEPT ![o.reg] = WriteLane(@, o.lane, f)]
  IN  [m EXCEPT ![p.reg] = WriteLane(@, p.lane, g)]

InMachine(x, o, v, p, w) == PutReg(PutReg(cpu[x], o, v), p, w)

(* Carry and overflow of a product.                                        *)
Spilled(machine, spill) == [machine EXCEPT !.flags.CF = spill, !.flags.OF = spill]

FlagsLost  == UNCHANGED flags /\ trusted' = {}

-----------------------------------------------------------------------------
(* MUL of 32 bits; without symbols the product is the trace's.             *)
MultiplyWhole(i) ==
  LET a == eng[Acc]
      b == Operand(i, i.src)
      machines ==
        [x \in Inputs |->
           LET v == cpu[x].reg[Acc]
               w == OperandOf(cpu[x], i.src)
           IN  Spilled(InMachine(x, ExtOf("E"), MulHigh(v, w), AccOf("E"), MulLow(v, w)),
                       MulHigh(v, w) # 0)]
      m == InEngine(ExtOf("E"), Leaf(Bits, TRUE, [x \in Inputs |-> MulHigh(ValueAt(a, x), ValueAt(b, x))]),
                    AccOf("E"), Leaf(Bits, TRUE, [x \in Inputs |-> MulLow(ValueAt(a, x), ValueAt(b, x))]))
  IN  Turn(i, IF a.symbolic \/ b.symbolic THEN m ELSE FromTrace(machines, {Acc, Ext}), machines)

(* MUL of 16 bits: the product is cut into dx and ax.                      *)
MultiplyWord(i) ==
  LET n == LaneBits("X")
      a == ReadLane(eng[Acc], "X")
      b == Operand(i, i.src)
      p == Leaf(Bits, a.symbolic \/ b.symbolic,
                [x \in Inputs |-> MulLow(ValueAt(a, x), ValueAt(b, x))])
      machine(x) ==
        LET product == Get(cpu[x].reg[Acc], "X") * OperandOf(cpu[x], i.src)
        IN  Spilled(InMachine(x, ExtOf("X"), product \div 2 ^ n, AccOf("X"), product % 2 ^ n),
                    product >= 2 ^ n)
  IN  Turn(i, InEngine(ExtOf("X"), Extract(p, n + 1, Bits), AccOf("X"), Extract(p, 1, n)),
           [x \in Inputs |-> machine(x)])

Multiply(i) ==
  /\ i.op = "mul"
  /\ \/ i.dst.lane = "E" /\ MultiplyWhole(i)
     \/ i.dst.lane = "X" /\ MultiplyWord(i)
  /\ UNCHANGED exact
  /\ FlagsLost

(* IMUL with one operand: both halves are the trace's.                     *)
MultiplySigned(i) ==
  /\ i.op = "imul1"
  /\ LET product(x) == Signed(cpu[x].reg[Acc], Bits) * Signed(OperandOf(cpu[x], i.src), Bits)
         machines ==
           [x \in Inputs |->
              LET p == product(x)
              IN  Spilled(InMachine(x, ExtOf("E"), (p \div Modulus) % Modulus,
                                    AccOf("E"), p % Modulus),
                          Signed(p % Modulus, Bits) # p)]
         m == FromTrace(machines, {Acc, Ext})
     IN  /\ Turn(i, m, machines)
         /\ exact' = (exact /\ AgreeOn(m, machines, {Acc, Ext}))
  /\ FlagsLost

(* IMUL with two or three operands.                                        *)
Product(i) ==
  /\ i.op = "imul"
  /\ LET n == LaneBits(i.dst.lane)
         three == "by" \in DOMAIN i
         a == Operand(i, IF three THEN i.src ELSE i.dst)
         b == IF three THEN Constant(n, i.by) ELSE Operand(i, i.src)
         f == Leaf(n, a.symbolic \/ b.symbolic,
                   [x \in Inputs |-> MulLow(ValueAt(a, x), ValueAt(b, x))])
         product(x) ==
           Signed(OperandOf(cpu[x], IF three THEN i.src ELSE i.dst), n)
             * (IF three THEN Signed(i.by, n) ELSE Signed(OperandOf(cpu[x], i.src), n))
     IN  /\ Turn(i, Written(i, f),
                 [x \in Inputs |-> Spilled(PutReg(cpu[x], i.dst, product(x) % 2 ^ n),
                                           Signed(product(x) % 2 ^ n, n) # product(x))])
         /\ exact' = (exact /\ \A x \in Inputs : f.value[x] = product(x) % 2 ^ n)
  /\ FlagsLost

-----------------------------------------------------------------------------
(* The operands of DIV: where the dividend's halves, the quotient and the  *)
(* remainder are.                                                          *)
HighOf(k) == CASE k = "E" -> ExtOf("E") [] k = "X" -> ExtOf("X") [] OTHER -> AccOf("H")
LowOf(k)  == CASE k = "E" -> AccOf("E") [] k = "X" -> AccOf("X") [] OTHER -> AccOf("L")

DividendOf(x, k) ==
  OperandOf(cpu[x], HighOf(k)) * 2 ^ LaneBits(k) + OperandOf(cpu[x], LowOf(k))

(* Dividends of 32 bits and less are one formula.                          *)
DividendFormula(k) ==
  IF k = "X" THEN Concat(ReadLane(eng[Ext], "X"), ReadLane(eng[Acc], "X"))
  ELSE ReadLane(eng[Acc], "X")

(* DIV; the program does not fault, for no key, nor does the evaluation.   *)
Divide(i) ==
  LET k == i.dst.lane
      d(x) == OperandOf(cpu[x], i.src)
      high == eng[Ext]
      low == eng[Acc]
      symbolic == \/ Operand(i, i.src).symbolic
                  \/ IF k = "E" THEN high.symbolic \/ low.symbolic
                     ELSE DividendFormula(k).symbolic
      q == IF k = "E"
           THEN Leaf(Bits, symbolic,
                     [x \in Inputs |-> DivQuo(ValueAt(high, x), ValueAt(low, x), SrcAt(i, x))])
           ELSE Piece(Leaf(Bits, symbolic,
                           [x \in Inputs |-> ValueAt(DividendFormula(k), x) \div SrcAt(i, x)]),
                      1, LaneBits(k))
      r == IF k = "E"
           THEN Leaf(Bits, symbolic,
                     [x \in Inputs |-> DivRem(ValueAt(high, x), ValueAt(low, x), SrcAt(i, x))])
           ELSE Piece(Leaf(Bits, symbolic,
                           [x \in Inputs |-> ValueAt(DividendFormula(k), x) % SrcAt(i, x)]),
                      1, LaneBits(k))
  IN  /\ i.op = "div"
      /\ \A x \in Inputs :
           d(x) # 0 /\ SrcAt(i, x) # 0 /\ DividendOf(x, k) \div d(x) < 2 ^ LaneBits(k)
      /\ Turn(i, InEngine(LowOf(k), q, HighOf(k), r),
              [x \in Inputs |-> InMachine(x, LowOf(k), DividendOf(x, k) \div d(x),
                                          HighOf(k), DividendOf(x, k) % d(x))])
      /\ UNCHANGED exact
      /\ FlagsLost

(* IDIV, of 32 bits whatever its operand; the formula takes the divisor    *)
(* for an unsigned number.                                                 *)
DivideSigned(i) ==
  LET a(x) == SignedPair(cpu[x].reg[Ext], cpu[x].reg[Acc])
      d(x) == Signed(OperandOf(cpu[x], i.src), Bits)
      high == eng[Ext]
      low == eng[Acc]
      symbolic == high.symbolic \/ low.symbolic \/ Operand(i, i.src).symbolic
  IN  /\ i.op = "idiv"
      /\ \A x \in Inputs :
           /\ d(x) # 0 /\ SrcAt(i, x) # 0
           /\ Quotient(a(x), d(x)) \in -(2 ^ (Bits - 1)) .. 2 ^ (Bits - 1) - 1
      /\ Turn(i, InEngine(
                   AccOf("E"), Leaf(Bits, symbolic, [x \in Inputs |->
                     IdivQuo(ValueAt(high, x), ValueAt(low, x), SrcAt(i, x))]),
                   ExtOf("E"), Leaf(Bits, symbolic, [x \in Inputs |->
                     IdivRem(ValueAt(high, x), ValueAt(low, x), SrcAt(i, x))])),
              [x \in Inputs |-> InMachine(x, AccOf("E"), Quotient(a(x), d(x)) % Modulus,
                                          ExtOf("E"), Remainder(a(x), d(x)) % Modulus)])
      /\ exact' = (exact /\ \A x \in Inputs : d(x) > 0)
      /\ FlagsLost

(* CDQ copies eax's sign into edx, in the engine only if eax has no        *)
(* symbols.                                                                *)
ExtendAcc(i) ==
  /\ i.op = "cdq"
  /\ LET machines == [x \in Inputs |->
           PutReg(cpu[x], ExtOf("E"), IF Negative(cpu[x].reg[Acc], Bits) THEN Modulus - 1 ELSE 0)]
         m == IF eng[Acc].symbolic THEN eng ELSE FromTrace(machines, {Ext})
     IN  /\ Turn(i, m, machines)
         /\ exact' = (exact /\ AgreeOn(m, machines, {Ext}))
  /\ Quiet

-----------------------------------------------------------------------------
(* XCHG: both are read before either is written.                           *)
Exchange(i) ==
  /\ i.op = "xchg"
  /\ Turn(i, InEngine(i.src, Operand(i, i.dst), i.dst, Operand(i, i.src)),
          [x \in Inputs |-> InMachine(x, i.src, OperandOf(cpu[x], i.dst),
                                      i.dst, OperandOf(cpu[x], i.src))])
  /\ UNCHANGED exact
  /\ Quiet

(* The sum of some pieces of an address.                                   *)
AddressValue(a, regs) ==
  ((IF Has(a, {"base"}) THEN regs[a.base] ELSE 0)
   + (IF Has(a, {"index"}) THEN regs[a.index] * a.scale ELSE 0)
   + (IF ~ Has(a, {"disp"}) THEN 0
      ELSE IF Has(a, {"sign"}) /\ a.sign = "-" THEN 0 - a.disp ELSE a.disp)) % Modulus

(* LEA: the pieces that the parser found.                                  *)
AddressSum(i) ==
  /\ i.op = "lea"
  /\ LET a == CreateAddrOperand(i.addr).field
         read == { a[piece] : piece \in DOMAIN a \cap {"base", "index"} }
         f == Leaf(Bits, \E r \in read : eng[r].symbolic,
                   [x \in Inputs |-> AddressValue(a, [r \in Regs |-> ValueAt(eng[r], x)])])
     IN  Turn(i, Written(i, f),
              [x \in Inputs |-> PutReg(cpu[x], i.dst, AddressValue(i.addr, cpu[x].reg))])
  /\ UNCHANGED exact
  /\ Quiet

(* SHLD and SHRD by a constant.                                            *)
DoubleShift(i) ==
  LET Shifted(a, b) == IF i.op = "shld" THEN Shld(a, b, i.by) ELSE Shrd(a, b, i.by)
      a == Operand(i, i.dst)
      b == Operand(i, i.src)
      after(x) ==
        LET v == OperandOf(cpu[x], i.dst)
            r == Shifted(v, OperandOf(cpu[x], i.src))
        IN  [PutReg(cpu[x], i.dst, r) EXCEPT
               !.flags.CF = BitOf(v, IF i.op = "shld" THEN Bits - i.by ELSE i.by - 1),
               !.flags.ZF = (r = 0), !.flags.SF = Negative(r, Bits),
               !.flags.OF = Negative(r, Bits) # Negative(v, Bits)]
  IN  /\ i.op \in {"shld", "shrd"}
      /\ Turn(i, Written(i, Leaf(Bits, a.symbolic \/ b.symbolic,
                                 [x \in Inputs |-> Shifted(ValueAt(a, x), ValueAt(b, x))])),
              [x \in Inputs |-> after(x)])
      /\ UNCHANGED exact
      /\ FlagsLost

(* BSWAP; without symbols the trace's value.                               *)
SwapBytes(i) ==
  LET f == eng[i.dst.reg]
      Byte(n) == Extract(f, ByteBits * n + 1, ByteBits * (n + 1))
      machines == [x \in Inputs |-> PutReg(cpu[x], i.dst, Reversed(OperandOf(cpu[x], i.dst)))]
  IN  /\ i.op = "bswap"
      /\ Turn(i, IF f.symbolic
                 THEN Written(i, Concat(Concat(Concat(Byte(0), Byte(1)), Byte(2)), Byte(3)))
                 ELSE FromTrace(machines, {i.dst.reg}),
              machines)
      /\ UNCHANGED exact
      /\ Quiet

(* BSF; of 0 the processor leaves the destination.                         *)
ScanBits(i) ==
  /\ i.op = "bsf"
  /\ LET f == Operand(i, i.src)
         found(x) == LET v == OperandOf(cpu[x], i.src)
                     IN  IF v = 0 THEN OperandOf(cpu[x], i.dst) ELSE LowestBit(v)
     IN  /\ Turn(i, Written(i, Leaf(Bits, f.symbolic, [x \in Inputs |-> Bsf(ValueAt(f, x))])),
                 [x \in Inputs |-> [PutReg(cpu[x], i.dst, found(x)) EXCEPT
                                      !.flags.ZF = (OperandOf(cpu[x], i.src) = 0)]])
         /\ exact' = (exact /\ \A x \in Inputs : Bsf(ValueAt(f, x)) = found(x))
  /\ FlagsLost

(* BT: the index is taken modulo the size of a register, in the processor  *)
(* modulo that of the operand.                                             *)
BitTest(i) ==
  /\ i.op = "bt"
  /\ LET n == LaneBits(i.dst.lane)
         index(x) == OperandOf(cpu[x], i.src)
     IN  /\ Turn(i, eng, [x \in Inputs |->
                            [cpu[x] EXCEPT !.flags.CF =
                               BitOf(OperandOf(cpu[x], i.dst), index(x) % n)]])
         /\ flags' = [x \in Inputs |->
              [flags[x] EXCEPT !.CF = BitOf(ValueAt(Operand(i, i.dst), x), SrcAt(i, x))]]
         /\ trusted' = (trusted \cap {"ZF"})
              \cup (IF exact /\ \A x \in Inputs : index(x) % Bits < n THEN {"CF"} ELSE {})
  /\ UNCHANGED exact

-----------------------------------------------------------------------------
(* Registers that are taken from the trace whatever was in them; ebx, the  *)
(* fourth of CPUID, is not among those of the model.                       *)
CPUID    == {Acc, Ext, Cnt}
RDTSC    == {Acc, Ext}
SYSENTER == {Acc}

(* The immediate stands for the machine's answer, the same for every key.  *)
AskMachine(i) ==
  LET rs == CASE i.op = "cpuid" -> CPUID [] i.op = "rdtsc" -> RDTSC [] OTHER -> SYSENTER
      machines == [x \in Inputs |->
        [cpu[x] EXCEPT !.reg = [r \in Regs |-> IF r \in rs THEN i.src.imm ELSE @[r]]]]
  IN  /\ i.op \in Taken
      /\ Turn(i, FromTrace(machines, rs), machines)
      /\ UNCHANGED <<exact, flags>>
      /\ trusted' = IF i.op = "sysenter" THEN {} ELSE trusted

-----------------------------------------------------------------------------
(* String instructions, [op, dst, src, by]: dst is the pointer, by the     *)
(* direction, 1 or -1; those with a prefix have rep.  A line of the trace  *)
(* is one iteration.                                                       *)
MakeRepInst(op) ==
  CASE op = "stosd" -> "rep stosd" [] op = "nop" -> "nop" [] OTHER -> "unrecognized"

MakeInst(i) == IF Has(i, {"rep"}) THEN MakeRepInst(i.op) ELSE i.op

(* The processor: nothing more is done when the count has run out.         *)
Iterated(i, x) ==
  LET moved == PutReg(cpu[x], i.dst,
                      (OperandOf(cpu[x], i.dst) + i.by * (IF i.op = "stosb" THEN 1 ELSE 4))
                        % Modulus)
      count == cpu[x].reg[Cnt]
  IN  CASE ~ Has(i, {"rep"}) -> moved
        [] count = 0         -> cpu[x]
        [] OTHER             -> [moved EXCEPT !.reg[Cnt] = count - 1]

(* A register with symbols is moved on, another taken from the trace.      *)
Advanced(r, n, machines) ==
  IF eng[r].symbolic
  THEN Leaf(Bits, TRUE, [x \in Inputs |-> (ValueAt(eng[r], x) + n) % Modulus])
  ELSE Constant(Bits, machines[KeyInput].reg[r])

(* The register does not depend on the key.                                *)
Same(r) == \A x \in Inputs : cpu[x].reg[r] = cpu[KeyInput].reg[r]

(* STOSB looks at the direction flag, STOSD takes it for clear.            *)
StoreString(i) ==
  LET ptr == i.dst.reg
      machines == [x \in Inputs |-> Iterated(i, x)]
  IN  /\ \/ /\ MakeInst(i) = "stosb"
            /\ Turn(i, [eng EXCEPT ![ptr] = Advanced(ptr, i.by, machines),
                                   ![Cnt] = Advanced(Cnt, 0, machines)], machines)
            /\ UNCHANGED exact
         \/ /\ MakeInst(i) = "stosd"
            /\ Turn(i, [eng EXCEPT ![ptr] = Advanced(ptr, 4, machines)], machines)
            /\ exact' = (exact /\ (i.by = 1 \/ Same(ptr)))
      /\ Quiet

(* REP STOSD.  No constraint tells that the count is the trace's.          *)
RepeatStore(i) ==
  LET ptr == i.dst.reg
      machines == [x \in Inputs |-> Iterated(i, x)]
  IN  /\ MakeInst(i) = "rep stosd"
      /\ Turn(i, [eng EXCEPT ![Cnt] = Advanced(Cnt, 0 - 1, machines),
                             ![ptr] = Advanced(ptr, 4, machines)], machines)
      /\ exact' = (exact /\ Same(Cnt)
                   /\ ((i.by = 1 /\ cpu[KeyInput].reg[Cnt] # 0) \/ Same(ptr)))
      /\ Quiet

(* A repeated instruction without a class of its own: nothing is done, the *)
(* comparison gives the registers that moved the trace's values.           *)
RepeatUnrecognized(i) ==
  LET machines == [x \in Inputs |-> Iterated(i, x)]
  IN  /\ MakeInst(i) = "unrecognized"
      /\ Turn(i, eng, machines)
      /\ exact' = (exact /\ Same(Cnt) /\ (cpu[KeyInput].reg[Cnt] = 0 \/ Same(i.dst.reg)))
      /\ Quiet

(* LODSD of a dword without keys: the pointer is the trace's for all keys. *)
LoadString(i) ==
  /\ MakeInst(i) = "lodsd"
  /\ LET machines == [x \in Inputs |-> PutReg(Iterated(i, x), AccOf("E"), i.src.imm)]
     IN  Turn(i, [eng EXCEPT ![Acc] = Constant(Bits, i.src.imm),
                             ![Src] = Constant(Bits, machines[KeyInput].reg[Src])], machines)
  /\ exact' = (exact /\ Same(Src))
  /\ Quiet

WideNext ==
  \/ Next
  \/ \E i \in program.code :
       \/ Multiply(i) \/ MultiplySigned(i) \/ Product(i)
       \/ Divide(i) \/ DivideSigned(i) \/ ExtendAcc(i)
       \/ Exchange(i) \/ AddressSum(i) \/ DoubleShift(i)
       \/ SwapBytes(i) \/ ScanBits(i) \/ BitTest(i)
       \/ AskMachine(i)
       \/ StoreString(i) \/ RepeatStore(i) \/ RepeatUnrecognized(i) \/ LoadString(i)

WideSpec == Init /\ [][WideNext]_vars
=============================================================================
