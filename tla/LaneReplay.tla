----------------------------- MODULE LaneReplay -----------------------------
(***************************************************************************)
(* Programs of arithmetic on registers and parts of registers, replayed:   *)
(* the formulas of registers and flags (lib/ins_semantics.cpp) beside the  *)
(* processor, for the trace's key and for others, and the constraints of   *)
(* the jumps on those flags (BranchConstraints).                           *)
(*                                                                         *)
(* The replay compares registers with the trace, which shows what they are *)
(* for the trace's key.  Nothing shows what a formula is for another key,  *)
(* nor what a flag is for any: that is the subject here.                   *)
(***************************************************************************)
EXTENDS FlagFormulas

CONSTANTS
  KeyInput,   (* the key of the trace                                      *)
  Jumps,      (* the conditional jumps                                     *)
  Regs,       (* registers                                                 *)
  KeyReg,     (* the one that holds a dword of the key at first            *)
  Programs,   (* the programs examined, see Program                        *)
  MaxInsts    (* instructions replayed                                     *)

FlagStates ==
  [CF : BOOLEAN, ZF : BOOLEAN, SF : BOOLEAN, OF : BOOLEAN, PF : {FALSE}, EcxZero : {FALSE}]

VARIABLES
  program,    (* its instructions and the values it starts with, fixed     *)
  cpu,        (* the processor, for each input: registers and flags        *)
  eng,        (* m_ctx: a formula for each register                        *)
  flags, path, same,    (* see BranchConstraints; flags are the engine's   *)
  at,         (* instructions replayed                                     *)
  exact,      (* history: every result had its processor's value, for all  *)
              (* inputs                                                    *)
  trusted,    (* history: the flags and comparisons (Less stands for       *)
              (* SF # OF) that the last instructions leave right           *)
  sound       (* history: jumps were on trusted flags                      *)

vars == <<program, cpu, eng, flags, path, same, at, exact, trusted, sound>>

Branches == INSTANCE BranchConstraints WITH silent <- FALSE

(* Instructions of LaneWide, on whole registers.                           *)
Taken    == {"cpuid", "rdtsc", "sysenter"}
Strings  == {"stosb", "stosd", "lodsd"}
OnWhole  == Taken \cup Strings
            \cup {"imul1", "idiv", "cdq", "bsf", "bswap", "shld", "shrd", "lea"}
OnParts  == {"mul", "div", "imul", "xchg", "bt"}

(* code: instructions [op, dst, src] with operands [reg, lane], src may be *)
(* [imm]; some have a third operand, by, a prefix, rep, or an address,     *)
(* addr.  keys, initial: functions from inputs to a dword, dwords.         *)
Program(p) ==
  /\ \A i \in p.code :
       /\ i.op \in Operations \cup {"mov", "movzx", "movsx"} \cup SetBytes \cup CondMoves
                  \cup OnWhole \cup OnParts
       /\ i.op \in {"not", "movzx", "movsx"} \cup CondMoves \cup OnWhole => i.dst.lane = "E"
       /\ i.op = "xor" /\ i.src = i.dst => i.dst.lane = "E"
       /\ \/ i.op \in {"movzx", "movsx"} \/ "imm" \in DOMAIN i.src
          \/ LaneBits(i.src.lane) = LaneBits(i.dst.lane)
  /\ p.jumps \subseteq Jumps
  /\ p.keys \subseteq [Inputs -> 0 .. Modulus - 1]
  /\ p.initial \subseteq 0 .. Modulus - 1

ASSUME ProgramAssumption == \A p \in Programs : Program(p)

-----------------------------------------------------------------------------
(* The dword cell that QIFSEEngine::init makes of four bytes of the key.   *)
KeyCell(k) ==
  LET Byte(i) == Leaf(ByteBits, TRUE,
                      [x \in Inputs |-> Slice(k[x], ByteBits * i + 1, ByteBits * (i + 1))])
  IN  Concat(Byte(3), Concat(Concat(Byte(2), Byte(1)), Byte(0)))

NoFlags == [CF |-> FALSE, ZF |-> FALSE, SF |-> FALSE, OF |-> FALSE, PF |-> FALSE,
            EcxZero |-> FALSE]

Init ==
  /\ program \in Programs
  /\ \E key \in program.keys, n \in program.initial :
       /\ cpu = [x \in Inputs |->
                   [reg |-> [r \in Regs |-> IF r = KeyReg THEN key[x] ELSE n],
                    flags |-> NoFlags]]
       /\ eng = [r \in Regs |-> IF r = KeyReg THEN KeyCell(key) ELSE Constant(Bits, n)]
  /\ flags = [x \in Inputs |-> NoFlags]
  /\ path = Inputs /\ same = Inputs
  /\ at = 0
  /\ exact = TRUE
  /\ trusted = {"CF", "ZF", "SF", "OF", "Less"}
  /\ sound = TRUE

-----------------------------------------------------------------------------
IsImm(o) == "imm" \in DOMAIN o

(* An operand's formula.  SBB builds its immediate as a named constant     *)
(* whose value is 0.                                                       *)
Operand(i, o) ==
  IF IsImm(o) THEN Constant(LaneBits(i.dst.lane), IF i.op = "sbb" THEN 0 ELSE o.imm)
  ELSE ReadLane(eng[o.reg], o.lane)

(* An operand's value in the processor.                                    *)
OperandOf(machine, o) ==
  IF IsImm(o) THEN o.imm ELSE Get(machine.reg[o.reg], o.lane)

PutReg(machine, o, v) == [machine EXCEPT !.reg[o.reg] = Put(@, o.lane, v)]

(* The comparison at the end of run's loop, with the trace of KeyInput.    *)
Compared(m, machines) ==
  [r \in Regs |->
     IF m[r].symbolic /\ ValueAt(m[r], KeyInput) = machines[KeyInput].reg[r] THEN m[r]
     ELSE Constant(Bits, machines[KeyInput].reg[r])]

(* m_ctx after the instruction put f into its destination.                 *)
Written(i, f) == [eng EXCEPT ![i.dst.reg] = WriteLane(@, i.dst.lane, f)]

(* One turn: the instruction leaves the formulas m, the processor goes on  *)
(* to machines.                                                            *)
Turn(i, m, machines) ==
  /\ i \in program.code
  /\ at < MaxInsts
  /\ at' = at + 1
  /\ cpu' = machines
  /\ eng' = Compared(m, machines)
  /\ UNCHANGED <<program, path, same, sound>>

CarryIn(i, x) == IF i.op \in WithCarry /\ cpu[x].flags.CF THEN 1 ELSE 0

Writes(op) == op \notin {"cmp", "test"}

(* What the instruction computes in the processor.                         *)
TrueResult(i, x) ==
  Result(LaneBits(i.dst.lane), i.op, OperandOf(cpu[x], i.dst), OperandOf(cpu[x], i.src),
         CarryIn(i, x))

(* A negation that is only the complement.                                 *)
FormulaResult_Complement(i, x) ==
  Result(Bits, IF i.op = "neg" THEN "not" ELSE i.op, ValueAt(Operand(i, i.dst), x),
         ValueAt(Operand(i, i.src), x), CarryIn(i, KeyInput))

(* What its formula evaluates to: ADC and SBB add the trace's carry.       *)
FormulaResult(i, x) ==
  Result(Bits, i.op, ValueAt(Operand(i, i.dst), x), ValueAt(Operand(i, i.src), x),
         CarryIn(i, KeyInput))

After(i, x) ==
  LET n == LaneBits(i.dst.lane)
      r == TrueResult(i, x)
      m == [cpu[x] EXCEPT
              !.flags = ProcessorFlags(@, i.op, n, OperandOf(cpu[x], i.dst),
                                       OperandOf(cpu[x], i.src), CarryIn(i, x), r)]
  IN  IF Writes(i.op) THEN PutReg(m, i.dst, r) ELSE m

-----------------------------------------------------------------------------
(* Which flags are right after the instruction, if the registers were.     *)
Right(i)    == \A x \in Inputs : FormulaResult(i, x) = TrueResult(i, x)
NoCarry(i)  == \A x \in Inputs : CarryIn(i, x) = 0
Whole(i)    == ~ (i.op = "sbb" /\ IsImm(i.src) /\ i.src.imm # 0)

(* Neither an operand nor the result is the largest positive number.       *)
OffBoundary(i) ==
  LET max == Largest(LaneBits(i.dst.lane))
  IN  \A x \in Inputs :
        /\ OperandOf(cpu[x], i.dst) # max
        /\ OperandOf(cpu[x], i.src) # max \/ i.op \in {"inc", "dec", "neg"}
        /\ TrueResult(i, x) # max

(* A sum or difference: its comparison with 0 is right even where sign and *)
(* overflow are not, as both are taken before the result is cut to size.   *)
ArithmeticTrust(i) ==
  LET plain == NoCarry(i) /\ Whole(i)
      apart == i.op \in Differences /\ plain
  IN  (IF i.op \in {"inc", "dec"} THEN trusted \cap {"CF"}
       ELSE IF exact /\ plain THEN {"CF"} ELSE {})
      \cup (IF exact /\ (Right(i) \/ apart) THEN {"ZF"} ELSE {})
      \cup (IF exact /\ Right(i) THEN {"SF"} ELSE {})
      \cup (IF exact /\ plain /\ Right(i) /\ OffBoundary(i) THEN {"OF"} ELSE {})
      \cup (IF exact /\ plain /\ (Right(i) \/ apart) /\ OffBoundary(i) THEN {"Less"} ELSE {})

Trust(i) ==
  CASE i.op \in Sums \cup Differences -> ArithmeticTrust(i)
    [] i.op \in Logic   -> IF exact THEN {"CF", "ZF", "SF", "OF", "Less"} ELSE {"CF", "OF"}
    [] i.op \in Shifts  -> IF exact /\ Right(i) THEN {"ZF"} ELSE {}
    [] i.op \in Rotates -> trusted \cap {"SF"}
    [] OTHER            -> trusted

(* The classes with a result and flags: ADD to XOR, CMP and TEST, shifts   *)
(* and rotates by one, NEG and NOT.                                        *)
Compute(i) ==
  LET a == Operand(i, i.dst)
      b == Operand(i, i.src)
      n == LaneBits(i.dst.lane)
      zeroed == i.op = "xor" /\ i.src = i.dst
      f == Leaf(n, (a.symbolic \/ b.symbolic) /\ ~ zeroed,
                [x \in Inputs |-> FormulaResult(i, x)])
  IN  /\ i.op \in Operations
      /\ Turn(i, IF Writes(i.op) THEN Written(i, f) ELSE eng, [x \in Inputs |-> After(i, x)])
      /\ flags' = [x \in Inputs |->
           EngineFlags(flags[x], i.op, n, ValueAt(a, x), ValueAt(b, x), FormulaResult(i, x))]
      /\ exact' = (exact /\ (Writes(i.op) => Right(i)))
      /\ trusted' = Trust(i)

Quiet == UNCHANGED <<flags, trusted>>

(* mov.                                                                    *)
Move(i) ==
  /\ i.op = "mov"
  /\ Turn(i, Written(i, Operand(i, i.src)),
          [x \in Inputs |-> PutReg(cpu[x], i.dst, OperandOf(cpu[x], i.src))])
  /\ UNCHANGED exact
  /\ Quiet

(* movzx and movsx.                                                        *)
Extend(i) ==
  /\ i.op \in {"movzx", "movsx"}
  /\ LET f == Operand(i, i.src)
         Extended(v) == IF i.op = "movzx" THEN v
                        ELSE Signed(v, LaneBits(i.src.lane)) % Modulus
     IN  Turn(i, Written(i, IF i.op = "movzx" THEN ZeroExt(f) ELSE SignExt(f)),
              [x \in Inputs |-> PutReg(cpu[x], i.dst, Extended(OperandOf(cpu[x], i.src)))])
  /\ UNCHANGED exact
  /\ Quiet

(* The flags a condition is made of.                                       *)
Needs(j) ==
  CASE j \in Branches!CarryJumps    -> {"CF"}
    [] j \in Branches!ZeroJumps     -> {"ZF"}
    [] j \in Branches!OverflowJumps -> {"OF"}
    [] j \in Branches!SignJumps     -> {"SF"}
    [] j \in Branches!BelowJumps    -> {"CF", "ZF"}
    [] j \in Branches!LessJumps     -> {"Less"}
    [] j \in Branches!GreaterJumps  -> {"ZF", "Less"}

Bit(flag) == IF flag THEN 1 ELSE 0

(* SETcc: the byte is a formula of the flags.  (After a comparison of high *)
(* bytes the formula keeps their low_bit and fails writeReg's assertion;   *)
(* no program of the runs sets a byte then.)                               *)
SetByte(i) ==
  /\ i.op \in SetBytes
  /\ LET own == cpu[KeyInput].flags
         f == Leaf(ByteBits, i.op # "setb", [x \in Inputs |-> Bit(IsSet(i.op, own, flags[x]))])
         set(x) == Branches!Taken(JumpLike[i.op], cpu[x].flags)
     IN  /\ Turn(i, Written(i, f), [x \in Inputs |-> PutReg(cpu[x], i.dst, Bit(set(x)))])
         /\ exact' = (exact /\ IF i.op = "setb" THEN \A x \in Inputs : set(x) = set(KeyInput)
                               ELSE Needs(JumpLike[i.op]) \subseteq trusted)
  /\ Quiet

(* CMOVcc: a move if the trace's flags say so, without a constraint.       *)
MoveIf(i) ==
  /\ i.op \in CondMoves
  /\ LET moved(x) == Branches!Taken(JumpLike[i.op], cpu[x].flags)
     IN  /\ Turn(i, IF Moves(i.op, cpu[KeyInput].flags) THEN Written(i, Operand(i, i.src))
                    ELSE eng,
                 [x \in Inputs |->
                    IF moved(x) THEN PutReg(cpu[x], i.dst, OperandOf(cpu[x], i.src))
                    ELSE cpu[x]])
         /\ exact' = (exact /\ \A x \in Inputs : moved(x) = moved(KeyInput))
  /\ Quiet

-----------------------------------------------------------------------------
(* A conditional jump: its direction is the recorded flags', its formula   *)
(* the engine's.                                                           *)
Jump(j) ==
  LET own == cpu[KeyInput].flags
      satisfying == { x \in Inputs : Branches!Recorded(j, own, flags[x]) }
  IN  /\ j \in program.jumps
      /\ at < MaxInsts
      /\ at' = at + 1
      /\ \/ path' = path \cap satisfying
         \/ satisfying \in {{}, Inputs} /\ path' = path
      /\ same' = { x \in same : Branches!Taken(j, cpu[x].flags) = Branches!Taken(j, own) }
      /\ sound' = (sound /\ Needs(j) \subseteq trusted)
      /\ UNCHANGED <<program, cpu, eng, flags, exact, trusted>>

Finished == at = MaxInsts /\ UNCHANGED vars

Next ==
  \/ \E i \in program.code : Compute(i) \/ Move(i) \/ Extend(i) \/ SetByte(i) \/ MoveIf(i)
  \/ \E j \in program.jumps : Jump(j)
  \/ Finished

Spec == Init /\ [][Next]_vars

-----------------------------------------------------------------------------
RECURSIVE WellFormed(_)
WellFormed(f) ==
  IF IsConcat(f)
  THEN /\ f.symbolic /\ (f.hi.symbolic \/ f.lo.symbolic)
       /\ f.size = f.hi.size + f.lo.size
       /\ WellFormed(f.hi) /\ WellFormed(f.lo)
  ELSE f.value \in [Inputs -> 0 .. Modulus - 1]

(* Registers hold formulas of their size, flags are flags, the sets of     *)
(* inputs are inputs; and the comparison keeps the trace's own key right.  *)
TypeOK ==
  /\ \A r \in Regs : WellFormed(eng[r]) /\ eng[r].size = Bits
  /\ \A r \in Regs : ValueAt(eng[r], KeyInput) = cpu[KeyInput].reg[r]
  /\ \A x \in Inputs : cpu[x].reg \in [Regs -> 0 .. Modulus - 1]
  /\ flags \in [Inputs -> FlagStates]
  /\ path \subseteq Inputs /\ same \subseteq Inputs
  /\ trusted \subseteq {"CF", "ZF", "SF", "OF", "Less"}

(* CryptoHunt's engine, which takes registers apart by itself, moves lane  *)
(* l of register o to lane k of r as the processor does.                   *)
DynMoves(r, k, o, l) ==
  LET moved == DynWriteLane(eng[r], k, DynReadLane(eng[o], l))
  IN  \A x \in Inputs : ValueAt(moved, x) = Put(cpu[x].reg[r], k, Get(cpu[x].reg[o], l))

(* Taking registers apart and putting them together again loses nothing:   *)
(* as long as no instruction computed a result that leaves its part of a   *)
(* register, every formula has the processor's value for every key; and a  *)
(* part of it, however it came about, can be moved on.                     *)
LanesExact ==
  exact =>
    /\ \A r \in Regs, x \in Inputs : ValueAt(eng[r], x) = cpu[x].reg[r]
    /\ \A o \in { r \in Regs : eng[r].symbolic }, k, l \in Lanes :
         LaneBits(k) = LaneBits(l) => \A r \in {KeyReg, o} : DynMoves(r, k, o, l)

(* Whole-register programs without the instructions that take the trace's  *)
(* flag or result for every key's, SBB's immediates, and those the engine  *)
(* computes wrongly: IDIV by a negative number, BSF, STOSD downwards.      *)
FullWidth ==
  \A i \in program.code :
    /\ i.dst.lane = "E"
    /\ i.op \notin {"adc", "sbb", "imul1", "idiv", "cdq", "bsf", "lodsd"}
                   \cup SetBytes \cup CondMoves
    /\ "rep" \notin DOMAIN i
    /\ i.op = "stosd" => i.by = 1

(* They are always exact: with 32 bits the engine's arithmetic is the      *)
(* processor's.                                                            *)
FullWidthExact == FullWidth => exact

(* The flags an instruction is known to leave right are right for every    *)
(* key: carry and zero of sums and differences, sign where the result      *)
(* fits, and the signed comparison even where a byte's sign and overflow   *)
(* are both wrong.                                                         *)
FlagsTrusted ==
  \A x \in Inputs :
    LET e == flags[x]
        p == cpu[x].flags
    IN  /\ \A f \in trusted \ {"Less"} : e[f] = p[f]
        /\ "Less" \in trusted => Branches!Less(e) = Branches!Less(p)

(* Replayed on trusted flags, jumps record what BranchConstraints says of  *)
(* a program that sets its flags to these: with the theorem PathExact the  *)
(* constraints are exactly the keys that take the path.                    *)
JumpsRefine ==
  Branches!Init /\ [][sound' => Branches!Next]_<<flags, path, same>>
=============================================================================
