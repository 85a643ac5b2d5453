-------------------------- MODULE ReplayLoopProofs --------------------------
(***************************************************************************)
(* For every set of registers, every register width and every mix of       *)
(* instructions: the replay stays on the trace, and a recorded constraint  *)
(* that the trace's key violates was built right after a libc call or on a *)
(* flag the engine does not compute.                                       *)
(*                                                                         *)
(* And what is recorded is a leak of the program, however the key gets     *)
(* lost on the way; the program's leaks exactly, where the engine computes *)
(* all that the program does.                                              *)
(*                                                                         *)
(* RecordedHold is inductive together with RegistersFollow, which it rests *)
(* on for addresses, and FlagFollows, which it rests on for jumps.         *)
(***************************************************************************)
EXTENDS ReplayLoop, TLAPS

(* A trusted flag has the program's value.                                 *)
FlagFollows == cfTrusted => eng.cf.v = cpu.cf.v

Inv == TypeOK /\ RegistersFollow /\ FlagFollows /\ RecordedHold

-----------------------------------------------------------------------------
(* Writing a cell to a register, or a flag, gives a machine.               *)
LEMMA PutType ==
  ASSUME NEW m \in Machine, NEW d \in Regs, NEW cell \in Cell
  PROVE  /\ Put(m, d, cell) \in Machine
         /\ Put(m, d, cell).cf = m.cf
         /\ Put(m, d, cell).reg[d] = cell
         /\ \A r \in Regs \ {d} : Put(m, d, cell).reg[r] = m.reg[r]
BY DEF Put, Machine

(* Setting the carry flag leaves the registers alone.                      *)
LEMMA SetCFType ==
  ASSUME NEW m \in Machine, NEW flag \in Flag
  PROVE  SetCF(m, flag) \in Machine /\ SetCF(m, flag).reg = m.reg /\ SetCF(m, flag).cf = flag
BY DEF SetCF, Machine

(* Remainders are register values.                                         *)
LEMMA ModType == ASSUME NEW n \in Int PROVE n % Modulus \in Value
BY ModulusAssumption DEF Value

(* ADD gives a machine, and the carry of the unbounded sum.                *)
LEMMA AddType ==
  ASSUME NEW m \in Machine, NEW d \in Regs, NEW s \in Regs
  PROVE  /\ Add(m, d, s) \in Machine
         /\ Add(m, d, s).cf.v = (m.reg[d].v + m.reg[s].v >= Modulus)
<1> DEFINE x == m.reg[d]
           y == m.reg[s]
           cell == [v |-> (x.v + y.v) % Modulus, key |-> Either(x, y)]
           flag == [v |-> x.v + y.v >= Modulus, key |-> Either(x, y)]
<1>1. x \in Cell /\ y \in Cell
  BY DEF Machine
<1>2. cell \in Cell
  BY <1>1, ModType DEF Cell, Value, Either
<1>3. flag \in Flag
  BY <1>1 DEF Cell, Flag, Value, Either
<1>4. Add(m, d, s) = SetCF(Put(m, d, cell), flag)
  BY DEF Add
<1>5. QED
  BY <1>2, <1>3, <1>4, PutType, SetCFType

(* The processor's ADC gives a machine.                                    *)
LEMMA AddCarryType ==
  ASSUME NEW m \in Machine, NEW d \in Regs, NEW s \in Regs
  PROVE  AddCarry(m, d, s) \in Machine
<1> DEFINE x     == m.reg[d]
           y     == m.reg[s]
           sum   == x.v + y.v + (IF m.cf.v THEN 1 ELSE 0)
           keyed == Either(x, y) \/ m.cf.key
           cell  == [v |-> sum % Modulus, key |-> keyed]
           flag  == [v |-> sum >= Modulus, key |-> keyed]
<1>1. x \in Cell /\ y \in Cell /\ m.cf \in Flag
  BY DEF Machine
<1>2. sum \in Int /\ keyed \in BOOLEAN
  BY <1>1, ModulusAssumption DEF Cell, Flag, Value, Either
<1> HIDE DEF sum, keyed
<1>3. cell \in Cell /\ flag \in Flag
  BY <1>2, ModType, ModulusAssumption DEF Cell, Flag
<1>4. AddCarry(m, d, s) = SetCF(Put(m, d, cell), flag)
  BY DEF AddCarry, sum, keyed
<1>5. QED
  BY <1>3, <1>4, PutType, SetCFType

(* CMP gives a machine with the same registers, and the borrow.            *)
LEMMA CompareType ==
  ASSUME NEW m \in Machine, NEW d \in Regs, NEW s \in Regs
  PROVE  /\ Compare(m, d, s) \in Machine
         /\ Compare(m, d, s).cf.v = (m.reg[d].v < m.reg[s].v)
<1> DEFINE flag == [v   |-> m.reg[d].v < m.reg[s].v, key |-> Either(m.reg[d], m.reg[s])]
<1>1. flag \in Flag
  BY DEF Machine, Cell, Flag, Value, Either
<1>2. QED
  BY <1>1, SetCFType DEF Compare

(* The engine's ADC gives a machine, whatever its carry flag.              *)
LEMMA EngineAdcType ==
  ASSUME TypeOK, NEW d \in Regs, NEW s \in Regs
  PROVE  EngineAdc(d, s) \in Machine
<1> DEFINE sum  == Add(eng, d, s)
           cell == [sum.reg[d] EXCEPT !.v = (@ + 1) % Modulus]
<1>1. sum \in Machine
  BY AddType DEF TypeOK
<1> HIDE DEF sum
<1>2. cell \in Cell
  BY <1>1, ModType DEF Machine, Cell, Value
<1>3. [sum EXCEPT !.reg[d].v = (@ + 1) % Modulus] = Put(sum, d, cell)
  BY <1>1 DEF Put, Machine, Cell
<1>4. QED
  BY <1>1, <1>2, <1>3, PutType DEF EngineAdc, sum

(* CMOVB gives a machine and leaves the flag alone.                        *)
LEMMA MoveIfBelowType ==
  ASSUME NEW m \in Machine, NEW d \in Regs, NEW s \in Regs
  PROVE  MoveIfBelow(m, d, s) \in Machine /\ MoveIfBelow(m, d, s).cf = m.cf
<1> DEFINE chosen == IF m.cf.v THEN m.reg[s] ELSE m.reg[d]
           cell   == [chosen EXCEPT !.key = @ \/ m.cf.key]
<1>1. chosen \in Cell /\ m.cf \in Flag
  BY DEF Machine
<1> HIDE DEF chosen
<1>2. cell \in Cell
  BY <1>1 DEF Cell, Flag
<1>3. MoveIfBelow(m, d, s) = Put(m, d, cell)
  BY DEF MoveIfBelow, chosen
<1>4. QED
  BY <1>2, <1>3, PutType

-----------------------------------------------------------------------------
(* What every turn does, whatever the instruction: the comparison restores *)
(* RegistersFollow, and CF is left as symbolic_execution left it.          *)
LEMMA TurnFollows ==
  ASSUME TypeOK, NEW kind, NEW machine \in Machine, NEW shown, NEW m \in Machine,
         Turn(kind, machine, shown, m)
  PROVE  /\ at' \in 1 .. MaxInsts /\ at \in 1 .. MaxInsts /\ kinds' \in Programs
         /\ cpu' = machine /\ eng' \in Machine
         /\ eng'.cf = m.cf
         /\ {libc', wasLibc', running'} \subseteq BOOLEAN
         /\ wasLibc' = libc
         /\ RegistersFollow'
<1>1. cpu' = machine /\ at' \in 1 .. MaxInsts /\ kinds' \in Programs
  BY LengthAssumption DEF Turn, Moves, TypeOK
<1>2. PICK nextLibc \in BOOLEAN, cut \in Cut :
        /\ IF libc \/ nextLibc
           THEN eng' = m /\ running' = TRUE
           ELSE /\ eng' = [m EXCEPT !.reg = [r \in Regs |->
                             IF r \in cut THEN Plain(machine.reg[r].v)
                             ELSE Compared(m.reg[r], machine.reg[r])]]
                /\ running' = (kind # "refused")
        /\ libc' = nextLibc
        /\ wasLibc' = libc
  BY DEF Turn, EndOfTurn
<1> DEFINE regs == [r \in Regs |-> IF r \in cut THEN Plain(machine.reg[r].v)
                                   ELSE Compared(m.reg[r], machine.reg[r])]
<1>3. regs \in [Regs -> Cell]
  BY DEF Plain, Compared, Machine, Cell
<1>4. \A r \in Regs : regs[r].v = machine.reg[r].v
  BY DEF Plain, Compared, Machine, Cell
<1>5. libc' \in BOOLEAN /\ wasLibc' \in BOOLEAN /\ running' \in BOOLEAN
  BY <1>2 DEF TypeOK
<1>6. CASE libc \/ nextLibc
  BY <1>1, <1>2, <1>5, <1>6 DEF TypeOK, RegistersFollow
<1>7. CASE ~ (libc \/ nextLibc)
  <2>1. eng' = [m EXCEPT !.reg = regs]
    BY <1>2, <1>7
  <2> HIDE DEF regs
  <2>2. eng' \in Machine /\ eng'.cf = m.cf /\ eng'.reg = regs
    BY <2>1, <1>3 DEF Machine
  <2>3. QED
    BY <1>1, <1>2, <1>4, <1>5, <2>2 DEF TypeOK, RegistersFollow
<1>8. QED
  BY <1>6, <1>7

(* A turn that records nothing: what is left to see is its CF.             *)
LEMMA SilentKeeps ==
  ASSUME Inv, NEW kind, NEW machine \in Machine, NEW m \in Machine,
         Silent(kind, machine, m),
         cfTrusted' \in BOOLEAN,
         cfTrusted' => m.cf.v = machine.cf.v
  PROVE  Inv'
<1>1. Turn(kind, machine, {}, m) /\ recorded' = recorded
  BY DEF Silent
<1>2. QED
  BY <1>1, TurnFollows DEF Inv, TypeOK, FlagFollows, RecordedHold

(* A turn that may record a constraint: it is well formed, and holds if it *)
(* is sound.                                                               *)
LEMMA RecordingKeeps ==
  ASSUME Inv, NEW kind, NEW machine \in Machine, NEW shown, NEW m \in Machine,
         Turn(kind, machine, shown, m),
         NEW symbols, NEW c, Records(symbols, c),
         at \in 1 .. MaxInsts => c \in Constraint,
         c.sound => c.holds,
         cfTrusted' = cfTrusted,
         m.cf = eng.cf, machine.cf = cpu.cf
  PROVE  Inv'
<1>1. at \in 1 .. MaxInsts /\ cpu' = machine /\ eng'.cf = m.cf /\ kinds' \in Programs
      /\ at' \in 1 .. MaxInsts /\ eng' \in Machine /\ RegistersFollow'
      /\ {libc', wasLibc', running'} \subseteq BOOLEAN
  BY TurnFollows DEF Inv
<1>2. recorded' \subseteq recorded \cup {c}
  BY DEF Records
<1>3. TypeOK'
  BY <1>1, <1>2 DEF Inv, TypeOK
<1>4. FlagFollows'
  BY <1>1 DEF Inv, FlagFollows
<1>5. RecordedHold'
  BY <1>2 DEF Inv, RecordedHold
<1>6. QED
  BY <1>1, <1>3, <1>4, <1>5 DEF Inv

-----------------------------------------------------------------------------
(* Program and engine start from the same machine, with no constraint.     *)
LEMMA InitInv == Init => Inv
<1> SUFFICES ASSUME Init PROVE Inv
  OBVIOUS
<1>1. cpu \in Machine /\ eng = cpu /\ at = 1 /\ recorded = {} /\ cfTrusted = TRUE
      /\ libc = FALSE /\ wasLibc = FALSE /\ running = TRUE /\ kinds \in Programs
  BY DEF Init, FlowInit
<1>2. TypeOK
  <2>1. at \in 1 .. MaxInsts
    BY <1>1, LengthAssumption
  <2>2. {libc, wasLibc, running, cfTrusted} \subseteq BOOLEAN
    BY <1>1, Zenon
  <2>3. QED
    BY <1>1, <2>1, <2>2 DEF TypeOK
<1>3. RegistersFollow /\ FlagFollows /\ RecordedHold
  BY <1>1 DEF RegistersFollow, FlagFollows, RecordedHold
<1>4. QED
  BY <1>2, <1>3 DEF Inv

(* One step for each instruction.                                          *)
LEMMA StepInv == Inv /\ [Next]_vars => Inv'
<1> SUFFICES ASSUME Inv, [Next]_vars PROVE Inv'
  OBVIOUS
<1>0. /\ cpu \in Machine /\ eng \in Machine /\ cfTrusted \in BOOLEAN
      /\ wasLibc \in BOOLEAN /\ cpu.cf \in Flag /\ eng.cf \in Flag
      /\ cfTrusted => eng.cf.v = cpu.cf.v
      /\ (~ libc /\ ~ wasLibc) => \A r \in Regs : eng.reg[r].v = cpu.reg[r].v
  BY DEF Inv, TypeOK, FlagFollows, RegistersFollow, Machine
<1>1. ASSUME NEW d \in Regs, NEW s \in Regs, MoveReg(d, s) PROVE Inv'
  <2>1. cpu.reg[s] \in Cell /\ eng.reg[s] \in Cell
    BY <1>0 DEF Machine
  <2> DEFINE machine == Put(cpu, d, cpu.reg[s])
             m       == Put(eng, d, eng.reg[s])
  <2>2. machine \in Machine /\ m \in Machine /\ machine.cf = cpu.cf /\ m.cf = eng.cf
    BY <1>0, <2>1, PutType, SMTT(20)
  <2>3. Silent("mov", machine, m) /\ cfTrusted' = cfTrusted
    BY <1>1 DEF MoveReg
  <2> HIDE DEF machine, m
  <2>4. QED
    BY <1>0, <2>2, <2>3, SilentKeeps
<1>2. ASSUME NEW d \in Regs, NEW value \in Value, MoveImm(d, value) PROVE Inv'
  <2> DEFINE machine == Put(cpu, d, Plain(value))
             m       == Put(eng, d, Plain(value))
  <2>1. Plain(value) \in Cell
    BY DEF Plain, Cell
  <2>2. machine \in Machine /\ m \in Machine /\ machine.cf = cpu.cf /\ m.cf = eng.cf
    BY <1>0, <2>1, PutType
  <2>3. Silent("mov", machine, m) /\ cfTrusted' = cfTrusted
    BY <1>2 DEF MoveImm
  <2> HIDE DEF machine, m
  <2>4. QED
    BY <1>0, <2>2, <2>3, SilentKeeps
<1>3. ASSUME NEW d \in Regs, NEW s \in Regs, Arithmetic(d, s) PROVE Inv'
  <2>1. CASE Silent("add", Add(cpu, d, s), Add(eng, d, s)) /\ SetsCF(TRUE)
    <3>1. ~ libc
      BY <2>1 DEF Silent, Turn
    <3>2. cfTrusted' = ~ wasLibc
      BY <2>1 DEF SetsCF
    <3>3. Add(cpu, d, s) \in Machine /\ Add(eng, d, s) \in Machine
      BY <1>0, AddType
    <3>4. cfTrusted' => Add(eng, d, s).cf.v = Add(cpu, d, s).cf.v
      <4>1. Add(eng, d, s).cf.v = (eng.reg[d].v + eng.reg[s].v >= Modulus)
        BY <1>0, AddType
      <4>2. Add(cpu, d, s).cf.v = (cpu.reg[d].v + cpu.reg[s].v >= Modulus)
        BY <1>0, AddType
      <4>3. cfTrusted' => eng.reg[d].v = cpu.reg[d].v /\ eng.reg[s].v = cpu.reg[s].v
        BY <1>0, <3>1, <3>2
      <4>4. QED
        BY <4>1, <4>2, <4>3
    <3>5. QED
      BY <1>0, <2>1, <3>2, <3>3, <3>4, SilentKeeps
  <2>2. CASE Silent("cmp", Compare(cpu, d, s), Compare(eng, d, s)) /\ SetsCF(TRUE)
    <3>1. ~ libc
      BY <2>2 DEF Silent, Turn
    <3>2. cfTrusted' = ~ wasLibc
      BY <2>2 DEF SetsCF
    <3>3. Compare(cpu, d, s) \in Machine /\ Compare(eng, d, s) \in Machine
      BY <1>0, CompareType
    <3>4. cfTrusted' => Compare(eng, d, s).cf.v = Compare(cpu, d, s).cf.v
      <4>1. Compare(eng, d, s).cf.v = (eng.reg[d].v < eng.reg[s].v)
        BY <1>0, CompareType
      <4>2. Compare(cpu, d, s).cf.v = (cpu.reg[d].v < cpu.reg[s].v)
        BY <1>0, CompareType
      <4>3. cfTrusted' => eng.reg[d].v = cpu.reg[d].v /\ eng.reg[s].v = cpu.reg[s].v
        BY <1>0, <3>1, <3>2
      <4>4. QED
        BY <4>1, <4>2, <4>3
    <3>5. QED
      BY <1>0, <2>2, <3>2, <3>3, <3>4, SilentKeeps
  <2>3. QED
    BY <1>3, <2>1, <2>2 DEF Arithmetic
<1>4. ASSUME NEW d \in Regs, NEW s \in Regs, Adc(d, s) PROVE Inv'
  <2>1. AddCarry(cpu, d, s) \in Machine /\ EngineAdc(d, s) \in Machine
    BY <1>0, AddCarryType, EngineAdcType DEF Inv
  <2>2. cfTrusted' = FALSE
    BY <1>4 DEF Adc, SetsCF
  <2>3. QED
    BY <1>4, <2>1, <2>2, SilentKeeps DEF Adc
<1>5. ASSUME NEW d \in Regs, NEW s \in Regs, CMov(d, s) PROVE Inv'
  <2> DEFINE machine == MoveIfBelow(cpu, d, s)
             m       == IF cpu.cf.v THEN Put(eng, d, eng.reg[s]) ELSE eng
  <2>1. machine \in Machine /\ machine.cf = cpu.cf
    BY <1>0, MoveIfBelowType
  <2>2. m \in Machine /\ m.cf = eng.cf
    <3>1. eng.reg[s] \in Cell
      BY <1>0 DEF Machine
    <3>2. QED
      BY <1>0, <3>1, PutType
  <2>3. Silent("cmov", machine, m) /\ cfTrusted' = cfTrusted
    BY <1>5 DEF CMov
  <2> HIDE DEF machine, m
  <2>4. QED
    BY <1>0, <2>1, <2>2, <2>3, SilentKeeps
<1>6. ASSUME NEW d \in Regs, NEW a \in Regs, NEW cell \in Cell,
             NEW got \in Remembered(cell), Load(d, a, cell, got)
      PROVE  Inv'
  <2> DEFINE machine == Put(cpu, d, cell)
             m       == Put(eng, d, got)
  <2>1. got \in Cell
    <3>1. got = cell \/ got = Plain(cell.v)
      BY DEF Remembered
    <3>2. Plain(cell.v) \in Cell
      BY DEF Plain, Cell
    <3>3. QED
      BY <3>1, <3>2
  <2>2. machine \in Machine /\ m \in Machine /\ machine.cf = cpu.cf /\ m.cf = eng.cf
    BY <1>0, <2>1, PutType
  <2>3. /\ Turn("load", machine, Leak(cpu.reg[a].key, "DA"), m)
        /\ Records(eng.reg[a].key, AccessConstraint(a))
        /\ cfTrusted' = cfTrusted
    BY <1>6 DEF Load
  <2>4. ~ libc
    BY <2>3 DEF Turn
  <2>5. AccessConstraint(a).sound => AccessConstraint(a).holds
    BY <1>0, <2>4 DEF AccessConstraint
  <2>6. at \in 1 .. MaxInsts => AccessConstraint(a) \in Constraint
    BY <1>0 DEF AccessConstraint, Constraint
  <2> HIDE DEF machine, m
  <2>7. QED
    BY <2>2, <2>3, <2>5, <2>6, RecordingKeeps
<1>7. CASE Branch
  <2> DEFINE c == [at |-> at, type |-> "CF", holds |-> eng.cf.v = cpu.cf.v,
                   sound |-> cfTrusted]
  <2>1. /\ Turn("jcc", cpu, Leak(cpu.cf.key, "CF"), eng)
        /\ Records(eng.cf.key, c)
        /\ cfTrusted' = cfTrusted
    BY <1>7 DEF Branch
  <2>2. c.sound => c.holds
    BY <1>0
  <2>3. at \in 1 .. MaxInsts => c \in Constraint
    BY <1>0 DEF Constraint
  <2> HIDE DEF c
  <2>4. QED
    BY <1>0, <2>1, <2>2, <2>3, RecordingKeeps
<1>8. ASSUME NEW kind, NEW machine \in Machine, Unmodelled(kind, machine) PROVE Inv'
  <2>1. Silent(kind, machine, eng) /\ cfTrusted' = FALSE
    BY <1>8 DEF Unmodelled, SetsCF
  <2>2. QED
    BY <1>0, <2>1, SilentKeeps
<1>9. ASSUME NEW machine \in Machine, LibcCall(machine) PROVE Inv'
  <2> DEFINE m == Put(eng, Acc, machine.reg[Acc])
  <2>1. m \in Machine
    <3>1. machine.reg[Acc] \in Cell
      BY AccAssumption DEF Machine
    <3>2. QED
      BY <1>0, <3>1, AccAssumption, PutType
  <2>2. Silent("libc", machine, m) /\ cfTrusted' = FALSE
    BY <1>9 DEF LibcCall, SetsCF
  <2> HIDE DEF m
  <2>3. QED
    BY <2>1, <2>2, SilentKeeps
<1>10. CASE UNCHANGED vars
  BY <1>10 DEF vars, Inv, TypeOK, RegistersFollow, FlagFollows, RecordedHold
<1>11. QED
  BY <1>1, <1>2, <1>3, <1>4, <1>5, <1>6, <1>7, <1>8, <1>9, <1>10
     DEF Next, Step, Finished

(* The inductive invariant holds throughout the replay.                    *)
LEMMA InvAlways == Spec => []Inv
BY InitInv, StepInv, PTL DEF Spec

(* Registers and flags stay machine states, constraints well formed.       *)
THEOREM TypeCorrect == Spec => []TypeOK
<1>1. Inv => TypeOK
  BY DEF Inv
<1>2. QED
  BY <1>1, InvAlways, PTL

(* run() keeps the engine's registers on the trace: after any instructions *)
(* but a libc call, known to the engine or not, each evaluates to the      *)
(* program's value.                                                        *)
THEOREM ReplayFollows == Spec => []RegistersFollow
<1>1. Inv => RegistersFollow
  BY DEF Inv
<1>2. QED
  BY <1>1, InvAlways, PTL

(* A constraint that updateCFConstrains or updateDAConstrains would report *)
(* as violated by the trace's own key comes from an address right after a  *)
(* libc call or from a flag the engine does not compute.                   *)
THEOREM ConstraintsHold == Spec => []RecordedHold
<1>1. Inv => RecordedHold
  BY DEF Inv
<1>2. QED
  BY <1>1, InvAlways, PTL

-----------------------------------------------------------------------------
(* Where the key is.  What depends on it in n does in m.                   *)
Covers(m, n) ==
  /\ \A r \in Regs : n.reg[r].key => m.reg[r].key
  /\ n.cf.key => m.cf.key

(* The engine loses the key or follows it, and never finds it elsewhere.   *)
KeyFollows == kinds \subseteq Losing => Covers(cpu, eng) /\ Shown \subseteq leaks

(* The engine is the program's machine where it computes everything.       *)
EngineIsMachine == kinds \subseteq Computed => eng = cpu

(* What moves, additions and comparisons do to the key.                    *)
LEMMA KeysOf ==
  ASSUME NEW m \in Machine, NEW d \in Regs, NEW s \in Regs
  PROVE  /\ Add(m, d, s).reg[d].key = Either(m.reg[d], m.reg[s])
         /\ \A r \in Regs \ {d} : Add(m, d, s).reg[r] = m.reg[r]
         /\ Add(m, d, s).cf.key = Either(m.reg[d], m.reg[s])
         /\ Compare(m, d, s).reg = m.reg
         /\ Compare(m, d, s).cf.key = Either(m.reg[d], m.reg[s])
<1> DEFINE x == m.reg[d]
           y == m.reg[s]
           cell == [v |-> (x.v + y.v) % Modulus, key |-> Either(x, y)]
           flag == [v |-> x.v + y.v >= Modulus, key |-> Either(x, y)]
           less == [v |-> x.v < y.v, key |-> Either(x, y)]
<1>1. x \in Cell /\ y \in Cell
  BY DEF Machine
<1>2. cell \in Cell /\ cell.key = Either(x, y)
  BY <1>1, ModType DEF Cell, Value, Either
<1>3. flag \in Flag /\ less \in Flag /\ flag.key = Either(x, y) /\ less.key = Either(x, y)
  BY <1>1 DEF Cell, Flag, Value, Either
<1>4. Add(m, d, s) = SetCF(Put(m, d, cell), flag) /\ Compare(m, d, s) = SetCF(m, less)
  BY DEF Add, Compare
<1> HIDE DEF cell, flag, less
<1>5. /\ Put(m, d, cell) \in Machine /\ Put(m, d, cell).reg[d] = cell
      /\ \A r \in Regs \ {d} : Put(m, d, cell).reg[r] = m.reg[r]
  BY <1>2, PutType
<1>6. /\ SetCF(Put(m, d, cell), flag).reg = Put(m, d, cell).reg
      /\ SetCF(Put(m, d, cell), flag).cf = flag
      /\ SetCF(m, less).reg = m.reg /\ SetCF(m, less).cf = less
  BY <1>3, <1>5, SetCFType
<1> QED
  BY <1>2, <1>3, <1>4, <1>5, <1>6

(* A turn's comparison takes the key from a register or leaves it.         *)
LEMMA TurnCovers ==
  ASSUME TypeOK, kinds \subseteq Losing, NEW kind, NEW machine \in Machine, NEW shown,
         NEW m \in Machine, Turn(kind, machine, shown, m), Covers(machine, m)
  PROVE  Covers(cpu', eng') /\ leaks' = leaks \cup shown /\ kinds' = kinds
<1>1. cpu' = machine /\ leaks' = leaks \cup shown /\ kinds' = kinds /\ eng'.cf = m.cf
  BY TurnFollows DEF Turn, Moves
<1>2. PICK nextLibc \in BOOLEAN, cut \in Cut :
        IF libc \/ nextLibc
        THEN eng' = m
        ELSE eng' = [m EXCEPT !.reg = [r \in Regs |->
                        IF r \in cut THEN Plain(machine.reg[r].v)
                        ELSE Compared(m.reg[r], machine.reg[r])]]
  BY DEF Turn, EndOfTurn
<1>3. CASE libc \/ nextLibc
  BY <1>1, <1>2, <1>3 DEF Covers
<1>4. CASE ~ (libc \/ nextLibc)
  <2> DEFINE regs == [r \in Regs |-> IF r \in cut THEN Plain(machine.reg[r].v)
                                     ELSE Compared(m.reg[r], machine.reg[r])]
  <2>1. eng' = [m EXCEPT !.reg = regs]
    BY <1>2, <1>4
  <2>2. \A r \in Regs : regs[r].key => m.reg[r].key
    BY DEF Plain, Compared
  <2> HIDE DEF regs
  <2>3. eng'.reg = regs
    BY <2>1 DEF Machine
  <2> QED
    BY <1>1, <2>2, <2>3 DEF Covers
<1> QED
  BY <1>3, <1>4

(* A turn that records nothing.                                            *)
LEMMA SilentCovers ==
  ASSUME TypeOK, KeyFollows, NEW kind, NEW machine \in Machine, NEW m \in Machine,
         Silent(kind, machine, m),
         kinds \subseteq Losing => Covers(machine, m)
  PROVE  KeyFollows'
<1>1. Turn(kind, machine, {}, m) /\ recorded' = recorded /\ kinds' = kinds
  BY DEF Silent, Turn
<1>2. SUFFICES ASSUME kinds \subseteq Losing
               PROVE  Covers(cpu', eng') /\ Shown' \subseteq leaks'
  BY <1>1 DEF KeyFollows, Covers
<1>3. Covers(cpu', eng') /\ leaks' = leaks
  BY <1>1, <1>2, TurnCovers
<1>4. Shown' = Shown
  BY <1>1 DEF Shown
<1> QED
  BY <1>2, <1>3, <1>4 DEF KeyFollows

(* A turn that may record a constraint where the program shows the key.    *)
LEMMA RecordingCovers ==
  ASSUME TypeOK, KeyFollows, NEW kind, NEW machine \in Machine, NEW m \in Machine,
         NEW depends \in BOOLEAN, NEW type, Turn(kind, machine, Leak(depends, type), m),
         NEW symbols \in BOOLEAN, NEW c, Records(symbols, c), c.at = at, c.type = type,
         kinds \subseteq Losing => Covers(machine, m) /\ (symbols => depends)
  PROVE  KeyFollows'
<1>1. kinds' = kinds
  BY DEF Turn
<1>2. SUFFICES ASSUME kinds \subseteq Losing
               PROVE  Covers(cpu', eng') /\ Shown' \subseteq leaks'
  BY <1>1 DEF KeyFollows, Covers
<1>3. Covers(cpu', eng') /\ leaks' = leaks \cup Leak(depends, type)
  BY <1>2, TurnCovers
<1>4. Shown \subseteq leaks
  BY <1>2 DEF KeyFollows
<1>5. Shown' \subseteq Shown \cup (IF symbols THEN {[at |-> at, type |-> type]} ELSE {})
  BY DEF Records, Shown
<1>6. (IF symbols THEN {[at |-> at, type |-> type]} ELSE {}) \subseteq Leak(depends, type)
  BY <1>2 DEF Leak
<1> QED
  BY <1>3, <1>4, <1>5, <1>6

LEMMA KeyInit == Init => KeyFollows
BY DEF Init, FlowInit, KeyFollows, Covers, Shown

LEMMA KeyStep == TypeOK /\ KeyFollows /\ [Next]_vars => KeyFollows'
<1> SUFFICES ASSUME TypeOK, KeyFollows, [Next]_vars PROVE KeyFollows'
  OBVIOUS
<1>0. /\ cpu \in Machine /\ eng \in Machine
      /\ \A r \in Regs : cpu.reg[r] \in Cell /\ eng.reg[r] \in Cell
      /\ cpu.cf \in Flag /\ eng.cf \in Flag
      /\ kinds \subseteq Losing => Covers(cpu, eng)
  BY DEF TypeOK, KeyFollows, Machine
<1>1. ASSUME NEW d \in Regs, NEW x \in Cell, NEW y \in Cell, y.key => x.key, Covers(cpu, eng)
      PROVE  Covers(Put(cpu, d, x), Put(eng, d, y))
  <2>1. /\ Put(cpu, d, x).cf = cpu.cf /\ Put(cpu, d, x).reg[d] = x
        /\ \A r \in Regs \ {d} : Put(cpu, d, x).reg[r] = cpu.reg[r]
    BY <1>0, <1>1, PutType
  <2>2. /\ Put(eng, d, y).cf = eng.cf /\ Put(eng, d, y).reg[d] = y
        /\ \A r \in Regs \ {d} : Put(eng, d, y).reg[r] = eng.reg[r]
    BY <1>0, <1>1, PutType
  <2>3. ASSUME NEW r \in Regs PROVE Put(eng, d, y).reg[r].key => Put(cpu, d, x).reg[r].key
    <3>1. CASE r = d
      BY <1>1, <2>1, <2>2, <3>1
    <3>2. CASE r # d
      BY <1>1, <2>1, <2>2, <3>2 DEF Covers
    <3> QED
      BY <3>1, <3>2
  <2> QED
    BY <1>1, <2>1, <2>2, <2>3 DEF Covers
<1>2. ASSUME NEW d \in Regs, NEW s \in Regs, MoveReg(d, s) PROVE KeyFollows'
  <2>1. Put(cpu, d, cpu.reg[s]) \in Machine /\ Put(eng, d, eng.reg[s]) \in Machine
    BY <1>0, PutType
  <2>2. kinds \subseteq Losing => Covers(Put(cpu, d, cpu.reg[s]), Put(eng, d, eng.reg[s]))
    BY <1>0, <1>1 DEF Covers
  <2> QED
    BY <1>2, <2>1, <2>2, SilentCovers DEF MoveReg
<1>3. ASSUME NEW d \in Regs, NEW value \in Value, MoveImm(d, value) PROVE KeyFollows'
  <2>1. Plain(value) \in Cell
    BY DEF Plain, Cell
  <2>2. Put(cpu, d, Plain(value)) \in Machine /\ Put(eng, d, Plain(value)) \in Machine
    BY <1>0, <2>1, PutType
  <2>3. kinds \subseteq Losing => Covers(Put(cpu, d, Plain(value)), Put(eng, d, Plain(value)))
    BY <1>0, <1>1, <2>1
  <2> QED
    BY <1>3, <2>2, <2>3, SilentCovers DEF MoveImm
<1>4. ASSUME NEW d \in Regs, NEW s \in Regs, Covers(cpu, eng)
      PROVE  /\ Covers(Add(cpu, d, s), Add(eng, d, s))
             /\ Covers(Compare(cpu, d, s), Compare(eng, d, s))
  <2>1. Either(eng.reg[d], eng.reg[s]) => Either(cpu.reg[d], cpu.reg[s])
    BY <1>4 DEF Covers, Either
  <2> QED
    BY <1>0, <1>4, <2>1, KeysOf, SMTT(20) DEF Covers
<1>5. ASSUME NEW d \in Regs, NEW s \in Regs, Arithmetic(d, s) PROVE KeyFollows'
  <2>1. /\ Add(cpu, d, s) \in Machine /\ Add(eng, d, s) \in Machine
        /\ Compare(cpu, d, s) \in Machine /\ Compare(eng, d, s) \in Machine
    BY <1>0, AddType, CompareType
  <2> QED
    BY <1>0, <1>4, <1>5, <2>1, SilentCovers DEF Arithmetic
<1>6. ASSUME NEW d \in Regs, NEW s \in Regs, Adc(d, s) PROVE KeyFollows'
  <2>1. AddCarry(cpu, d, s) \in Machine /\ EngineAdc(d, s) \in Machine
    BY <1>0, AddCarryType, EngineAdcType
  <2>2. /\ Add(eng, d, s) \in Machine /\ EngineAdc(d, s).cf = Add(eng, d, s).cf
        /\ \A r \in Regs : EngineAdc(d, s).reg[r].key = Add(eng, d, s).reg[r].key
    <3>1. Add(eng, d, s) \in Machine
      BY <1>0, AddType
    <3>2. ASSUME NEW a \in Machine
          PROVE  /\ [a EXCEPT !.reg[d].v = (@ + 1) % Modulus].cf = a.cf
                 /\ \A r \in Regs : [a EXCEPT !.reg[d].v = (@ + 1) % Modulus].reg[r].key = a.reg[r].key
      BY DEF Machine, Cell
    <3> QED
      BY <3>1, <3>2 DEF EngineAdc
  <2>3. /\ AddCarry(cpu, d, s).reg[d].key = (Either(cpu.reg[d], cpu.reg[s]) \/ cpu.cf.key)
        /\ \A r \in Regs \ {d} : AddCarry(cpu, d, s).reg[r] = cpu.reg[r]
        /\ AddCarry(cpu, d, s).cf.key = (Either(cpu.reg[d], cpu.reg[s]) \/ cpu.cf.key)
    <3> DEFINE keyed == Either(cpu.reg[d], cpu.reg[s]) \/ cpu.cf.key
               sum == cpu.reg[d].v + cpu.reg[s].v + (IF cpu.cf.v THEN 1 ELSE 0)
               cell == [v |-> sum % Modulus, key |-> keyed]
               flag == [v |-> sum >= Modulus, key |-> keyed]
    <3>1. keyed \in BOOLEAN /\ sum \in Int
      BY <1>0, ModulusAssumption DEF Cell, Flag, Value, Either
    <3> HIDE DEF keyed, sum
    <3>2. cell \in Cell /\ flag \in Flag /\ cell.key = keyed /\ flag.key = keyed
      BY <3>1, ModType, ModulusAssumption DEF Cell, Flag
    <3>3. AddCarry(cpu, d, s) = SetCF(Put(cpu, d, cell), flag)
      BY DEF AddCarry, keyed, sum
    <3> HIDE DEF cell, flag
    <3>4. /\ Put(cpu, d, cell) \in Machine /\ Put(cpu, d, cell).reg[d] = cell
          /\ \A r \in Regs \ {d} : Put(cpu, d, cell).reg[r] = cpu.reg[r]
      BY <1>0, <3>2, PutType
    <3>5. /\ SetCF(Put(cpu, d, cell), flag).reg = Put(cpu, d, cell).reg
          /\ SetCF(Put(cpu, d, cell), flag).cf = flag
      BY <3>2, <3>4, SetCFType
    <3> QED
      BY <3>2, <3>3, <3>4, <3>5 DEF keyed
  <2>4. kinds \subseteq Losing => Covers(AddCarry(cpu, d, s), EngineAdc(d, s))
    <3> SUFFICES ASSUME Covers(cpu, eng) PROVE Covers(AddCarry(cpu, d, s), EngineAdc(d, s))
      BY <1>0
    <3>1. Either(eng.reg[d], eng.reg[s]) => Either(cpu.reg[d], cpu.reg[s])
      BY DEF Covers, Either
    <3>2. /\ Add(eng, d, s).reg[d].key = Either(eng.reg[d], eng.reg[s])
          /\ Add(eng, d, s).cf.key = Either(eng.reg[d], eng.reg[s])
          /\ \A r \in Regs \ {d} : Add(eng, d, s).reg[r].key = eng.reg[r].key
      BY <1>0, KeysOf
    <3>3. ASSUME NEW r \in Regs
          PROVE  EngineAdc(d, s).reg[r].key => AddCarry(cpu, d, s).reg[r].key
      <4>1. CASE r = d
        BY <2>2, <2>3, <3>1, <3>2, <4>1
      <4>2. CASE r # d
        BY <2>2, <2>3, <3>2, <4>2 DEF Covers
      <4> QED
        BY <4>1, <4>2
    <3>4. EngineAdc(d, s).cf.key => AddCarry(cpu, d, s).cf.key
      BY <2>2, <2>3, <3>1, <3>2
    <3> QED
      BY <3>3, <3>4 DEF Covers
  <2> QED
    BY <1>6, <2>1, <2>4, SilentCovers DEF Adc
<1>7. ASSUME NEW d \in Regs, NEW s \in Regs, CMov(d, s) PROVE KeyFollows'
  <2> DEFINE machine == MoveIfBelow(cpu, d, s)
             m       == IF cpu.cf.v THEN Put(eng, d, eng.reg[s]) ELSE eng
  <2>1. machine \in Machine /\ m \in Machine
    BY <1>0, MoveIfBelowType, PutType
  <2>2. kinds \subseteq Losing => Covers(machine, m)
    <3> SUFFICES ASSUME Covers(cpu, eng) PROVE Covers(machine, m)
      BY <1>0
    <3> DEFINE chosen == IF cpu.cf.v THEN cpu.reg[s] ELSE cpu.reg[d]
               cell   == [chosen EXCEPT !.key = @ \/ cpu.cf.key]
    <3>1. chosen \in Cell
      BY <1>0
    <3>2. machine = Put(cpu, d, cell)
      BY DEF MoveIfBelow
    <3>3. cell \in Cell /\ (chosen.key => cell.key)
      <4> HIDE DEF chosen
      <4> QED
        BY <1>0, <3>1 DEF Cell, Flag
    <3>4. CASE cpu.cf.v
      BY <1>0, <1>1, <3>2, <3>3, <3>4 DEF Covers
    <3>5. CASE ~ cpu.cf.v
      <4>1. eng.reg[d].key => cell.key
        BY <3>3, <3>5 DEF Covers
      <4> HIDE DEF cell, machine
      <4>2. /\ machine.cf = cpu.cf /\ machine.reg[d] = cell
            /\ \A r \in Regs \ {d} : machine.reg[r] = cpu.reg[r]
        <5>1. cpu \in Machine /\ cell \in Cell
          BY <1>0, <3>3
        <5>2. /\ Put(cpu, d, cell).cf = cpu.cf /\ Put(cpu, d, cell).reg[d] = cell
              /\ \A r \in Regs \ {d} : Put(cpu, d, cell).reg[r] = cpu.reg[r]
          BY <5>1, PutType
        <5> QED
          BY <3>2, <5>2
      <4>3. ASSUME NEW r \in Regs PROVE eng.reg[r].key => machine.reg[r].key
        <5>1. CASE r = d
          BY <4>1, <4>2, <5>1
        <5>2. CASE r # d
          BY <4>2, <5>2 DEF Covers
        <5> QED
          BY <5>1, <5>2
      <4>4. Covers(machine, eng)
        BY <4>2, <4>3 DEF Covers
      <4> QED
        BY <3>5, <4>4
    <3> QED
      BY <3>4, <3>5
  <2> QED
    BY <1>7, <2>1, <2>2, SilentCovers DEF CMov
<1>8. ASSUME NEW d \in Regs, NEW a \in Regs, NEW cell \in Cell,
             NEW got \in Remembered(cell), Load(d, a, cell, got)
      PROVE  KeyFollows'
  <2>1. got \in Cell /\ (got.key => cell.key)
    <3>1. got = cell \/ got = Plain(cell.v)
      BY DEF Remembered
    <3>2. Plain(cell.v) \in Cell /\ Plain(cell.v).key = FALSE
      BY DEF Plain, Cell
    <3> QED
      BY <3>1, <3>2
  <2>2. Put(cpu, d, cell) \in Machine /\ Put(eng, d, got) \in Machine
    BY <1>0, <2>1, PutType
  <2>3. kinds \subseteq Losing =>
          /\ Covers(Put(cpu, d, cell), Put(eng, d, got))
          /\ eng.reg[a].key => cpu.reg[a].key
    BY <1>0, <1>1, <2>1 DEF Covers
  <2>4. eng.reg[a].key \in BOOLEAN /\ cpu.reg[a].key \in BOOLEAN
    BY <1>0 DEF Cell
  <2>5. AccessConstraint(a).at = at /\ AccessConstraint(a).type = "DA"
    BY DEF AccessConstraint
  <2>6. /\ Turn("load", Put(cpu, d, cell), Leak(cpu.reg[a].key, "DA"), Put(eng, d, got))
        /\ Records(eng.reg[a].key, AccessConstraint(a))
    BY <1>8 DEF Load
  <2> QED
    BY <2>2, <2>3, <2>4, <2>5, <2>6, RecordingCovers
<1>9. CASE Branch
  <2> DEFINE c == [at |-> at, type |-> "CF", holds |-> eng.cf.v = cpu.cf.v,
                   sound |-> cfTrusted]
  <2>1. /\ Turn("jcc", cpu, Leak(cpu.cf.key, "CF"), eng)
        /\ Records(eng.cf.key, c) /\ c.at = at /\ c.type = "CF"
    BY <1>9 DEF Branch
  <2>2. kinds \subseteq Losing => Covers(cpu, eng) /\ (eng.cf.key => cpu.cf.key)
    BY <1>0 DEF Covers
  <2>3. eng.cf.key \in BOOLEAN /\ cpu.cf.key \in BOOLEAN
    BY <1>0 DEF Flag
  <2> HIDE DEF c
  <2> QED
    BY <1>0, <2>1, <2>2, <2>3, RecordingCovers
<1>10. ASSUME NEW machine \in Machine,
              Unmodelled("sse", machine) \/ Unmodelled("refused", machine) \/ LibcCall(machine)
       PROVE  KeyFollows'
  <2>1. kinds' = kinds /\ {"sse", "refused", "libc"} \cap kinds # {}
    BY <1>10 DEF Unmodelled, LibcCall, Silent, Turn
  <2> QED
    BY <2>1 DEF KeyFollows, Losing, Computed
<1>11. CASE UNCHANGED vars
  BY <1>11 DEF vars, KeyFollows, Covers, Shown
<1> QED
  BY <1>2, <1>3, <1>5, <1>6, <1>7, <1>8, <1>9, <1>10, <1>11 DEF Next, Step, Finished

(* What QIF records is a leak: in programs that may lose the key on the    *)
(* way, every recorded constraint is at an instruction where the program   *)
(* shows the key, in the way it says, and no register has symbols that     *)
(* does not depend on the key.                                             *)
THEOREM LeaksAreReal == Spec => []NoFalseLeak
<1>1. KeyFollows => NoFalseLeak
  BY DEF KeyFollows, NoFalseLeak, Covers
<1> QED
  BY <1>1, KeyInit, KeyStep, TypeCorrect, PTL DEF Spec

-----------------------------------------------------------------------------
(* A turn on the same machine leaves the engine with the program's.        *)
LEMMA TurnExact ==
  ASSUME kinds \subseteq Computed, NEW kind, NEW machine \in Machine, NEW shown,
         Turn(kind, machine, shown, machine)
  PROVE  eng' = cpu'
<1>1. cpu' = machine
  BY DEF Turn, Moves
<1>2. PICK nextLibc \in BOOLEAN, cut \in Cut :
        IF libc \/ nextLibc
        THEN eng' = machine
        ELSE eng' = [machine EXCEPT !.reg = [r \in Regs |->
                        IF r \in cut THEN Plain(machine.reg[r].v)
                        ELSE Compared(machine.reg[r], machine.reg[r])]]
  BY DEF Turn, EndOfTurn
<1>3. cut = {}
  BY DEF Cut, Computed
<1>4. machine.reg = [r \in Regs |-> IF r \in cut THEN Plain(machine.reg[r].v)
                                    ELSE Compared(machine.reg[r], machine.reg[r])]
  BY <1>3 DEF Compared, Machine
<1>5. [machine EXCEPT !.reg = machine.reg] = machine
  BY DEF Machine
<1> QED
  BY <1>1, <1>2, <1>4, <1>5

(* The observer's operators are the program's.                             *)
LEMMA ObserverSees ==
  ASSUME NEW m, NEW d, NEW s, NEW cell, NEW value, NEW shows, NEW type
  PROVE  /\ Observer!Put(m, d, cell) = Put(m, d, cell)
         /\ Observer!Plain(value) = Plain(value)
         /\ Observer!Add(m, d, s) = Add(m, d, s)
         /\ Observer!Compare(m, d, s) = Compare(m, d, s)
         /\ Observer!Leak(shows, type) = Leak(shows, type)
         /\ Observer!Value = Value /\ Observer!Cell = Cell
BY DEF Observer!Put, Put, Observer!Plain, Plain, Observer!Add, Add, Observer!Compare, Compare,
   Observer!Leak, Leak, Observer!SetCF, SetCF, Observer!Either, Either, Observer!Value, Value,
   Observer!Cell, Cell

(* A turn is a move of the observer when what it records is what it shows. *)
LEMMA TurnObserved ==
  ASSUME NEW kind, NEW machine, NEW shown, NEW m, Turn(kind, machine, shown, m),
         Shown' = Shown \cup shown
  PROVE  Observer!Moves(machine, shown)
BY DEF Turn, Moves, Observer!Moves

(* A step of a program that the engine computes.                           *)
LEMMA ComputedStep ==
  ASSUME TypeOK, eng = cpu, kinds \subseteq Computed, Next, ~ UNCHANGED vars
  PROVE  eng' = cpu' /\ Observer!FlowStep
<1>0. cpu \in Machine /\ (\A r \in Regs : cpu.reg[r] \in Cell) /\ cpu.cf \in Flag
  BY DEF TypeOK, Machine
<1>1. ASSUME NEW kind, NEW machine \in Machine, Silent(kind, machine, machine)
      PROVE  eng' = cpu' /\ Observer!Moves(machine, {})
  <2>1. Turn(kind, machine, {}, machine) /\ Shown' = Shown
    BY <1>1 DEF Silent, Shown
  <2>2. eng' = cpu'
    BY <2>1, TurnExact
  <2>3. Observer!Moves(machine, {})
    BY <2>1, TurnObserved
  <2> QED
    BY <2>2, <2>3
<1>2. ASSUME NEW d \in Regs, NEW s \in Regs, MoveReg(d, s)
      PROVE  eng' = cpu' /\ Observer!FlowStep
  <2>1. Put(cpu, d, cpu.reg[s]) \in Machine
    BY <1>0, PutType
  <2>2. eng' = cpu' /\ Observer!Moves(Observer!Put(cpu, d, cpu.reg[s]), {})
    BY <1>1, <1>2, <2>1, ObserverSees DEF MoveReg
  <2> QED
    BY <2>2 DEF Observer!FlowStep
<1>3. ASSUME NEW d \in Regs, NEW value \in Value, MoveImm(d, value)
      PROVE  eng' = cpu' /\ Observer!FlowStep
  <2>1. Put(cpu, d, Plain(value)) \in Machine
    BY <1>0, PutType DEF Plain, Cell
  <2>2. eng' = cpu' /\ Observer!Moves(Observer!Put(cpu, d, Observer!Plain(value)), {})
    BY <1>1, <1>3, <2>1, ObserverSees DEF MoveImm
  <2> QED
    BY <2>2, ObserverSees DEF Observer!FlowStep
<1>4. ASSUME NEW d \in Regs, NEW s \in Regs, Arithmetic(d, s)
      PROVE  eng' = cpu' /\ Observer!FlowStep
  <2>1. Add(cpu, d, s) \in Machine /\ Compare(cpu, d, s) \in Machine
    BY <1>0, AddType, CompareType
  <2>2. \/ eng' = cpu' /\ Observer!Moves(Observer!Add(cpu, d, s), {})
        \/ eng' = cpu' /\ Observer!Moves(Observer!Compare(cpu, d, s), {})
    BY <1>1, <1>4, <2>1, ObserverSees DEF Arithmetic
  <2> QED
    BY <2>2 DEF Observer!FlowStep
<1>5. ASSUME NEW d \in Regs, NEW s \in Regs, Adc(d, s) \/ CMov(d, s)
      PROVE  FALSE
  <2>1. "adc" \in kinds \/ "cmov" \in kinds
    BY <1>5 DEF Adc, CMov, Silent, Turn
  <2> QED
    BY <2>1 DEF Computed
<1>6. ASSUME NEW d \in Regs, NEW a \in Regs, NEW cell \in Cell,
             NEW got \in Remembered(cell), Load(d, a, cell, got)
      PROVE  eng' = cpu' /\ Observer!FlowStep
  <2>1. got = cell
    BY DEF Remembered, Computed
  <2> DEFINE machine == Put(cpu, d, cell)
             shown   == Leak(cpu.reg[a].key, "DA")
             c       == AccessConstraint(a)
  <2>2. machine \in Machine
    BY <1>0, PutType
  <2>3. Turn("load", machine, shown, machine) /\ Records(cpu.reg[a].key, c)
    BY <1>6, <2>1 DEF Load
  <2>4. c.at = at /\ c.type = "DA"
    BY DEF AccessConstraint
  <2> HIDE DEF c
  <2>5. Shown' = Shown \cup shown
    BY <2>3, <2>4 DEF Records, Shown, Leak
  <2>6. eng' = cpu'
    BY <2>2, <2>3, TurnExact
  <2>7. Observer!Moves(machine, shown)
    BY <2>3, <2>5, TurnObserved
  <2>8. Observer!Moves(Observer!Put(cpu, d, cell), Observer!Leak(cpu.reg[a].key, "DA"))
    BY <2>7, ObserverSees
  <2> QED
    BY <2>6, <2>8, ObserverSees DEF Observer!FlowStep
<1>7. CASE Branch
  <2> DEFINE c == [at |-> at, type |-> "CF", holds |-> eng.cf.v = cpu.cf.v,
                   sound |-> cfTrusted]
             shown == Leak(cpu.cf.key, "CF")
  <2>1. Turn("jcc", cpu, shown, cpu) /\ Records(cpu.cf.key, c) /\ c.at = at /\ c.type = "CF"
    BY <1>7 DEF Branch
  <2> HIDE DEF c
  <2>2. Shown' = Shown \cup shown
    BY <2>1 DEF Records, Shown, Leak
  <2>3. eng' = cpu'
    BY <1>0, <2>1, TurnExact
  <2>4. Observer!Moves(cpu, Observer!Leak(cpu.cf.key, "CF"))
    BY <2>1, <2>2, TurnObserved, ObserverSees
  <2> QED
    BY <2>3, <2>4 DEF Observer!FlowStep
<1>8. ASSUME NEW machine \in Machine,
             Unmodelled("sse", machine) \/ Unmodelled("refused", machine) \/ LibcCall(machine)
      PROVE  FALSE
  <2>1. {"sse", "refused", "libc"} \cap kinds # {}
    BY <1>8 DEF Unmodelled, LibcCall, Silent, Turn
  <2> QED
    BY <2>1 DEF Computed
<1>9. ~ Finished
  BY DEF Finished
<1> QED
  BY <1>2, <1>3, <1>4, <1>5, <1>6, <1>7, <1>8, <1>9 DEF Next, Step

(* For a program of instructions that the engine computes, run() shows     *)
(* what the ideal observer sees: the constraints are recorded where the    *)
(* program shows the key, one by one, and nowhere else.                    *)
THEOREM ReplayObserves == Spec => LeaksExact
<1>1. Init => Observer!FlowInit /\ EngineIsMachine
  BY DEF Init, FlowInit, Observer!FlowInit, EngineIsMachine, Shown, Observer!Machine, Machine,
     Observer!Cell, Cell, Observer!Flag, Flag, Observer!Value, Value
<1>2. TypeOK /\ EngineIsMachine /\ [Next]_vars
        => EngineIsMachine' /\ [kinds \subseteq Computed => Observer!FlowStep]_<<kinds, at, cpu, Shown>>
  <2> SUFFICES ASSUME TypeOK, EngineIsMachine, [Next]_vars
               PROVE  /\ EngineIsMachine'
                      /\ [kinds \subseteq Computed => Observer!FlowStep]_<<kinds, at, cpu, Shown>>
    OBVIOUS
  <2>1. CASE UNCHANGED vars
    BY <2>1 DEF vars, EngineIsMachine, Shown
  <2>2. CASE Next /\ ~ UNCHANGED vars
    <3>1. kinds' = kinds
      BY <2>2, ZenonT(30) DEF Next, Step, Finished, MoveReg, MoveImm, Arithmetic, Adc, CMov, Load, Branch,
         Unmodelled, LibcCall, Silent, Turn, vars
    <3>2. kinds \subseteq Computed => eng' = cpu' /\ Observer!FlowStep
      BY <2>2, ComputedStep DEF EngineIsMachine
    <3> QED
      BY <3>1, <3>2 DEF EngineIsMachine
  <2> QED
    BY <2>1, <2>2
<1> QED
  BY <1>1, <1>2, TypeCorrect, PTL DEF Spec, LeaksExact
=============================================================================
