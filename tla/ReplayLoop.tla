----------------------------- MODULE ReplayLoop -----------------------------
(***************************************************************************)
(* The loop of QIFSEEngine::run (lib/QIFSEEngine.cpp): it replays a trace, *)
(* one instruction a turn, over registers that hold formulas of the key.   *)
(* The trace records the registers before every ordinary instruction, and  *)
(* after a turn the loop compares its own registers with those recorded    *)
(* for the next instruction: a formula that does not evaluate to the       *)
(* recorded value is replaced by that value.  Flags are never compared.    *)
(* The record of a libc call has no registers: no comparison before it or  *)
(* after it.                                                               *)
(*                                                                         *)
(* A formula is abstracted to its value under the trace's key and to       *)
(* whether it has symbols; the flags are represented by CF; memory is      *)
(* SymMemory's subject, here a load delivers any value.                    *)
(***************************************************************************)
EXTENDS KeyFlow

CONSTANTS
  Acc,        (* eax, which holds a libc call's result                     *)
  LineSize,   (* 2^6: addresses are told apart by their cache line         *)
  Programs    (* sets of kinds of instructions: see Step                   *)

ASSUME AccAssumption  == Acc \in Regs
ASSUME LineAssumption == LineSize \in Nat \ {0}

VARIABLES
  kinds,      (* the kinds of instructions the program has                 *)
  eng,        (* m_ctx and CF of the engine                                *)
  recorded,   (* m_constrains: see Constraint                              *)
  libc,       (* is_function of the instruction at hand                    *)
  wasLibc,    (* is_function of the one before it                          *)
  running,    (* FALSE once run() has returned                             *)
  cfTrusted   (* history: CF was last set by an instruction whose formula  *)
              (* is right, on registers that had been compared             *)

vars == <<kinds, at, cpu, leaks, eng, recorded, libc, wasLibc, running, cfTrusted>>

(* holds: the trace's key satisfies it.  sound: it was built from          *)
(* registers that had been compared, or from a trusted flag.               *)
Constraint == [at : 1 .. MaxInsts, type : {"CF", "DA"}, holds : BOOLEAN, sound : BOOLEAN]

-----------------------------------------------------------------------------
(* A comparison that only reports.                                         *)
Compared_ReportOnly(sym, con) == sym

(* A comparison that prefers the trace's value only for constants.         *)
Compared_KeepsFormula(sym, con) ==
  IF sym.v # con.v /\ ~ sym.key THEN Plain(con.v) ELSE sym

(* One register's comparison.                                              *)
Compared(sym, con) == IF sym.v # con.v THEN Plain(con.v) ELSE sym

(* Formulas longer than 50000 nodes are cut to their value: any formula    *)
(* may have grown that long.                                               *)
Cut == IF "long" \in kinds THEN SUBSET Regs ELSE {{}}

(* The rest of a turn, after symbolic_execution left the registers and     *)
(* flags m and returned status.                                            *)
EndOfTurn(m, machine, status) ==
  \E nextLibc \in BOOLEAN, cut \in Cut :
    /\ nextLibc => "libc" \in kinds
    /\ IF libc \/ nextLibc
       THEN eng' = m /\ running' = TRUE
       ELSE /\ eng' = [m EXCEPT !.reg = [r \in Regs |->
                         IF r \in cut THEN Plain(machine.reg[r].v)
                         ELSE Compared(m.reg[r], machine.reg[r])]]
            /\ running' = status
    /\ libc' = nextLibc
    /\ wasLibc' = libc

(* One turn: the program goes on to machine, showing shown.                *)
Turn(kind, machine, shown, m) ==
  /\ kind \in kinds
  /\ running
  /\ libc = (kind = "libc")
  /\ Moves(machine, shown)
  /\ EndOfTurn(m, machine, kind # "refused")
  /\ UNCHANGED kinds

Records(symbols, constraint) == recorded' = recorded \cup (IF symbols THEN {constraint} ELSE {})

Silent(kind, machine, m) == Turn(kind, machine, {}, m) /\ UNCHANGED recorded

(* CF set by a right formula on registers that were compared.              *)
SetsCF(right) == cfTrusted' = (right /\ ~ wasLibc)

-----------------------------------------------------------------------------
Init ==
  /\ FlowInit
  /\ kinds \in Programs
  /\ eng = cpu
  /\ recorded = {}
  /\ libc = FALSE
  /\ wasLibc = FALSE
  /\ running = TRUE
  /\ cfTrusted = TRUE

MoveReg(d, s) ==
  /\ Silent("mov", Put(cpu, d, cpu.reg[s]), Put(eng, d, eng.reg[s]))
  /\ UNCHANGED cfTrusted

MoveImm(d, value) ==
  /\ Silent("mov", Put(cpu, d, Plain(value)), Put(eng, d, Plain(value)))
  /\ UNCHANGED cfTrusted

Arithmetic(d, s) ==
  \/ Silent("add", Add(cpu, d, s), Add(eng, d, s)) /\ SetsCF(TRUE)
  \/ Silent("cmp", Compare(cpu, d, s), Compare(eng, d, s)) /\ SetsCF(TRUE)

(* INST_X86_INS_ADC: one is added when the recorded flag says so, and the  *)
(* new CF is that of the addition without the carry.                       *)
EngineAdc(d, s) ==
  LET sum == Add(eng, d, s)
  IN  IF cpu.cf.v THEN [sum EXCEPT !.reg[d].v = (@ + 1) % Modulus] ELSE sum

Adc(d, s) ==
  /\ Silent("adc", AddCarry(cpu, d, s), EngineAdc(d, s))
  /\ SetsCF(FALSE)

(* A move whatever the flag.                                               *)
CMov_Always(d, s) ==
  /\ Silent("cmov", MoveIfBelow(cpu, d, s), Put(eng, d, eng.reg[s]))
  /\ UNCHANGED cfTrusted

(* INST_X86_INS_CMOVB and its kin: a move when the recorded flag says so.  *)
CMov(d, s) ==
  /\ Silent("cmov", MoveIfBelow(cpu, d, s),
            IF cpu.cf.v THEN Put(eng, d, eng.reg[s]) ELSE eng)
  /\ UNCHANGED cfTrusted

Line(address) == address \div LineSize

(* The constraint of an access through register a: its formula lies in the *)
(* cache line of the recorded address.                                     *)
AccessConstraint(a) ==
  [at |-> at, type |-> "DA", holds |-> Line(eng.reg[a].v) = Line(cpu.reg[a].v),
   sound |-> ~ wasLibc]

(* A check that comes after the instruction, when d may have changed.      *)
Load_ChecksAfter(d, a, cell, got) ==
  /\ Turn("load", Put(cpu, d, cell), Leak(cpu.reg[a].key, "DA"), Put(eng, d, got))
  /\ Records(Put(eng, d, got).reg[a].key,
             [AccessConstraint(a) EXCEPT
                !.holds = Line(Put(eng, d, got).reg[a].v) = Line(cpu.reg[a].v)])
  /\ UNCHANGED cfTrusted

(* mov d, [a].  checkMemoryAccess comes first.  The memory model gets the  *)
(* value right; it may have lost the key.                                  *)
Load(d, a, cell, got) ==
  /\ Turn("load", Put(cpu, d, cell), Leak(cpu.reg[a].key, "DA"), Put(eng, d, got))
  /\ Records(eng.reg[a].key, AccessConstraint(a))
  /\ UNCHANGED cfTrusted

Remembered(cell) ==
  IF "lossy" \in kinds THEN {cell, Plain(cell.v)} ELSE {cell}

(* A conditional jump on CF; the direction is the recorded flag's.         *)
Branch ==
  /\ Turn("jcc", cpu, Leak(cpu.cf.key, "CF"), eng)
  /\ Records(eng.cf.key, [at |-> at, type |-> "CF", holds |-> eng.cf.v = cpu.cf.v,
                          sound |-> cfTrusted])
  /\ UNCHANGED cfTrusted

(* INST_X86_INS_SSE and Inst_Base do nothing and report success; a class   *)
(* that is given operands it does not handle does nothing and reports      *)
(* failure.                                                                *)
Unmodelled(kind, machine) ==
  /\ Silent(kind, machine, eng)
  /\ SetsCF(FALSE)

(* A call of memcpy and the like: the engine knows what is in eax.  The    *)
(* callee's own instructions are not in the trace.                         *)
LibcCall(machine) ==
  /\ ~ machine.reg[Acc].key
  /\ Silent("libc", machine, Put(eng, Acc, machine.reg[Acc]))
  /\ SetsCF(FALSE)

Step ==
  \/ \E d, s \in Regs :
       \/ MoveReg(d, s)
       \/ Arithmetic(d, s)
       \/ Adc(d, s)
       \/ CMov(d, s)
       \/ \E cell \in Cell : \E got \in Remembered(cell) : Load(d, s, cell, got)
  \/ \E d \in Regs, value \in Value : MoveImm(d, value)
  \/ Branch
  \/ \E machine \in Machine :
       \/ Unmodelled("sse", machine)
       \/ Unmodelled("refused", machine)
       \/ LibcCall(machine)

(* The loop leaves the trace's last instruction alone.                     *)
Finished == (at = MaxInsts \/ ~ running) /\ UNCHANGED vars

Next == Step \/ Finished

Spec == Init /\ [][Next]_vars

-----------------------------------------------------------------------------
TypeOK ==
  /\ kinds \in Programs
  /\ at \in 1 .. MaxInsts
  /\ cpu \in Machine /\ eng \in Machine
  /\ recorded \subseteq Constraint
  /\ {libc, wasLibc, running, cfTrusted} \subseteq BOOLEAN

(* The replay stays on the trace: before an ordinary instruction that      *)
(* follows an ordinary one, every register evaluates to the program's      *)
(* value, whatever the engine did not understand before.                   *)
RegistersFollow ==
  (~ libc /\ ~ wasLibc) => \A r \in Regs : eng.reg[r].v = cpu.reg[r].v

(* updateDAConstrains and updateCFConstrains report constraints that the   *)
(* trace's key violates.  There are such constraints only where no         *)
(* comparison can help: addresses right after a libc call, and flags left  *)
(* by an instruction that the engine does not compute them for.            *)
RecordedHold == \A c \in recorded : c.sound => c.holds

(* The same without the exception, as the two functions have it.           *)
OwnKeyHolds == \A c \in recorded : c.holds

Shown == { [at |-> c.at, type |-> c.type] : c \in recorded }

(* Instructions that the engine computes, flags included, and those on     *)
(* whose way the key may get lost.                                         *)
Computed == {"mov", "add", "cmp", "jcc", "load"}
Losing   == Computed \cup {"adc", "cmov", "lossy", "long"}

(* What is recorded is a leak of the program: a formula has symbols only   *)
(* if the program's register depends on the key.                           *)
NoFalseLeak ==
  kinds \subseteq Losing =>
    /\ Shown \subseteq leaks
    /\ \A r \in Regs : eng.reg[r].key => cpu.reg[r].key

(* For a program of instructions that the engine computes, the constraints *)
(* are the program's leaks: the replay implements the ideal observer.      *)
Observer == INSTANCE KeyFlow WITH leaks <- Shown

LeaksExact ==
  Observer!FlowInit /\ [][kinds \subseteq Computed => Observer!FlowStep]_<<kinds, at, cpu, Shown>>
=============================================================================
