------------------------------ MODULE KeyFlow ------------------------------
(***************************************************************************)
(* The traced program as an ideal observer sees it: registers and the      *)
(* carry flag with their values and with whether they are computed from    *)
(* the key, and the two ways in which the key shows outside: a conditional *)
(* jump on a flag that depends on the key (control flow, CF), and a memory *)
(* access at an address that does (data access, DA).                       *)
(***************************************************************************)
EXTENDS Integers

CONSTANTS
  Regs,       (* the general purpose registers                             *)
  Modulus,    (* 2^32: the values of a register                            *)
  MaxInsts    (* length of the traces examined                             *)

Value   == 0 .. Modulus - 1
Cell    == [v : Value, key : BOOLEAN]
Flag    == [v : BOOLEAN, key : BOOLEAN]
Machine == [reg : [Regs -> Cell], cf : Flag]

ASSUME ModulusAssumption == Modulus \in Nat \ {0}
ASSUME LengthAssumption  == MaxInsts \in Nat \ {0}

VARIABLES
  at,         (* position in the trace                                     *)
  cpu,        (* the program's registers before the instruction there      *)
  leaks       (* [at, type]: where and how the key has shown               *)

Plain(value) == [v |-> value, key |-> FALSE]

Put(m, d, cell) == [m EXCEPT !.reg[d] = cell]

SetCF(m, flag) == [m EXCEPT !.cf = flag]

Either(x, y) == x.key \/ y.key

(* add d, s                                                                *)
Add(m, d, s) ==
  LET x == m.reg[d]
      y == m.reg[s]
  IN  SetCF(Put(m, d, [v |-> (x.v + y.v) % Modulus, key |-> Either(x, y)]),
            [v |-> x.v + y.v >= Modulus, key |-> Either(x, y)])

(* adc d, s                                                                *)
AddCarry(m, d, s) ==
  LET x     == m.reg[d]
      y     == m.reg[s]
      sum   == x.v + y.v + (IF m.cf.v THEN 1 ELSE 0)
      keyed == Either(x, y) \/ m.cf.key
  IN  SetCF(Put(m, d, [v |-> sum % Modulus, key |-> keyed]),
            [v |-> sum >= Modulus, key |-> keyed])

(* cmp d, s                                                                *)
Compare(m, d, s) ==
  SetCF(m, [v   |-> m.reg[d].v < m.reg[s].v, key |-> Either(m.reg[d], m.reg[s])])

(* cmovb d, s: what is moved also tells the flag.                          *)
MoveIfBelow(m, d, s) ==
  LET chosen == IF m.cf.v THEN m.reg[s] ELSE m.reg[d]
  IN  Put(m, d, [chosen EXCEPT !.key = @ \/ m.cf.key])

Leak(shows, type) == IF shows THEN {[at |-> at, type |-> type]} ELSE {}

Moves(machine, shown) ==
  /\ at < MaxInsts
  /\ at' = at + 1
  /\ cpu' = machine
  /\ leaks' = leaks \cup shown

FlowInit ==
  /\ at = 1
  /\ cpu \in { m \in Machine : ~ m.cf.key /\ \A r \in Regs : ~ m.reg[r].key }
  /\ leaks = {}

FlowStep ==
  \/ \E d, s \in Regs :
       \/ Moves(Put(cpu, d, cpu.reg[s]), {})
       \/ Moves(Add(cpu, d, s), {})
       \/ Moves(Compare(cpu, d, s), {})
       \/ \E cell \in Cell : Moves(Put(cpu, d, cell), Leak(cpu.reg[s].key, "DA"))
  \/ \E d \in Regs, value \in Value : Moves(Put(cpu, d, Plain(value)), {})
  \/ Moves(cpu, Leak(cpu.cf.key, "CF"))

FlowSpec == FlowInit /\ [][FlowStep]_<<at, cpu, leaks>>
=============================================================================
