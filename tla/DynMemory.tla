------------------------------ MODULE DynMemory ------------------------------
(***************************************************************************)
(* The memory of CryptoHunt's engine (readMem and writeMem of              *)
(* lib/DynSEEngine.cpp).  It knows no values: a dword it has not met is a  *)
(* new 32-bit symbol, an input of the loop body it executes.  It never     *)
(* looks at the recorded data, so nothing it gets wrong is ever repaired.  *)
(*                                                                         *)
(* A formula's byte is either a byte of such a symbol, named by the        *)
(* address it stands for, or a byte that was written.                      *)
(***************************************************************************)
EXTENDS Integers

CONSTANT DynSpace   (* addresses: 0 .. DynSpace - 1                        *)

VARIABLES
  dynCells,   (* m_memory of DynSEEngine                                   *)
  dynHeld,    (* the formula in the register just loaded, if any           *)
  died        (* an assertion has failed                                   *)

dynVars == <<dynCells, dynHeld, died>>

DynAddress == 0 .. DynSpace - 1

NoDyn == [i \in {} |-> 0]

(* A byte of the symbol of a dword; a byte of what an instruction writes.  *)
Input(a)   == [input |-> TRUE, of |-> a]
Written(v) == [input |-> FALSE, of |-> v]

DynBase(a) == a - (a % 4)

(* memory_find, and the symbol of a dword met for the first time.          *)
DynMet(cs, a) ==
  IF cs[DynBase(a)] # NoDyn THEN cs
  ELSE [cs EXCEPT ![DynBase(a)] = [i \in 0 .. 3 |-> Input(DynBase(a) + i)]]

(* A dword has to be aligned.                                              *)
Asserted(a, n) == n = 4 => a % 4 = 0

(* The lane a read takes: a word's goes by a % 2.                          *)
DynFirst(a, n) ==
  CASE n = 4 -> 0
    [] n = 2 -> IF a % 2 = 0 THEN 0 ELSE 2
    [] OTHER -> a % 4

DynReadValue(cs, a, n) ==
  [i \in 0 .. n - 1 |-> DynMet(cs, a)[DynBase(a)][DynFirst(a, n) + i]]

(* Bytes that always go to the low lane.                                   *)
DynAfterWrite_LowByte(cs, a, n, d) ==
  LET old == DynMet(cs, a)[DynBase(a)]
  IN  [DynMet(cs, a) EXCEPT ![DynBase(a)] =
         [i \in 0 .. 3 |-> IF i < n THEN d[i] ELSE old[i]]]

(* A dword replaces its cell, a byte its lane.  A word is concatenated     *)
(* with one half of the old cell, its own when a is even, and filed under  *)
(* a - a % 2: at the middle of a dword that is a cell no read looks up.    *)
DynAfterWrite(cs, a, n, d) ==
  LET met == DynMet(cs, a)
      old == met[DynBase(a)]
  IN  CASE n = 4 -> [cs EXCEPT ![a] = d]
        [] n = 1 -> [met EXCEPT ![DynBase(a)][a % 4] = d[0]]
        [] n = 2 /\ a % 2 = 0 ->
             [met EXCEPT ![a] = [i \in 0 .. 3 |-> IF i < 2 THEN d[i] ELSE old[i - 2]]]
        [] OTHER ->
             [met EXCEPT ![a - 1] = [i \in 0 .. 3 |-> IF i < 2 THEN old[i + 2] ELSE d[i - 2]]]

-----------------------------------------------------------------------------
DynInit ==
  /\ dynCells = [a \in DynAddress |-> NoDyn]
  /\ dynHeld = NoDyn
  /\ died = FALSE

(* One instruction that accesses n bytes at a; or the assertion that ends  *)
(* the program.                                                            *)
DynDies(a, n) ==
  /\ ~ died /\ ~ Asserted(a, n)
  /\ died' = TRUE
  /\ UNCHANGED <<dynCells, dynHeld>>

DynLoad(a, n) ==
  /\ ~ died /\ Asserted(a, n)
  /\ dynCells' = DynMet(dynCells, a)
  /\ dynHeld' = DynReadValue(dynCells, a, n)
  /\ UNCHANGED died

DynStore(a, n, d) ==
  /\ ~ died /\ Asserted(a, n)
  /\ dynCells' = DynAfterWrite(dynCells, a, n, d)
  /\ dynHeld' = NoDyn
  /\ UNCHANGED died

DynUpdate(a, n, d) ==
  /\ ~ died /\ Asserted(a, n)
  /\ dynCells' = DynAfterWrite(DynMet(dynCells, a), a, n, d)
  /\ dynHeld' = NoDyn
  /\ UNCHANGED died

(* push [src] and movsw.                                                   *)
DynMove(dst, src, n) ==
  /\ ~ died /\ Asserted(dst, n) /\ Asserted(src, n)
  /\ dynCells' = DynAfterWrite(DynMet(dynCells, src), dst, n, DynReadValue(dynCells, src, n))
  /\ dynHeld' = NoDyn
  /\ UNCHANGED died

DynRegisterOnly ==
  /\ ~ died
  /\ dynHeld' = NoDyn
  /\ UNCHANGED <<dynCells, died>>
=============================================================================
