----------------------------- MODULE KeyMemory -----------------------------
(***************************************************************************)
(* The memory of the traced program as an ideal engine would see it: each  *)
(* byte has its concrete value and knows whether it is computed from the   *)
(* key.  This is what the symbolic memory of QIFSEEngine stands for.       *)
(***************************************************************************)
EXTENDS Integers, Sequences

CONSTANTS
  Words,      (* dwords of memory                                          *)
  Values,     (* values of a byte                                          *)
  Contents,   (* the values memory may hold at the first instruction       *)
  Programs    (* the programs examined, see Program                        *)

Address == 0 .. 4 * Words - 1
Byte    == [v : Values, key : BOOLEAN]
Word    == [0 .. 3 -> Byte]

(* What a program may do: the <<address, bytes>> it reads and writes, the  *)
(* data it writes, functions from 0..n-1 to bytes, and the kinds of its    *)
(* instructions (see SymMemory's Next).  key: the bytes of its key in the  *)
(* order of the trace's Start lines, each with its address and its offset  *)
(* in the range of its line.                                               *)
Program(p) ==
  /\ \A acc \in p.accesses :
       /\ acc \in Address \X {1, 2, 4}
       /\ acc[1] + acc[2] - 1 \in Address
  /\ \A d \in p.data : \E n \in {1, 2, 4} : d \in [0 .. n - 1 -> Byte]
  /\ p.key \in Seq([addr : Address, offset : Nat])
  /\ \A i, j \in 1 .. Len(p.key) : p.key[i].addr = p.key[j].addr => i = j
  /\ \A i \in 1 .. Len(p.key) : p.key[i].offset < i

ASSUME WordsAssumption  == Words \in Nat
ASSUME ValuesAssumption == 0 \in Values
ASSUME ContentsAssumption == Contents \subseteq [Address -> Values]
ASSUME ProgramAssumption  == \A p \in Programs : Program(p)

VARIABLES
  prog,       (* the program, fixed                                        *)
  mem,        (* the program's memory                                      *)
  seen        (* what the last instruction read, and what it should get    *)

KeyAt == { prog.key[i].addr : i \in 1 .. Len(prog.key) }

Bytes(a, n) == [i \in 0 .. n - 1 |-> mem[a + i]]

MemWith(a, n, d) ==
  [b \in Address |-> IF b \in a .. a + n - 1 THEN d[b - a] ELSE mem[b]]

Zeros(n) == [i \in 0 .. n - 1 |-> [v |-> 0, key |-> FALSE]]

Exactly(a, n) == [access |-> <<a, n>>, got |-> Bytes(a, n), want |-> Bytes(a, n)]

NothingSeen == [access |-> <<0, 0>>, got |-> <<>>, want |-> <<>>]

IdealInit ==
  /\ prog \in Programs
  /\ \E m \in Contents :
       mem = [a \in Address |-> [v |-> m[a], key |-> a \in KeyAt]]
  /\ seen = NothingSeen

(* A read delivers the bytes, key dependence included; a write replaces    *)
(* them and may have read them first; calloc clears them; a move copies    *)
(* them, at once or by way of a register.                                  *)
IdealStep ==
  \E acc \in prog.accesses :
    LET a == acc[1]
        n == acc[2]
    IN  \/ seen' = Exactly(a, n) /\ UNCHANGED mem
        \/ /\ \E d \in prog.data : DOMAIN d = 0 .. n - 1 /\ mem' = MemWith(a, n, d)
           /\ seen' \in {NothingSeen, Exactly(a, n)}
        \/ /\ "calloc" \in prog.kinds
           /\ mem' = MemWith(a, n, Zeros(n))
           /\ seen' = NothingSeen
        \/ \E src \in prog.accesses :
             /\ src[2] = n
             /\ mem' = MemWith(a, n, Bytes(src[1], n))
             /\ seen' = NothingSeen
        \/ /\ DOMAIN seen.got = 0 .. n - 1
           /\ mem' = MemWith(a, n, seen.got)
           /\ seen' = NothingSeen
        \/ seen' = NothingSeen /\ UNCHANGED mem

IdealSpec == IdealInit /\ [][IdealStep /\ UNCHANGED prog]_<<prog, mem, seen>>
=============================================================================
