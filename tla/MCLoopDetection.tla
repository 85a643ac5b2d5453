-------------------------- MODULE MCLoopDetection --------------------------
(***************************************************************************)
(* Instances of LoopDetection for TLC.  Long traces over two instructions  *)
(* are what a skipped stride followed by a new candidate needs; shorter    *)
(* ones over three, two of which differ in their operands only, tell the   *)
(* opcode comparison of the candidates from the full comparison of the     *)
(* bodies.  Behind the vector may lie one of the bodies the traces repeat, *)
(* or a third opcode; seven positions are the fewest in which a loop can   *)
(* be proposed and confirmed after a stride has jumped over cend().        *)
(***************************************************************************)
EXTENDS LoopDetection

CONSTANTS LongTrace, ShortTrace

MCOpcodes  == {"add", "xor", "nop"}
MCOperands == {"r1", "r2"}

Add   == [op |-> "add", oprs |-> "r1"]
Add2  == [op |-> "add", oprs |-> "r2"]
Xor   == [op |-> "xor", oprs |-> "r1"]
Nop   == [op |-> "nop", oprs |-> "r1"]

MCSpare == 7
MCSurroundings ==
  { [i \in (-MCSpare .. -1) \cup (1 .. MCSpare) |-> b[(i % Len(b)) + 1]] :
      b \in {<<Nop>>, <<Add>>, <<Xor, Add>>, <<Add, Xor, Xor>>} }

MCTraces == [1 .. LongTrace -> {Add, Xor}] \cup [1 .. ShortTrace -> {Add, Add2, Xor}]
=============================================================================
