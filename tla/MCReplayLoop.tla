---------------------------- MODULE MCReplayLoop ----------------------------
(***************************************************************************)
(* Instances of ReplayLoop for TLC: two registers of one bit.              *)
(***************************************************************************)
EXTENDS ReplayLoop

CONSTANTS eax, ecx

(* Programs of instructions the engine computes; with others on whose way  *)
(* the key may get lost; and with those that it does not know about.       *)
AllPrograms ==
  {Computed, Losing, Losing \cup {"sse", "refused", "libc"}}

CarryProgram == {{"mov", "load", "cmp", "adc", "jcc"}}
=============================================================================
