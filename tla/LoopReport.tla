----------------------------- MODULE LoopReport -----------------------------
(***************************************************************************)
(* What the loop detector promises its caller (LoopDetection.cpp writes    *)
(* one reference file per element of the result): if it reports at all, it *)
(* does so once, and what it reports are bodies of the trace, each         *)
(* executed twice in a row, of a length in the window, no two of them the  *)
(* same instructions.  Which bodies are found is left open.                *)
(***************************************************************************)
EXTENDS Integers, Sequences

CONSTANTS Traces, MinLoop, MaxHistory

VARIABLES trace, reports

Length(l) == l.end - l.begin

(* The body l runs twice in a row, opcode for opcode.                      *)
RunsTwice(l) ==
  /\ 1 <= l.begin /\ l.begin < l.end
  /\ l.end + Length(l) - 1 <= Len(trace)
  /\ \A k \in 0 .. Length(l) - 1 : trace[l.begin + k].op = trace[l.end + k].op

Alike(x, y) ==
  /\ Length(x) = Length(y)
  /\ \A k \in 0 .. Length(x) - 1 : trace[x.begin + k] = trace[y.begin + k]

Init == trace \in Traces /\ reports = {}

(* All loops are written together, and nothing is written after them.      *)
Write ==
  /\ reports = {}
  /\ \A l \in reports' :
       /\ RunsTwice(l)
       /\ MinLoop <= Length(l) /\ Length(l) <= MaxHistory
       /\ \A m \in reports' : m # l => ~ Alike(m, l)
  /\ UNCHANGED trace

Spec == Init /\ [][Write]_<<trace, reports>>
=============================================================================
