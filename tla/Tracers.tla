------------------------------- MODULE Tracers -------------------------------
(***************************************************************************)
(* The Pin tools that record the traces: a program calls and leaves        *)
(* routines and executes instructions, and the analysis routines that a    *)
(* tool has inserted run at each of these points.                          *)
(*                                                                         *)
(*   "qif"     QIF/pintools/MyPinToolLinux.cpp                             *)
(*   "ngram"   Ngram/pintools/MyPinToolLinux.cpp                           *)
(*   "call"    MyPinTool/MyPinTool.cpp, TaintTool/MyPinToolLinux.cpp       *)
(*   "recv"    TaintTool/MyPinTool.cpp                                     *)
(*   "ref"     references/referenceMaker/RefMaker.cpp                      *)
(*   "all"     tracer/AllTracer.cpp                                        *)
(*   "main"    tracer/MainExecutableTracer2.cpp                            *)
(*                                                                         *)
(* The program has one thread: the tools' globals are not locked.  A       *)
(* return instruction is left out: whether a tool records it before it     *)
(* notices the return is Pin's affair.                                     *)
(***************************************************************************)
EXTENDS Integers, Sequences

CONSTANTS
  Tools,         (* the tools examined                                     *)
  MaxDepth,      (* bounds of the model: routines on the stack,            *)
  MaxExecuted,   (* instructions executed,                                 *)
  MaxWritten     (* lines written                                          *)

ASSUME ToolsAssumption == Tools \subseteq {"qif", "ngram", "call", "recv", "ref", "all", "main"}

VARIABLES
  tool,
  stack,          (* the routines being executed                           *)
  executed,       (* instructions executed                                 *)
  start_ins,      (* start_ins, recv_start, start_trace: recording         *)
  first_time,
  output_count,
  written,        (* the lines of the trace: [kind, inst]                  *)
  calls,          (* history: calls noticed, counted up to 2               *)
  level,          (* history: depth of the first of them; 0 before it, -1  *)
                  (* after it                                              *)
  extent,         (* history: what the trace is meant to have, see Wanted  *)
  cut,            (* history: a call within it returned before it did      *)
  missed          (* history: it was left through another routine          *)

globals    == <<start_ins, first_time, output_count, written>>
tracerVars == <<tool, stack, executed, globals, calls, level, extent, cut, missed>>

(* named: the routine's name contains the one asked for; plt: it is a stub *)
(* of the linkage table (a stub of another routine is as good as another). *)
Routine == { f \in [named : BOOLEAN, plt : BOOLEAN] : f.plt => f.named }

-----------------------------------------------------------------------------
(* Instrumentation: the routines whose calls a tool notices, and the       *)
(* instructions it records.                                                *)
Noticed(f) == f.named /\ ~ f.plt

(* These leave out instructions with one operand.                          *)
Skipping == {"call", "recv", "ref"}

Kept(i) ==
  /\ tool \in Skipping => ~ i.single
  /\ tool = "main" => i.main

Line(kind, n) == [kind |-> kind, inst |-> n]

TracerInit ==
  /\ tool \in Tools
  /\ stack = <<>>
  /\ executed = 0
  /\ start_ins = (tool \in {"all", "main"})
  /\ first_time = TRUE
  /\ output_count = 0
  /\ written = <<>>
  /\ calls = 0
  /\ level = 0
  /\ extent = <<>>
  /\ cut = FALSE /\ missed = FALSE

-----------------------------------------------------------------------------
(* A start that forgets that there has been a first time.                  *)
QifStart_Again ==
  /\ tool = "qif"
  /\ start_ins' = TRUE
  /\ first_time' = FALSE
  /\ written' = IF start_ins THEN written ELSE Append(written, Line("start", 0))
  /\ UNCHANGED output_count

(* RTN_start of QIF's tool: the first call only.                           *)
QifStart ==
  /\ tool = "qif"
  /\ IF ~ start_ins /\ first_time
     THEN /\ start_ins' = TRUE
          /\ first_time' = FALSE
          /\ written' = Append(written, Line("start", 0))
     ELSE UNCHANGED <<start_ins, first_time, written>>
  /\ UNCHANGED output_count

(* Ngram's: without a header.                                              *)
NgramStart ==
  /\ tool = "ngram"
  /\ start_ins' = (start_ins \/ first_time)
  /\ first_time' = FALSE
  /\ UNCHANGED <<output_count, written>>

(* MyPinTool's: every other call ends the batch of the one before.         *)
CallStart ==
  /\ tool = "call"
  /\ start_ins' = ~ start_ins
  /\ written' = Append(written, Line(IF start_ins THEN "end" ELSE "start", 0))
  /\ UNCHANGED <<first_time, output_count>>

(* rtn_recv: the same, for recv of ws2_32.dll.                             *)
RecvStart ==
  /\ tool = "recv"
  /\ IF ~ start_ins
     THEN start_ins' = TRUE /\ written' = Append(written, Line("start", 0))
     ELSE start_ins' = FALSE /\ written' = Append(written, Line("end", 0))
  /\ UNCHANGED <<first_time, output_count>>

(* startRTN of RefMaker.  The routine's name ("Entering", "Leaving") also  *)
(* goes to the console; no loader reads that output, so it is left out.    *)
RefStart ==
  /\ tool = "ref"
  /\ start_ins' = (start_ins \/ output_count < 1)
  /\ UNCHANGED <<first_time, output_count, written>>

NoStart == tool \in {"all", "main"} /\ UNCHANGED globals

AtStart(f) ==
  IF Noticed(f)
  THEN QifStart \/ NgramStart \/ CallStart \/ RecvStart \/ RefStart \/ NoStart
  ELSE UNCHANGED globals

(* RTN_end of QIF's tool and Ngram's.                                      *)
RtnEnd ==
  /\ tool \in {"qif", "ngram"}
  /\ start_ins' = FALSE
  /\ UNCHANGED <<first_time, output_count, written>>

(* endRTN of RefMaker.                                                     *)
RefEnd ==
  /\ tool = "ref"
  /\ output_count' = output_count + (IF start_ins THEN 1 ELSE 0)
  /\ start_ins' = FALSE
  /\ UNCHANGED <<first_time, written>>

NoEnd == tool \in {"call", "recv", "all", "main"} /\ UNCHANGED globals

AtEnd(f) == IF Noticed(f) THEN RtnEnd \/ RefEnd \/ NoEnd ELSE UNCHANGED globals

-----------------------------------------------------------------------------
(* The program.                                                            *)
Room == Len(written) < MaxWritten

Counted(f, depth) ==
  /\ calls' = IF Noticed(f) /\ calls < 2 THEN calls + 1 ELSE calls
  /\ level' = IF Noticed(f) /\ calls = 0 THEN depth ELSE level

(* The first call, to its return; for the tools that end a batch at the    *)
(* next call, up to that.  Instructions the tool skips do not count.       *)
Batching == {"call", "recv"}

Wanted(i) == Kept(i) /\ IF tool \in Batching THEN calls = 1 ELSE level > 0

Call(f) ==
  /\ Room /\ Len(stack) < MaxDepth
  /\ stack' = Append(stack, f)
  /\ Counted(f, Len(stack'))
  /\ AtStart(f)
  /\ UNCHANGED <<tool, executed, extent, cut, missed>>

(* A tail call: the routine jumps to another, and Pin sees no return of    *)
(* it.                                                                     *)
Jump(f) ==
  /\ Room /\ stack # <<>>
  /\ stack' = [stack EXCEPT ![Len(stack)] = f]
  /\ Counted(f, Len(stack))
  /\ AtStart(f)
  /\ UNCHANGED <<tool, executed, extent, cut, missed>>

Return ==
  /\ stack # <<>>
  /\ LET f == stack[Len(stack)]
     IN  /\ AtEnd(f)
         /\ cut' = (cut \/ (0 < level /\ level < Len(stack) /\ Noticed(f)))
         /\ missed' = (missed \/ (level = Len(stack) /\ ~ Noticed(f)))
  /\ level' = IF level = Len(stack) THEN -1 ELSE level
  /\ stack' = SubSeq(stack, 1, Len(stack) - 1)
  /\ UNCHANGED <<tool, executed, calls, extent>>

(* getctx and getctxRead.                                                  *)
Execute(i) ==
  /\ Room /\ executed < MaxExecuted
  /\ executed' = executed + 1
  /\ written' = IF start_ins /\ Kept(i) THEN Append(written, Line("inst", executed')) ELSE written
  /\ extent' = IF Wanted(i) THEN Append(extent, executed') ELSE extent
  /\ UNCHANGED <<tool, stack, start_ins, first_time, output_count, calls, level, cut, missed>>

Traced ==
  \/ \E f \in Routine : Call(f) \/ Jump(f)
  \/ Return
  \/ \E i \in [single : BOOLEAN, main : BOOLEAN] : Execute(i)

-----------------------------------------------------------------------------
(* The trace of one call: the header of QIF's tool, then instructions.     *)
HeaderLines == IF tool = "qif" /\ written # <<>> THEN 1 ELSE 0

Recorded == [n \in 1 .. Len(written) - HeaderLines |-> written[n + HeaderLines].inst]

Begins(s, t) == \E n \in 0 .. Len(t) : s = SubSeq(t, 1, n)

(* The tools for one call of a routine record the instructions of its      *)
(* first call and no others, with one header in front, through calls of    *)
(* others and tail calls.  If the routine is left through another, they go *)
(* on; if a call within it (a recursion, or a routine with a similar name) *)
(* returns, the rest is lost.                                              *)
FirstCallTraced ==
  tool \in {"qif", "ngram", "ref"} =>
    /\ \A n \in 1 .. Len(written) :
         written[n].kind = IF n = HeaderLines THEN "start" ELSE "inst"
    /\ ~ cut /\ ~ missed => Recorded = extent
    /\ ~ missed => Begins(Recorded, extent)
    /\ ~ cut => Begins(extent, Recorded)
=============================================================================
