--------------------------- MODULE MCTraceReaders ---------------------------
(***************************************************************************)
(* Instance of TraceReaders for TLC: every file of up to MaxLines lines    *)
(* where a key line follows a header, and every file of up to MaxHeaders   *)
(* headers and MaxBody lines with libc calls, whose second line follows    *)
(* the first.                                                              *)
(***************************************************************************)
EXTENDS TraceReaders

CONSTANTS MaxLines, MaxHeaders, MaxBody

LinesUpTo(n, kinds) == UNION { [1 .. k -> kinds] : k \in 0 .. n }

WellFormed(lines) ==
  \A n \in 1 .. Len(lines) :
    /\ lines[n] = "key" => n > 1 /\ lines[n - 1] = "start"
    /\ lines[n] = "start" => n < Len(lines) /\ lines[n + 1] = "key"

PlainLines == { l \in LinesUpTo(MaxLines, {"start", "key", "inst", "empty", "end"}) : WellFormed(l) }

Headers(n) == [i \in 1 .. 2 * n |-> IF i % 2 = 1 THEN "start" ELSE "key"]

Bodies ==
  { b \in LinesUpTo(MaxBody, {"inst", "libc", "malloc", "ret", "empty", "end"}) :
      /\ \A n \in 1 .. Len(b) : b[n] = "ret" <=> n > 1 /\ b[n - 1] = "libc"
      /\ b # <<>> => b[Len(b)] # "libc" }

LinesWithCalls == { Headers(h) \o b : h \in 0 .. MaxHeaders, b \in Bodies }

AnyFile == { [lines |-> l, newline |-> nl] : l \in PlainLines \cup LinesWithCalls, nl \in BOOLEAN }

(* The three loops, their batches of 2000, 1 and 1000 scaled down.         *)
Batches == [first |-> 2, batch |-> 2, idFirst |-> TRUE]
Singles == [first |-> 1, batch |-> 1, idFirst |-> TRUE]
Taint   == [first |-> 1, batch |-> 3, idFirst |-> FALSE]

AllDrivers == {Batches, Singles, Taint}

(* What AllTracer and RefMaker write, instructions only, and the loop of   *)
(* LoopDetection that reads it.                                            *)
PlainFile ==
  { [lines |-> l, newline |-> TRUE] : l \in LinesUpTo(MaxLines, {"inst"}) }

LoopDetector == {Batches}

Unlimited == {<<NoLimit>>}

(* QIF reads once, without a limit; QIF_EXP's limits start at 0.           *)
Readings == {<<NoLimit>>, <<0, 2, 4>>}
=============================================================================
