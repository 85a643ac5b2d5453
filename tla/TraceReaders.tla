----------------------------- MODULE TraceReaders -----------------------------
(***************************************************************************)
(* One trace file and its two readers: QIF (QifLoading), then a tool of    *)
(* CryptoHunt (TraceLoading).  The file is given, or a Pin tool (Tracers)  *)
(* writes it first.                                                        *)
(*                                                                         *)
(* Each reads the files it is meant for: QIF those with all headers at the *)
(* top, CryptoHunt those without libc calls.  Both expect a line with the  *)
(* values of the key after a header.  No tool writes one: it has to be     *)
(* added to the file, and may not have been.                               *)
(***************************************************************************)
EXTENDS TraceLoading, QifLoading, Tracers, FiniteSets

VARIABLES
  source,     (* "given"; "tracing", then "traced"                         *)
  keyed       (* lines with the values of the key have been added          *)

loadVars  == <<driver, in, list, id, call, at>>
otherQifs == <<limits, qifIn, symbols, values, qifList, pass, qifAt>>
readers   == <<loadVars, file, otherQifs, tracerVars, source, keyed>>

HeadersOnTop == \A n \in Lines : file.lines[n] = "start" => n \in TopHeaders
WithoutCalls == \A n \in Lines : file.lines[n] \notin {"libc", "malloc", "ret"}

(* A QIF that does not read the file is as good as done with it.           *)
Given ==
  /\ source = "given"
  /\ Init
  /\ limits \in LimitLists
  /\ qifIn = GetLine(file, Opened)
  /\ qifAt = IF HeadersOnTop THEN "headers" ELSE "unread"
  /\ tool = "none" /\ stack = <<>> /\ executed = 0 /\ start_ins = FALSE
  /\ first_time = TRUE /\ output_count = 0 /\ written = <<>> /\ calls = 0
  /\ level = 0 /\ extent = <<>> /\ cut = FALSE /\ missed = FALSE

ToTrace ==
  /\ source = "tracing"
  /\ TracerInit
  /\ file = [lines |-> <<>>, newline |-> TRUE]
  /\ driver = CHOOSE d \in Drivers : TRUE
  /\ in = Opened /\ list = <<>> /\ id = 1 /\ at = "parse"
  /\ call = [max |-> driver.first, num |-> 1, count |-> 1]
  /\ limits = CHOOSE l \in LimitLists : TRUE
  /\ qifIn = Opened
  /\ qifAt = "unread"

ReadersInit ==
  /\ Given \/ ToTrace
  /\ symbols = <<>> /\ values = <<>> /\ qifList = <<>>
  /\ pass = 1
  /\ keyed = FALSE

-----------------------------------------------------------------------------
Trace ==
  /\ source = "tracing"
  /\ Traced
  /\ UNCHANGED <<loadVars, file, otherQifs, source, keyed>>

(* The lines of the file, with those of the keys added behind the headers. *)
(* RefMaker opens a file but prints its lines on the console.              *)
HeadersTo(n) == Cardinality({ m \in 1 .. n : written[m].kind = "start" })

Place(n) == n + HeadersTo(n - 1)

WithKeys ==
  [k \in 1 .. Len(written) + HeadersTo(Len(written)) |->
     IF \E n \in 1 .. Len(written) : Place(n) = k
     THEN written[CHOOSE n \in 1 .. Len(written) : Place(n) = k]
     ELSE Line("key", 0)]

Delivered(added) ==
  IF tool = "ref" THEN <<>> ELSE IF added THEN WithKeys ELSE written

(* The program exits and Fini closes the file.  QIF reads its own tool's,  *)
(* CryptoHunt the others'.                                                 *)
Exit ==
  /\ source = "tracing"
  /\ source' = "traced"
  /\ keyed' \in BOOLEAN
  /\ LET d == Delivered(keyed')
     IN  file' = [lines |-> [n \in 1 .. Len(d) |-> d[n].kind], newline |-> TRUE]
  /\ stack' = <<>>
  /\ IF tool = "qif"
     THEN /\ limits' \in LimitLists
          /\ qifIn' = GetLine(file', Opened)
          /\ qifAt' = "headers"
          /\ at' = "stop"
          /\ UNCHANGED <<driver, call>>
     ELSE /\ driver' \in Drivers
          /\ call' = [call EXCEPT !.max = driver'.first]
          /\ UNCHANGED <<limits, qifIn, qifAt, at>>
  /\ UNCHANGED <<in, list, id, symbols, values, qifList, pass, tool, executed, globals>>
  /\ UNCHANGED <<calls, level, extent, cut, missed>>

-----------------------------------------------------------------------------
QifFinished ==
  \/ qifAt \in {"crashed", "unread"}
  \/ qifAt = "done" /\ pass = Len(limits)

ReadByQif ==
  /\ source # "tracing"
  /\ QifStep
  /\ UNCHANGED <<loadVars, tracerVars, source, keyed>>

ReadByCryptoHunt ==
  /\ source # "tracing"
  /\ QifFinished /\ WithoutCalls
  /\ Step
  /\ UNCHANGED <<otherQifs, tracerVars, source, keyed>>

ReadersStep == ReadByQif \/ ReadByCryptoHunt

AllRead ==
  /\ source # "tracing"
  /\ QifFinished /\ (WithoutCalls => Done)
  /\ UNCHANGED readers

ReadersNext == Trace \/ Exit \/ ReadersStep \/ AllRead

(* The readers have one thread each, and nothing they wait for.            *)
ReadersSpec == ReadersInit /\ [][ReadersNext]_readers /\ WF_readers(ReadersStep)

-----------------------------------------------------------------------------
InstructionsAt(lines) == [i \in 1 .. Len(lines) |-> Delivered(keyed)[lines[i]].inst]

ButFirst(s) == IF s = <<>> THEN s ELSE Tail(s)

(* From the program to the vector: what QIF replays are the instructions   *)
(* of the first call of the routine, and what the taint tools load are     *)
(* those from its first call to its second, if the lines with the key have *)
(* been added; if not, all but the first.  (For a batch that is empty a    *)
(* reader then takes its END for the key.)                                 *)
FirstCallLoaded ==
  source = "traced" =>
    /\ (qifAt = "done" /\ Limit = NoLimit /\ ~ cut /\ ~ missed) =>
         InstructionsAt(qifList) = IF keyed THEN extent ELSE ButFirst(extent)
    /\ (tool \in Batching /\ at = "stop" /\ (keyed \/ extent # <<>>)) =>
         InstructionsAt([i \in 1 .. Len(list) |-> list[i].line])
           = IF keyed THEN extent ELSE ButFirst(extent)

(* A trace with an END is loaded by the loops of CryptoHunt, unless the    *)
(* END is taken for the key.                                               *)
LoadEnds ==
  (source # "tracing" /\ HasEnd /\ WithoutCalls /\ (source = "traced" => keyed)) ~> Done
=============================================================================
