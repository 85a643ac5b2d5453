---------------------------- MODULE TraceStream ----------------------------
(***************************************************************************)
(* A trace file as the loaders of lib/ins_parser.cpp read it: a sequence   *)
(* of lines and std::getline on an ifstream.  A line is abstracted to what *)
(* the loaders tell apart: "start" (a Start header), "key" (the line of    *)
(* key values after it), "inst", "libc" and "ret" (the two lines of a libc *)
(* call), "malloc" (a libc call with no class), "empty" and "end" (END).   *)
(***************************************************************************)
EXTENDS Integers, Sequences

LineKinds == {"start", "key", "inst", "libc", "malloc", "ret", "empty", "end"}

(* newline: whether the last line is terminated.                           *)
File == [lines : Seq(LineKinds), newline : BOOLEAN]

CONSTANT Files   (* the trace files examined                                *)

ASSUME FilesAssumption == Files \subseteq File

VARIABLE file    (* the trace file at hand                                  *)

Lines == 1 .. Len(file.lines)

(* pos: lines consumed; good: ifstream::good(); line: the string, as the   *)
(* number of the line it holds, 0 for the empty string.                    *)
Stream == [pos : Nat, good : BOOLEAN, line : Nat]

Opened == [pos |-> 0, good |-> TRUE, line |-> 0]

(* getline: reading the unterminated last line meets the end of the file   *)
(* as well; a failed stream leaves the string alone.                       *)
GetLine(f, s) ==
  IF ~ s.good THEN s
  ELSE IF s.pos = Len(f.lines) THEN [pos |-> s.pos, good |-> FALSE, line |-> 0]
  ELSE [pos  |-> s.pos + 1,
        good |-> s.pos + 1 < Len(f.lines) \/ f.newline,
        line |-> s.pos + 1]

Kind(f, n) == IF n = 0 THEN "empty" ELSE f.lines[n]
=============================================================================
