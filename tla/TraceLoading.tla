---------------------------- MODULE TraceLoading ----------------------------
(***************************************************************************)
(* parse_trace (lib/ins_parser.cpp) and the three loops that call it: that *)
(* of LoopDetection.cpp, in batches of 2000; the overload without a batch, *)
(* which SymbolicExecution and Ngram use, in batches of one; and the       *)
(* overload of the taint tools, a batch of one and then of 1000.  Each     *)
(* calls parse_trace until it says TRUE.                                   *)
(***************************************************************************)
EXTENDS TraceStream

CONSTANTS
  Drivers,    (* the loops: see Driver                                     *)
  IdSpace     (* 2^32: ids are 32 bits wide                                *)

(* first is max_instructions of the first call, batch that of every later  *)
(* one; id += batch precedes a later call (idFirst) or follows it.         *)
Driver == [first : Nat \ {0}, batch : Nat \ {0}, idFirst : BOOLEAN]

(* What follows a header is its key's line, never another header.          *)
ASSUME HeaderAssumption ==
  \A f \in Files : \A n \in 1 .. Len(f.lines) - 1 :
    f.lines[n] = "start" => f.lines[n + 1] # "start"

ASSUME DriversAssumption == Drivers \subseteq Driver
ASSUME IdAssumption == IdSpace \in Nat \ {0}

VARIABLES
  driver,     (* the loop that calls parse_trace                           *)
  in,         (* the ifstream, and parse_trace's line                      *)
  list,       (* the instructions: [line, id]                              *)
  id,         (* the caller's id                                           *)
  call,       (* the call of parse_trace: [max, num, count]                *)
  at          (* "caller", "parse", "stop" (END was met) or "full"         *)

vars == <<driver, file, in, list, id, call, at>>

Init ==
  /\ driver \in Drivers
  /\ file \in Files
  /\ in = Opened
  /\ list = <<>>
  /\ id = 1
  /\ call = [max |-> driver.first, num |-> 1, count |-> 1]
  /\ at = "parse"

(* A caller that passes the same id to every call.                         *)
CallAgain_SameId ==
  /\ at = "caller"
  /\ call' = [max |-> driver.batch, num |-> id, count |-> 1]
  /\ at' = "parse"
  /\ UNCHANGED <<driver, file, in, list, id>>

(* The body of the callers' loop.  After the end of the file it spins.     *)
CallAgain ==
  /\ at = "caller"
  /\ id' = (id + driver.batch) % IdSpace
  /\ call' = [max |-> driver.batch, num |-> IF driver.idFirst THEN id' ELSE id, count |-> 1]
  /\ at' = "parse"
  /\ UNCHANGED <<driver, file, in, list>>

(* The loop condition of parse_trace.                                      *)
Parsing == at = "parse" /\ in.good /\ call.count <= call.max

(* A header that returns without skipping the key line.                    *)
Header_KeepsKey ==
  /\ Parsing
  /\ LET s == GetLine(file, in)
     IN  Kind(file, s.line) = "start" /\ in' = s
  /\ at' = "caller"
  /\ UNCHANGED <<driver, file, list, id, call>>

(* A Start header: the line after it is skipped, the call returns FALSE.   *)
Header ==
  /\ Parsing
  /\ LET s == GetLine(file, in)
     IN  Kind(file, s.line) = "start" /\ in' = GetLine(file, s)
  /\ at' = "caller"
  /\ UNCHANGED <<driver, file, list, id, call>>

(* An empty line, or the end of the file: the loop is left, and the call   *)
(* returns good().                                                         *)
EmptyLine ==
  /\ Parsing
  /\ in' = GetLine(file, in)
  /\ Kind(file, in'.line) = "empty"
  /\ at' = IF in'.good THEN "full" ELSE "caller"
  /\ UNCHANGED <<driver, file, list, id, call>>

(* An END that goes on reading.                                            *)
EndLine_Ignored ==
  /\ Parsing
  /\ in' = GetLine(file, in)
  /\ Kind(file, in'.line) = "end"
  /\ UNCHANGED <<driver, file, list, id, call, at>>

(* END: the call returns TRUE.                                             *)
EndLine ==
  /\ Parsing
  /\ in' = GetLine(file, in)
  /\ Kind(file, in'.line) = "end"
  /\ at' = "stop"
  /\ UNCHANGED <<driver, file, list, id, call>>

(* Every other line is taken for an instruction.                           *)
Instruction ==
  /\ Parsing
  /\ in' = GetLine(file, in)
  /\ Kind(file, in'.line) \notin {"start", "empty", "end"}
  /\ list' = Append(list, [line |-> in'.line, id |-> call.num])
  /\ call' = [call EXCEPT !.num = (@ + 1) % IdSpace, !.count = @ + 1]
  /\ UNCHANGED <<driver, file, id, at>>

(* The loop condition fails: the call returns good(), which is TRUE after  *)
(* a full batch and FALSE at the end of the file.                          *)
CallReturns ==
  /\ at = "parse"
  /\ ~ in.good \/ call.count > call.max
  /\ at' = IF in.good THEN "full" ELSE "caller"
  /\ UNCHANGED <<driver, file, in, list, id, call>>

Step ==
  \/ CallAgain
  \/ Header
  \/ EmptyLine
  \/ EndLine
  \/ Instruction
  \/ CallReturns

Done == at \in {"stop", "full"}

Terminated == Done /\ UNCHANGED vars

Next == Step \/ Terminated

Spec == Init /\ [][Next]_vars

-----------------------------------------------------------------------------
(* The stream, the vector and the counters of the call at hand.            *)
TypeOK ==
  /\ driver \in Drivers
  /\ file \in Files
  /\ in \in Stream
  /\ list \in Seq([line : Nat, id : Nat])
  /\ id \in Nat
  /\ call.max \in {driver.first, driver.batch}
  /\ call.num \in Nat /\ call.count \in 1 .. call.max + 1
  /\ at \in {"caller", "parse", "stop", "full"}

(* The lines that hold instructions: a header takes the line after it.     *)
Heads(n) == n > 1 /\ file.lines[n - 1] = "start"

Loadable == { n \in Lines : file.lines[n] \notin {"start", "empty", "end"} /\ ~ Heads(n) }

(* No batch boundary, header or end of file loses, repeats or reorders an  *)
(* instruction: whenever parse_trace's caller looks, what is in the vector *)
(* is what has been consumed of the file, in its order.                    *)
LoadedInOrder ==
  /\ { list[i].line : i \in 1 .. Len(list) } = { n \in Loadable : n <= in.pos }
  /\ \A i, j \in 1 .. Len(list) : i < j => list[i].line < list[j].line

(* Ids increase along the vector, whatever calls the instructions came     *)
(* from: a later call never starts below where an earlier one got to.      *)
(* Until a header is met they are the positions in the vector, for which   *)
(* findPotentialLoop and loopDetection take them (std::prev by id - 1).    *)
HeaderMet == \E n \in Lines : n <= in.pos /\ file.lines[n] = "start"

IdsFollowPositions ==
  /\ \A i, j \in 1 .. Len(list) : i < j => list[i].id < list[j].id
  /\ ~ HeaderMet => \A i \in 1 .. Len(list) : list[i].id = i

HasEnd == \E n \in Lines : file.lines[n] = "end"

(* README.md: "CryptoHunt loads the entire trace file to memory": all      *)
(* lines before the first END or empty line.                               *)
WholeTraceLoaded ==
  Done =>
    \A n \in Loadable :
      (\A m \in 1 .. n : file.lines[m] \notin {"end", "empty"})
        => \E i \in 1 .. Len(list) : list[i].line = n
=============================================================================
