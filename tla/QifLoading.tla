----------------------------- MODULE QifLoading -----------------------------
(***************************************************************************)
(* parse_trace_qif (lib/ins_parser.cpp): the whole trace in one call, with *)
(* the key ranges of its Start headers and their values.  QIF reads it     *)
(* once; QIF_EXP reads it again and again with a growing limit, into the   *)
(* same vectors, which it never clears.                                    *)
(***************************************************************************)
EXTENDS TraceStream

CONSTANTS
  KeyBytes,   (* size_taint / 8 of a header, the same for all              *)
  LimitLists  (* limits of the successive readings; <<NoLimit>>: QIF,      *)
              (* growing ones: QIF_EXP                                     *)

NoLimit == -1

ASSUME KeyAssumption    == KeyBytes \in Nat
ASSUME LimitsAssumption ==
  \A l \in LimitLists :
    \/ l = <<NoLimit>>
    \/ /\ l \in Seq(Nat) \ {<<>>}
       /\ \A i \in 1 .. Len(l) - 1 : l[i] < l[i + 1]

VARIABLES
  limits,     (* of the readings the driver makes                          *)
  qifIn,      (* the ifstream and the function's line                      *)
  symbols,    (* key_symbol: the lines of the headers                      *)
  values,     (* key_value: [header, index], the bytes of the key          *)
  qifList,    (* the instructions: the line each starts on                 *)
  pass,       (* which reading this is                                     *)
  qifAt       (* "headers", "body", "done" or "crashed"                    *)

qifVars == <<limits, file, qifIn, symbols, values, qifList, pass, qifAt>>

Limit == limits[pass]

QifInit ==
  /\ limits \in LimitLists
  /\ file \in Files
  /\ qifIn = GetLine(file, Opened)
  /\ symbols = <<>>
  /\ values = <<>>
  /\ qifList = <<>>
  /\ pass = 1
  /\ qifAt = "headers"

(* A header whose key line is left in the stream.                          *)
QifHeader_NoKeyLine ==
  /\ qifAt = "headers"
  /\ Kind(file, qifIn.line) = "start"
  /\ symbols' = Append(symbols, qifIn.line)
  /\ values' = values \o [i \in 1 .. KeyBytes |-> [header |-> qifIn.line, index |-> i]]
  /\ qifIn' = GetLine(file, qifIn)
  /\ UNCHANGED <<limits, file, qifList, pass, qifAt>>

(* What is on the line where the values of the key are expected.  Whether  *)
(* the text of another line reads as hexadecimal numbers is left open; an  *)
(* empty one does not.                                                     *)
KeyLine == Kind(file, GetLine(file, qifIn).line)

(* A Start line, and the values of its key on the next line.               *)
QifHeader ==
  /\ qifAt = "headers"
  /\ Kind(file, qifIn.line) = "start"
  /\ KeyLine = "empty" => KeyBytes = 0
  /\ symbols' = Append(symbols, qifIn.line)
  /\ values' = values \o [i \in 1 .. KeyBytes |-> [header |-> qifIn.line, index |-> i]]
  /\ qifIn' = GetLine(file, GetLine(file, qifIn))
  /\ UNCHANGED <<limits, file, qifList, pass, qifAt>>

(* stoul finds no number, and nothing catches what it throws.              *)
KeyUnreadable ==
  /\ qifAt = "headers"
  /\ Kind(file, qifIn.line) = "start"
  /\ KeyLine # "key" /\ KeyBytes > 0
  /\ qifAt' = "crashed"
  /\ UNCHANGED <<limits, file, qifIn, symbols, values, qifList, pass>>

HeadersEnd ==
  /\ qifAt = "headers"
  /\ Kind(file, qifIn.line) # "start"
  /\ qifAt' = "body"
  /\ UNCHANGED <<limits, file, qifIn, symbols, values, qifList, pass>>

(* The loop is left without a look at the line at hand when reading it met *)
(* the end of the file.                                                    *)
BodyEnds ==
  /\ qifAt = "body"
  /\ ~ qifIn.good \/ Kind(file, qifIn.line) \in {"empty", "end"}
  /\ qifAt' = "done"
  /\ UNCHANGED <<limits, file, qifIn, symbols, values, qifList, pass>>

InBody == qifAt = "body" /\ qifIn.good

(* What follows the push: the limit, or the next line.                     *)
AfterPush(s) ==
  IF Limit # NoLimit /\ Len(qifList') > Limit
  THEN qifAt' = "done" /\ qifIn' = s
  ELSE qifAt' = qifAt /\ qifIn' = GetLine(file, s)

QifInstruction ==
  /\ InBody
  /\ Kind(file, qifIn.line) \notin {"empty", "end", "libc", "malloc"}
  /\ qifList' = Append(qifList, qifIn.line)
  /\ AfterPush(qifIn)
  /\ UNCHANGED <<limits, file, symbols, values, pass>>

(* A libc call that forgets its second line.                               *)
LibcCall_OneLine ==
  /\ InBody
  /\ Kind(file, qifIn.line) = "libc"
  /\ qifList' = Append(qifList, qifIn.line)
  /\ AfterPush(qifIn)
  /\ UNCHANGED <<limits, file, symbols, values, pass>>

(* A libc call is two lines, its arguments and its result.                 *)
LibcCall ==
  /\ InBody
  /\ Kind(file, qifIn.line) = "libc"
  /\ qifList' = Append(qifList, qifIn.line)
  /\ AfterPush(GetLine(file, qifIn))
  /\ UNCHANGED <<limits, file, symbols, values, pass>>

(* LibC_Factory has no class for malloc: ins is null when ins->id is set.  *)
Malloc ==
  /\ InBody
  /\ Kind(file, qifIn.line) = "malloc"
  /\ qifAt' = "crashed"
  /\ qifIn' = GetLine(file, qifIn)
  /\ UNCHANGED <<limits, file, symbols, values, qifList, pass>>

(* QIF_EXP: the file is opened again, the vectors are kept.                *)
ReadAgain ==
  /\ qifAt = "done"
  /\ pass < Len(limits)
  /\ pass' = pass + 1
  /\ qifIn' = GetLine(file, Opened)
  /\ qifAt' = "headers"
  /\ UNCHANGED <<limits, file, symbols, values, qifList>>

QifStep ==
  \/ QifHeader
  \/ KeyUnreadable
  \/ HeadersEnd
  \/ BodyEnds
  \/ QifInstruction
  \/ LibcCall
  \/ Malloc
  \/ ReadAgain

QifTerminated ==
  /\ qifAt = "crashed" \/ (qifAt = "done" /\ pass = Len(limits))
  /\ UNCHANGED qifVars

QifNext == QifStep \/ QifTerminated

QifSpec == QifInit /\ [][QifNext]_qifVars

-----------------------------------------------------------------------------
(* The stream, the vectors and the reading at hand.                        *)
QifTypeOK ==
  /\ limits \in LimitLists
  /\ file \in File
  /\ qifIn \in Stream
  /\ symbols \in Seq(Nat)
  /\ values \in Seq([header : Nat, index : 1 .. KeyBytes])
  /\ qifList \in Seq(Nat)
  /\ pass \in 1 .. Len(limits)
  /\ qifAt \in {"headers", "body", "done", "crashed"}

(* The headers at the top of the file, each with the line after it; and    *)
(* the instructions after them, up to an empty line, an END or a malloc.   *)
TopHeaders ==
  { n \in Lines : n % 2 = 1 /\ \A m \in 1 .. n : m % 2 = 1 => file.lines[m] = "start" }

KeyLines == { n + 1 : n \in TopHeaders }

Stops == { n \in Lines : file.lines[n] \in {"empty", "end", "malloc"} /\ n \notin KeyLines }

Instructions ==
  { n \in Lines \ KeyLines :
      file.lines[n] \in {"inst", "libc"} /\ \A m \in Stops : n < m }

Ordered(s) == \A i, j \in 1 .. Len(s) : i < j => s[i] < s[j]

Elements(s) == { s[i] : i \in 1 .. Len(s) }

(* One reading gets every instruction of the trace, once and in order,     *)
(* save a last line that is not terminated: its own end of file is met     *)
(* before the line is looked at.                                           *)
Unterminated == IF file.newline THEN {} ELSE { Len(file.lines) }

AllInstructionsOnce ==
  (qifAt = "done" /\ pass = 1 /\ Limit = NoLimit) =>
    Ordered(qifList) /\ Elements(qifList) = Instructions \ Unterminated

(* Every value belongs to a header in front of it, in the order in which   *)
(* init will number the symbols: range by range, byte by byte.             *)
KeysInOrder ==
  (qifAt \in {"body", "done"} /\ pass = 1) =>
    /\ Elements(symbols) = TopHeaders /\ Ordered(symbols)
    /\ Len(values) = KeyBytes * Len(symbols)
    /\ \A h \in 1 .. Len(symbols), i \in 1 .. KeyBytes :
         values[(h - 1) * KeyBytes + i] = [header |-> symbols[h], index |-> i]

(* Whatever the earlier readings left in the vectors, a reading stops at   *)
(* its limit: QIF_EXP never replays more than one instruction beyond it.   *)
LimitRespected ==
  (qifAt = "done" /\ Limit # NoLimit) => Len(qifList) <= Limit + 1
=============================================================================
