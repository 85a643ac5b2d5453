---------------------------- MODULE FunctionTable ----------------------------
(***************************************************************************)
(* The function table of a trace (lib/Function.cpp): the routines listed   *)
(* in Function.txt, loaded once, then asked which routine an address       *)
(* belongs to.  getFunName and getFunRoutine look first at ptr_cache, the  *)
(* routine of the last successful search; getFunctionAndLibrary always     *)
(* searches.  A routine's interval is closed: it includes start + size,    *)
(* the first address after the routine.                                    *)
(***************************************************************************)
EXTENDS Integers, Sequences

CONSTANTS
  AddressSpace,   (* 2^32 in the code: T_ADDRESS is a uint32_t             *)
  Files           (* the function files examined: sequences of lines       *)

Address == 0 .. AddressSpace - 1

(* A line's address and size; its names are the line itself.               *)
Line    == [start : Address, size : Address]

(* end_addr is computed in 32 bits.                                        *)
Routine == [start : Address, end : Address]

ASSUME AddressSpaceAssumption == AddressSpace \in Nat \ {0}
ASSUME FilesAssumption == Files \subseteq Seq(Line) \ {<<>>}

VARIABLES
  file,      (* the lines of Function.txt                                  *)
  read,      (* how many of them the constructor has read                  *)
  rtns,      (* fun_rtns                                                   *)
  cache,     (* ptr_cache: an index of rtns, 0 until the file is loaded    *)
  answer     (* the last query and what it returned: NoAnswer before one   *)

vars == <<file, read, rtns, cache, answer>>

NotFound == 0
NoAnswer == [addr |-> 0, by |-> "none", rtn |-> NotFound]

RoutineOf(line) ==
  [start |-> line.start, end |-> (line.start + line.size) % AddressSpace]

(* addr >= start_addr && addr <= end_addr                                  *)
Holds(r, addr) == r.start <= addr /\ addr <= r.end

Holders(addr) == { i \in 1 .. Len(rtns) : Holds(rtns[i], addr) }

Least(S) == CHOOSE i \in S : \A j \in S : i <= j

(* The linear search over fun_rtns.                                        *)
FirstHolder(addr) ==
  IF Holders(addr) = {} THEN NotFound ELSE Least(Holders(addr))

-----------------------------------------------------------------------------
Init ==
  /\ file \in Files
  /\ read = 0
  /\ rtns = <<>>
  /\ cache = 0
  /\ answer = NoAnswer

(* existing_rtn: a start address already present is skipped.               *)
Known(start) == \E i \in 1 .. Len(rtns) : rtns[i].start = start

(* One turn of the constructor's loop.                                     *)
LoadLine ==
  /\ read < Len(file)
  /\ read' = read + 1
  /\ LET r == RoutineOf(file[read + 1])
     IN  rtns' = IF Known(r.start) THEN rtns ELSE Append(rtns, r)
  /\ UNCHANGED <<file, cache, answer>>

(* ptr_cache = fun_rtns.front()                                            *)
FinishLoading ==
  /\ read = Len(file)
  /\ cache = 0
  /\ cache' = 1
  /\ UNCHANGED <<file, read, rtns, answer>>

Loaded == cache # 0

(* A cache test that forgets the lower bound.                              *)
Cached_UpperOnly(addr) == addr <= rtns[cache].end

(* A cache test that accepts the address after the last.                   *)
Cached_PastEnd(addr) ==
  rtns[cache].start <= addr /\ addr <= rtns[cache].end + 1

(* The test of ptr_cache that both lookups start with.                     *)
Cached(addr) == Holds(rtns[cache], addr)

(* getFunName and getFunRoutine: the same search, one returns the name.    *)
GetFunRoutine(addr) ==
  /\ Loaded
  /\ LET found == IF Cached(addr) THEN cache ELSE FirstHolder(addr)
     IN  /\ answer' = [addr |-> addr, by |-> "cached", rtn |-> found]
         /\ cache' = IF found = NotFound THEN cache ELSE found
  /\ UNCHANGED <<file, read, rtns>>

GetFunctionAndLibrary(addr) ==
  /\ Loaded
  /\ answer' = [addr |-> addr, by |-> "search", rtn |-> FirstHolder(addr)]
  /\ UNCHANGED <<file, read, rtns, cache>>

Next ==
  \/ LoadLine
  \/ FinishLoading
  \/ \E addr \in Address : GetFunRoutine(addr) \/ GetFunctionAndLibrary(addr)

Spec == Init /\ [][Next]_vars

-----------------------------------------------------------------------------
TypeOK ==
  /\ file \in Files
  /\ read \in 0 .. Len(file)
  /\ rtns \in Seq(Routine)
  /\ cache \in 0 .. Len(rtns)
  /\ answer \in [addr : Address, by : {"none", "cached", "search"},
                 rtn : 0 .. Len(rtns)]

(* Whatever was asked before, an answer is a routine that holds the        *)
(* address, and "not found" is said only when none does.                   *)
AnswerHolds ==
  answer.by # "none" =>
    IF answer.rtn = NotFound
    THEN Holders(answer.addr) = {}
    ELSE Holds(rtns[answer.rtn], answer.addr)

(* Closed intervals that share no address.                                 *)
Separated ==
  \A i, j \in 1 .. Len(rtns) :
    i # j => \A a \in Address : ~ (Holds(rtns[i], a) /\ Holds(rtns[j], a))

(* The cache is invisible where it may be: in a table of separated         *)
(* routines each lookup answers what the uncached search answers, so the   *)
(* answer does not depend on the addresses asked before.                   *)
CacheTransparent ==
  (Separated /\ answer.by # "none") => answer.rtn = FirstHolder(answer.addr)

(* Compilers place routines back to back, where the closed intervals       *)
(* overlap in one address.  Then the answer is still the routine that      *)
(* really contains the address, unless that address is the first byte      *)
(* after another routine: there, and only there, the cache decides.        *)
BackToBack ==
  \A i, j \in 1 .. Len(rtns) :
    i # j => rtns[i].end <= rtns[j].start \/ rtns[j].end <= rtns[i].start

Inside(r, addr) == r.start <= addr /\ addr < r.end

InteriorExact ==
  (BackToBack /\ answer.by # "none") =>
    \A i \in 1 .. Len(rtns) :
      ( /\ Inside(rtns[i], answer.addr)
        /\ \A j \in 1 .. Len(rtns) : rtns[j].end # answer.addr )
      => answer.rtn = i
=============================================================================
