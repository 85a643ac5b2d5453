------------------------------ MODULE CallSites ------------------------------
(***************************************************************************)
(* The sites of a leak (lib/QIFSEEngine.cpp): init asks the function table *)
(* for the function of the first instruction and creates a stack for every *)
(* key byte; the instructions move the stacks on; a constraint is given a  *)
(* copy of the sites of each key byte it depends on.                       *)
(*                                                                         *)
(* The table is one object for all who ask: the replay's own questions and *)
(* those of the error messages change the cache between two instructions.  *)
(***************************************************************************)
EXTENDS FunctionTable, CallStacks

CONSTANT
  TrackedFiles   (* function files the instances replay a trace with       *)

(* A routine is named by its index, "NOT Found" is 0.                      *)
ASSUME NamesAssumption == \A f \in Files : 0 .. Len(f) \subseteq Names

VARIABLES
  mode,      (* how run() keeps the stacks: "off" (as compiled), "fast" or *)
             (* "stacks"                                                   *)
  path,      (* history: the functions executed, as an uncached search     *)
             (* names them, without repetitions                            *)
  copies     (* the copy the last constraint holds, with the path it was   *)
             (* taken at: a set of at most one [sites, path]               *)

siteVars == <<stacks, mode, path, copies>>

SitesInit ==
  /\ Init
  /\ StacksInit
  /\ mode \in {"off", "fast", "stacks"}
  /\ path = <<>>
  /\ copies = {}

(* The table is asked by anyone, before the replay and during it.          *)
Asked(addr) == GetFunRoutine(addr) \/ GetFunctionAndLibrary(addr)

Stepped(names, name) ==
  IF names # <<>> /\ names[Len(names)] = name THEN names ELSE Append(names, name)

Table ==
  /\ \/ LoadLine
     \/ FinishLoading
     \/ \E addr \in Address : Asked(addr)
  /\ UNCHANGED siteVars

(* QIFSEEngine::init with the first instruction at addr.                   *)
StartReplay(addr) ==
  /\ file \in TrackedFiles
  /\ GetFunRoutine(addr)
  /\ Create(answer'.rtn)
  /\ path' = <<FirstHolder(addr)>>
  /\ UNCHANGED <<mode, copies>>

(* updateStacks, fast_call_stack, or neither, for the instruction at addr. *)
Execute(addr, isRet) ==
  /\ Created /\ Len(path) < MaxSites
  /\ IF mode = "off"
     THEN UNCHANGED <<stacks, vars>>
     ELSE /\ GetFunRoutine(addr)
          /\ IF mode = "fast" THEN FastCallStack(answer'.rtn)
             ELSE IF isRet THEN RetInst(answer'.rtn)
             ELSE ProceedInst(answer'.rtn)
  /\ path' = Stepped(path, FirstHolder(addr))
  /\ UNCHANGED <<mode, copies>>

(* updateCFConstrains, updateDAConstrains: cloneCallLeakageSites.          *)
RecordConstraint(key) ==
  /\ Created
  /\ copies' = {[sites |-> stacks[key].sites, path |-> path]}
  /\ UNCHANGED <<vars, stacks, mode, path>>

SitesNext ==
  \/ Table
  \/ \E addr \in Address : StartReplay(addr)
  \/ \E addr \in Address, isRet \in BOOLEAN : Execute(addr, isRet)
  \/ \E key \in KeyIds : RecordConstraint(key)

SitesSpec == SitesInit /\ [][SitesNext]_<<vars, siteVars>>

-----------------------------------------------------------------------------
(* The sites, without the repetitions, are the first n functions of p: at  *)
(* tells for each site how far along p it is.                              *)
NamesTo(sites, p, n) ==
  \E at \in [1 .. Len(sites) -> 1 .. n] :
    /\ at[1] = 1
    /\ at[Len(sites)] = n
    /\ \A i \in 1 .. Len(sites) - 1 : at[i + 1] \in {at[i], at[i] + 1}
    /\ \A i \in 1 .. Len(sites) : sites[i].name = p[at[i]]

(* The sites printed with a leak are the functions executed before it, in  *)
(* order: no change of function is lost or invented, though the cache of   *)
(* the table depends on who asked before, a ret pops its function and      *)
(* pushes it again, and the list goes on growing after it was copied.      *)
(* Two exceptions the code has: as compiled the list ends with the first   *)
(* function, and once that function has returned updateStacks adds nothing.*)
SitesFollowPath ==
  \A c \in copies :
    Separated =>
      CASE mode = "off"    -> NamesTo(c.sites, c.path, 1)
        [] mode = "fast"   -> NamesTo(c.sites, c.path, Len(c.path))
        [] mode = "stacks" ->
             /\ \E n \in 1 .. Len(c.path) : NamesTo(c.sites, c.path, n)
             /\ (\A k \in KeyIds : stacks[k].funs # <<>>) =>
                   NamesTo(c.sites, c.path, Len(c.path))
=============================================================================
