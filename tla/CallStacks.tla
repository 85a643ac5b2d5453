------------------------------ MODULE CallStacks ------------------------------
(***************************************************************************)
(* The call stacks of QIF (lib/CallStack.cpp): for every byte of the key a *)
(* stack of functions and the list of sites that are printed with a leak   *)
(* of that byte.  A site is a function and a depth.                        *)
(*                                                                         *)
(* In the replay loop only the constructor and the copy taken with each    *)
(* constraint are in use; the two ways of keeping the stacks up to date    *)
(* stand there as comments (QIFSEEngine.cpp:628, :629): fast_call_stack,   *)
(* or updateStacks with the stacks proper.                                 *)
(***************************************************************************)
EXTENDS Integers, Sequences

CONSTANTS
  KeyIds,     (* the ids of the key's symbols                              *)
  Names,      (* names of functions                                        *)
  MaxSites,   (* bound: how long a list of sites the instances let grow    *)
  MaxFall     (* bound: how far below zero a depth is let fall             *)

ASSUME KeyIdsAssumption == KeyIds \subseteq Int
ASSUME BoundsAssumption == MaxSites \in Nat /\ MaxFall \in Nat

VARIABLES
  stacks      (* CallStack::stacks: [KeyIds -> CallStackKey], or NoStacks  *)

NoStacks == <<>>

(* funs: stack_funs, its top last; fast: current_fun_name.                 *)
CallStackKey ==
  [funs  : Seq(Names),
   depth : Int,
   sites : Seq([name : Names, depth : Int]) \ {<<>>},
   fast  : Names]

(* CallStackKey::CallStackKey                                              *)
NewStack(name) ==
  [funs  |-> <<name>>,
   depth |-> 0,
   sites |-> <<[name |-> name, depth |-> 0]>>,
   fast  |-> name]

Top(s) == s.funs[Len(s.funs)]

Site(s, name, depth) == Append(s.sites, [name |-> name, depth |-> depth])

(* A push that does not count.                                             *)
UpdateStack_NoDepth(s, name) ==
  IF s.funs = <<>> \/ (s.funs # <<>> /\ Top(s) = name) THEN s
  ELSE [s EXCEPT !.funs  = Append(@, name),
                 !.sites = Site(s, name, s.depth)]

(* A function other than the one on top is pushed; once the stack is empty *)
(* nothing is pushed again.                                                *)
UpdateStack(s, name) ==
  IF s.funs = <<>> \/ Top(s) = name THEN s
  ELSE [s EXCEPT !.funs  = Append(@, name),
                 !.depth = @ + 1,
                 !.sites = Site(s, name, s.depth + 1)]

(* A return out of another function than the one on top is ignored; out of *)
(* an empty stack it still counts the depth down.                          *)
RetStack(s, name) ==
  IF s.funs = <<>> THEN [s EXCEPT !.depth = @ - 1]
  ELSE IF Top(s) # name THEN s
  ELSE [s EXCEPT !.funs = SubSeq(@, 1, Len(@) - 1), !.depth = @ - 1]

(* A change of function that is not remembered.                            *)
FastUpdate_Forgets(s, name) ==
  IF name = s.fast THEN s ELSE [s EXCEPT !.sites = Site(s, name, 0)]

(* Without a stack: every change of function is a site.                    *)
FastUpdate(s, name) ==
  IF name = s.fast THEN s
  ELSE [s EXCEPT !.sites = Site(s, name, 0), !.fast = name]

(* Neither the list nor the depth below zero grows forever.                *)
Growing == \A k \in KeyIds : Len(stacks[k].sites) < MaxSites /\ - MaxFall < stacks[k].depth

-----------------------------------------------------------------------------
(* CallStack::CallStack, with the function of the first instruction.       *)
Create(name) ==
  /\ stacks = NoStacks
  /\ stacks' = [k \in KeyIds |-> NewStack(name)]

Created == stacks # NoStacks

(* proceed_inst: the keys the instruction reads are passed and ignored,    *)
(* every stack is updated.                                                 *)
ProceedInst(name) ==
  /\ Created /\ Growing
  /\ stacks' = [k \in KeyIds |-> UpdateStack(stacks[k], name)]

(* updateStacks on a ret: ret, then proceed_inst in the same function.     *)
RetInst(name) ==
  /\ Created /\ Growing
  /\ stacks' = [k \in KeyIds |-> UpdateStack(RetStack(stacks[k], name), name)]

FastCallStack(name) ==
  /\ Created /\ Growing
  /\ stacks' = [k \in KeyIds |-> FastUpdate(stacks[k], name)]

(* The stacks with either way of updating them, for any program.           *)
StacksInit == stacks = NoStacks

StacksNext ==
  \E name \in Names :
    \/ Create(name)
    \/ ProceedInst(name)
    \/ RetInst(name)
    \/ FastCallStack(name)

StacksSpec == StacksInit /\ [][StacksNext]_stacks

-----------------------------------------------------------------------------
(* The depth that is counted is the height of the stack over the first     *)
(* function, and negative exactly when that function has returned: a       *)
(* return out of a function that is not on top, or out of an empty stack,  *)
(* and a call that is not seen because the stack is empty do not make the  *)
(* two disagree (updateStack and retStack count depth and stack apart).    *)
(* No function is ever on top of itself.                                   *)
DepthIsHeight ==
  Created =>
    \A k \in KeyIds :
      LET s == stacks[k] IN
      /\ s.funs # <<>> => s.depth = Len(s.funs) - 1
      /\ s.funs = <<>> => s.depth < 0
      /\ \A i \in 1 .. Len(s.funs) - 1 : s.funs[i] # s.funs[i + 1]
=============================================================================
