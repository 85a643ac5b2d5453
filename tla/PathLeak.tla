------------------------------- MODULE PathLeak -------------------------------
(***************************************************************************)
(* From the jumps of the trace to the leakage QIF reports: the replay      *)
(* records constraints of conditional jumps (BranchConstraints) and others *)
(* (memory accesses, or formulas that went wrong), and QIF.cpp's           *)
(* getEntropy estimates from them how many keys run like the trace's       *)
(* (LeakEstimate).                                                         *)
(***************************************************************************)
EXTENDS LeakEstimate

CONSTANTS
  AddressOf,     (* the address of each jump of the program                *)
  Others,        (* the constraints that are recorded besides              *)
  MaxRecorded    (* bound of the model: constraints recorded               *)

ASSUME AddressAssumption == AddressOf \in [Jumps -> Addresses]
ASSUME OthersAssumption == Others \subseteq Constraint

VARIABLE
  alike          (* history: the inputs that satisfy the others that the   *)
                 (* trace's key satisfies                                  *)

pathLeakVars == <<vars, estimateVars, alike>>

AfterReplay ==
  UNCHANGED <<phase, sampleNum, given, groups, tests, satisfied, at, rounds, hits, results>>

-----------------------------------------------------------------------------
PathLeakInit ==
  /\ Init
  /\ EstimateInit
  /\ alike = Inputs

FlagsChange ==
  /\ phase = "replay"
  /\ Len(constrains) < MaxRecorded
  /\ SetFlags
  /\ AfterReplay /\ UNCHANGED <<constrains, alike>>

JumpConstraint(j) ==
  [addr |-> AddressOf[j], type |-> "CF", symbolic |-> TRUE, holds |-> Satisfying(j)]

(* A jump, with the constraint that updateCFConstrains pushes or drops.    *)
RecordJump(j) ==
  /\ phase = "replay"
  /\ j # "JP"
  /\ Len(constrains) < MaxRecorded
  /\ Jump(j) /\ path' = path \cap Satisfying(j)
  /\ constrains' = Append(constrains, JumpConstraint(j))
  /\ AfterReplay /\ UNCHANGED alike

DropJump(j) ==
  /\ phase = "replay"
  /\ Satisfying(j) \in {{}, Inputs}
  /\ Jump(j) /\ path' = path
  /\ AfterReplay /\ UNCHANGED <<constrains, alike>>

(* A constraint on a memory address, or one built on a wrong formula,      *)
(* which the trace's key may violate: both are recorded.                   *)
RecordOther ==
  /\ phase = "replay"
  /\ Len(constrains) < MaxRecorded
  /\ \E c \in Others :
       /\ constrains' = Append(constrains, c)
       /\ alike' = IF KeyInput \in c.holds THEN alike \cap c.holds ELSE alike
  /\ AfterReplay /\ UNCHANGED vars

(* run has returned.  The flags are not read again; forgetting them keeps  *)
(* the number of states down.                                              *)
ReplayEnds ==
  /\ phase = "replay"
  /\ phase' = "reduce"
  /\ sampleNum' \in SampleNums
  /\ flags' = [x \in Inputs |-> CHOOSE f \in FlagStates : TRUE]
  /\ UNCHANGED <<path, same, silent, alike, constrains, given, groups, tests,
                 satisfied, at, rounds, hits, results>>

Estimate == EstimateStep /\ UNCHANGED <<vars, alike>>

Terminated == phase \in {"done", "crashed"} /\ UNCHANGED pathLeakVars

PathLeakNext ==
  \/ FlagsChange
  \/ \E j \in Jumps : RecordJump(j) \/ DropJump(j)
  \/ RecordOther
  \/ ReplayEnds
  \/ Estimate
  \/ Terminated

(* Once the replay has ended the program runs on: it has one thread, and   *)
(* nothing blocks it.                                                      *)
PathLeakSpec == PathLeakInit /\ [][PathLeakNext]_pathLeakVars /\ WF_pathLeakVars(Estimate)

-----------------------------------------------------------------------------
(* What is reported as the leakage of the whole run is the share of random *)
(* inputs that go the trace's way at every jump and satisfy what else the  *)
(* trace's key satisfies: no constraint is lost between the engine and the *)
(* estimate, and what the key violates does not empty the set.  Where a    *)
(* parity jump was met, which records nothing, or a JECXZ that was not     *)
(* taken, which records that it was, it is no smaller share.  (A JCXZ,     *)
(* which records the carry, may make it any share.)                        *)
CountsSameRuns ==
  phase \in {"groups", "done"} =>
    LET alikeTests == { i \in DOMAIN tests : tests[i] \in same \cap alike }
    IN  /\ Cardinality(alikeTests) <= satisfied
        /\ ~ silent => satisfied = Cardinality(alikeTests)

(* A group that has, in their order, all of the first n constraints that   *)
(* are at an address, and nothing else: place says where they come from.   *)
Gathers(group, cs, n, addr) ==
  \E place \in [1 .. Len(group) -> 1 .. n] :
    /\ \A k, l \in 1 .. Len(group) : k < l => place[k] < place[l]
    /\ \A k \in 1 .. Len(group) : group[k] = cs[place[k]]
    /\ \A m \in 1 .. n : cs[m].addr = addr <=> \E k \in 1 .. Len(group) : place[k] = m

(* spiltConstrainsByAddress makes one group for an address, and a group    *)
(* has all constraints of its address, in their order; erase and ++it of   *)
(* run_addr_group keep the list of results in step with that of groups, so *)
(* that the counts of infoConstrains and the list of print_group_result    *)
(* are about the same leak sites.                                          *)
ResultsFollowGroups ==
  phase \in {"groups", "done"} =>
    /\ Len(results) = at - 1
    /\ at <= Len(groups) + 1
    /\ \A i \in 1 .. Len(results) :
         results[i].addr = groups[i][1].addr /\ results[i].type = groups[i][1].type
    /\ \A i, j \in 1 .. Len(groups) : groups[i][1].addr = groups[j][1].addr => i = j
    /\ \A i \in 1 .. Len(groups) :
         Gathers(groups[i], given, Len(given), groups[i][1].addr)

(* The analysis comes to its report, unless -t is too small for the        *)
(* progress report: groups that can never be satisfied are given up.       *)
Finishes ==
  (phase = "reduce") ~> (phase = IF DiesOfStepSize THEN "crashed" ELSE "done")
=============================================================================
