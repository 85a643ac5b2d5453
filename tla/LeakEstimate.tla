---------------------------- MODULE LeakEstimate ----------------------------
(***************************************************************************)
(* From recorded constraints to a leakage estimate: reduceConstrains of    *)
(* lib/QIFSEEngine.cpp, then getEntropy of QIF/QIF.cpp, which drives       *)
(* FastMonteCarlo (lib/MonteCarlo.cpp): split by address, verify with the  *)
(* trace's own key, count the random inputs that satisfy everything, and   *)
(* estimate each address by rounds of sampling.                            *)
(*                                                                         *)
(* The secret's values are those of BranchConstraints, whose jumps take no *)
(* part here (PathLeak lets them record what is estimated).  A constraint  *)
(* is abstracted to the inputs that satisfy it.  verify drops constraints  *)
(* from one of the two copies that FastMonteCarlo holds; the groups keep   *)
(* them.                                                                   *)
(***************************************************************************)
EXTENDS Integers, Sequences, FiniteSets, BranchConstraints

CONSTANTS
  Addresses,     (* instruction addresses                                  *)
  SampleNums,    (* values of the option -t                                *)
  Tenths,        (* 10: the progress report divides by sample_num / 10     *)
  RoundSize,     (* sample_size, 1000                                      *)
  MinSatisfied,  (* min_satisfied_cons, 10                                 *)
  MaxRounds      (* 150: the loop is left once test_round exceeds it       *)

(* holds: the inputs that satisfy the constraint; one without symbols      *)
(* holds for all or for none.                                              *)
Constraint ==
  { c \in [addr : Addresses, type : {"CF", "DA"}, symbolic : BOOLEAN,
           holds : SUBSET Inputs] :
      c.symbolic \/ c.holds \in {{}, Inputs} }

ASSUME SamplingAssumption ==
  /\ SampleNums \subseteq Nat
  /\ {Tenths, RoundSize, MinSatisfied} \subseteq Nat \ {0}
  /\ MaxRounds \in Nat

VARIABLES
  phase,         (* "replay", then what main does next                     *)
  sampleNum,     (* num_sample                                             *)
  constrains,    (* m_constrains, from verify on FastMonteCarlo's copy     *)
  given,         (* the constructor's argument                             *)
  groups,        (* constrains_group_addr                                  *)
  tests,         (* the inputs of the overall estimate                     *)
  satisfied,     (* num_satisfied                                          *)
  at,            (* the next constraint; run_addr_group: the next group    *)
  rounds,        (* test_round of the current group                        *)
  hits,          (* num_satisfied_for_group                                *)
  results        (* num_satisfied_group                                    *)

estimateVars == <<phase, sampleNum, constrains, given, groups, tests, satisfied, at,
                  rounds, hits, results>>

(* generate_random_tests: n draws of the bytes the constraints depend on.  *)
(* What the other bytes are is of no consequence.                          *)
RandomTests(n) == [1 .. n -> Inputs]

(* constrainSatisfy, and testConstrain over a list.                        *)
Satisfies(input, cs) == \A i \in 1 .. Len(cs) : input \in cs[i].holds

Count(sample, cs) ==
  Cardinality({ i \in DOMAIN sample : Satisfies(sample[i], cs) })

(* erase of a std::vector or std::list.                                    *)
Erased(s, n) == [i \in 1 .. Len(s) - 1 |-> s[IF i < n THEN i ELSE i + 1]]

-----------------------------------------------------------------------------
(* The engine has recorded nothing yet; -t is not looked at before main    *)
(* calls getEntropy.                                                       *)
EstimateInit ==
  /\ phase = "replay"
  /\ sampleNum = 0
  /\ constrains = <<>>
  /\ given = <<>>
  /\ groups = <<>>
  /\ tests = <<>>
  /\ satisfied = 0
  /\ at = 1
  /\ rounds = 0
  /\ hits = 0
  /\ results = <<>>

(* The erase loop of reduceConstrains: constraints without symbols go.     *)
ReduceOne ==
  /\ phase = "reduce"
  /\ at <= Len(constrains)
  /\ IF constrains[at].symbolic
     THEN at' = at + 1 /\ UNCHANGED constrains
     ELSE constrains' = Erased(constrains, at) /\ UNCHANGED at
  /\ UNCHANGED <<phase, sampleNum, given, groups, tests, satisfied, rounds, hits, results>>

(* Its end, and the constructor's copies of the rest.                      *)
ReduceEnds ==
  /\ phase = "reduce"
  /\ at > Len(constrains)
  /\ phase' = "split"
  /\ given' = constrains
  /\ at' = 1
  /\ UNCHANGED <<sampleNum, constrains, groups, tests, satisfied, rounds, hits, results>>

(* internal_find_constrain_group_by_addr.                                  *)
GroupsOf(addr) == { i \in 1 .. Len(groups) : groups[i][1].addr = addr }

(* A search that looks at the last group only.                             *)
SplitOne_LastGroup ==
  /\ phase = "split"
  /\ at <= Len(constrains)
  /\ LET c == constrains[at]
         n == Len(groups)
     IN  groups' = IF n = 0 \/ n \notin GroupsOf(c.addr)
                   THEN Append(groups, <<c>>)
                   ELSE [groups EXCEPT ![n] = Append(@, c)]
  /\ at' = at + 1
  /\ UNCHANGED <<phase, sampleNum, constrains, given, tests, satisfied, rounds,
                 hits, results>>

(* spiltConstrainsByAddress, one constraint.                               *)
SplitOne ==
  /\ phase = "split"
  /\ at <= Len(constrains)
  /\ LET c == constrains[at]
     IN  groups' = IF GroupsOf(c.addr) = {}
                   THEN Append(groups, <<c>>)
                   ELSE [i \in 1 .. Len(groups) |->
                           IF i \in GroupsOf(c.addr)
                           THEN Append(groups[i], c) ELSE groups[i]]
  /\ at' = at + 1
  /\ UNCHANGED <<phase, sampleNum, constrains, given, tests, satisfied, rounds,
                 hits, results>>

(* step_size is 0, and the loop divides by it: the process dies.           *)
DiesOfStepSize == sampleNum # 0 /\ sampleNum \div Tenths = 0

(* The rest of the constructor: the random inputs.                         *)
DrawTests ==
  /\ phase = "split"
  /\ at > Len(constrains)
  /\ IF DiesOfStepSize
     THEN phase' = "crashed" /\ UNCHANGED tests
     ELSE phase' = "verify" /\ tests' \in RandomTests(sampleNum)
  /\ at' = 1
  /\ UNCHANGED <<sampleNum, constrains, given, groups, satisfied, rounds, hits, results>>

(* Dropping that skips the element after each one it erases.               *)
VerifyOne_SkipNext ==
  /\ phase = "verify"
  /\ at <= Len(constrains)
  /\ IF KeyInput \in constrains[at].holds
     THEN UNCHANGED constrains
     ELSE constrains' = Erased(constrains, at)
  /\ at' = at + 1
  /\ UNCHANGED <<phase, sampleNum, given, groups, tests, satisfied, rounds, hits, results>>

(* The erase loop of verifyConstrain, on constrains only: what the trace's *)
(* own key violates goes.                                                  *)
VerifyOne ==
  /\ phase = "verify"
  /\ at <= Len(constrains)
  /\ IF KeyInput \in constrains[at].holds
     THEN at' = at + 1 /\ UNCHANGED constrains
     ELSE constrains' = Erased(constrains, at) /\ UNCHANGED at
  /\ UNCHANGED <<phase, sampleNum, given, groups, tests, satisfied, rounds, hits, results>>

VerifyEnds ==
  /\ phase = "verify"
  /\ at > Len(constrains)
  /\ phase' = "run"
  /\ UNCHANGED <<sampleNum, constrains, given, groups, tests, satisfied, at, rounds,
                 hits, results>>

Run ==
  /\ phase = "run"
  /\ phase' = "groups"
  /\ satisfied' = satisfied + Count(tests, constrains)
  /\ at' = 1
  /\ UNCHANGED <<sampleNum, constrains, given, groups, tests, rounds, hits, results>>

-----------------------------------------------------------------------------
(* run_addr_group.  A group is sampled until it has enough hits or the     *)
(* rounds are used up.                                                     *)
InGroup == phase = "groups" /\ at <= Len(groups)

GoesOn == hits < MinSatisfied /\ rounds <= MaxRounds

SampleRound ==
  /\ InGroup
  /\ GoesOn
  /\ \E sample \in RandomTests(RoundSize) :
       hits' = hits + Count(sample, groups[at])
  /\ rounds' = rounds + 1
  /\ UNCHANGED <<phase, sampleNum, constrains, given, groups, tests, satisfied,
                 at, results>>

Sampled == rounds * RoundSize

GroupDone == InGroup /\ ~ GoesOn /\ rounds' = 0 /\ hits' = 0

(* An erase that is forgotten.                                             *)
EraseGroup_Forgotten ==
  /\ GroupDone
  /\ hits = Sampled
  /\ UNCHANGED <<phase, sampleNum, constrains, given, groups, tests, satisfied,
                 at, results>>

(* Every sample satisfied the group: its address leaks nothing.            *)
EraseGroup ==
  /\ GroupDone
  /\ hits = Sampled
  /\ groups' = Erased(groups, at)
  /\ UNCHANGED <<phase, sampleNum, constrains, given, tests, satisfied, at, results>>

KeepGroup ==
  /\ GroupDone
  /\ hits # Sampled
  /\ LET c == groups[at][1]
     IN  results' = Append(results, [addr |-> c.addr, num |-> hits,
                                     type |-> c.type, total |-> Sampled])
  /\ at' = at + 1
  /\ UNCHANGED <<phase, sampleNum, constrains, given, groups, tests, satisfied>>

(* infoConstrains and print_group_result write groups and results out.     *)
Report ==
  /\ phase = "groups"
  /\ at > Len(groups)
  /\ phase' = "done"
  /\ UNCHANGED <<sampleNum, constrains, given, groups, tests, satisfied, at,
                 rounds, hits, results>>

EstimateStep ==
  \/ ReduceOne
  \/ ReduceEnds
  \/ SplitOne
  \/ DrawTests
  \/ VerifyOne
  \/ VerifyEnds
  \/ Run
  \/ SampleRound
  \/ EraseGroup
  \/ KeepGroup
  \/ Report

=============================================================================
