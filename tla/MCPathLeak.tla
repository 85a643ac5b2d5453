----------------------------- MODULE MCPathLeak -----------------------------
(***************************************************************************)
(* Instance of PathLeak for TLC: the trace's key and another input, jumps  *)
(* of every class at two addresses, up to three constraints.               *)
(***************************************************************************)
EXTENDS PathLeak

CONSTANTS a, b, key, other

FlagsSet(set) ==
  [CF |-> "CF" \in set, ZF |-> "ZF" \in set, SF |-> "SF" \in set, OF |-> "OF" \in set,
   PF |-> "PF" \in set, EcxZero |-> "EcxZero" \in set]

(* Each flag alone, and the pairs that jumps combine: what the constraints *)
(* of every combination are is proved (PathExact).                         *)
ComparisonFlags ==
  { FlagsSet(s) : s \in {{}, {"CF"}, {"ZF"}, {"SF"}, {"OF"}, {"PF"}, {"EcxZero"},
                           {"CF", "ZF"}, {"SF", "OF"}} }

(* All jumps but JNG, which has a run of its own, and JCXZ, of which       *)
(* CountsSameRuns can say nothing.                                         *)
OtherJumps == AllJumps \ {"JNG", "JCXZ"}

(* The run of JNG.  Its flags: the others do not matter to it.             *)
SignedFlags == { f \in Flags : ~ f.CF /\ ~ f.PF /\ ~ f.EcxZero }

JNGAddress == [j \in {"JNG"} |-> a]

(* Jumps on one flag at one address, on several at the other.              *)
TwoAddresses ==
  [j \in OtherJumps |->
     IF j \in BelowJumps \cup LessJumps \cup GreaterJumps THEN b ELSE a]

Con(addr, type, holds) == [addr |-> addr, type |-> type, symbolic |-> TRUE, holds |-> holds]

(* Constraints the key satisfies, violates (a replay that went wrong),     *)
(* that no input satisfies, and one without symbols.  Jumps record some    *)
(* that all inputs satisfy.                                                *)
OtherConstraints ==
  { Con(a, "DA", {key}), Con(a, "DA", {other}), Con(b, "DA", {}),
    [addr |-> b, type |-> "DA", symbolic |-> FALSE, holds |-> {}] }
=============================================================================
