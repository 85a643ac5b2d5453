-------------------------- MODULE BranchConstraints --------------------------
(***************************************************************************)
(* The constraints that conditional jumps record (symbolic_execution of    *)
(* the INST_X86_INS_J* classes of lib/ins_semantics.cpp, kept by           *)
(* QIFSEEngine::updateCFConstrains).                                       *)
(*                                                                         *)
(* A jump looks at the flags the trace recorded to see which way it went,  *)
(* and records a formula over the engine's symbolic flags.  A symbolic     *)
(* flag is a function of the key: here, the value it has for each input.   *)
(* What the analysis wants of the formulas is that together they describe  *)
(* the inputs that would have gone the same way.                           *)
(***************************************************************************)
EXTENDS FiniteSets

CONSTANTS
  Inputs,       (* the values that the secret may have                     *)
  KeyInput,     (* the one it has in the trace (key_value_map)             *)
  FlagStates,   (* states of the flags an instruction may leave            *)
  Jumps         (* the conditional jumps of the program                    *)

(* EcxZero stands for ecx = 0, which JECXZ tests, and cx = 0 for JCXZ.     *)
Flags == [CF : BOOLEAN, ZF : BOOLEAN, SF : BOOLEAN, OF : BOOLEAN, PF : BOOLEAN,
          EcxZero : BOOLEAN]

CarryJumps    == {"JAE", "JB", "JNAE", "JNB", "JNC"}
ZeroJumps     == {"JE", "JNE", "JZ", "JNZ"}
OverflowJumps == {"JO", "JNO"}
SignJumps     == {"JS", "JNS"}
BelowJumps    == {"JA", "JNBE", "JBE", "JNA"}
LessJumps     == {"JL", "JGE", "JNL"}
GreaterJumps  == {"JG", "JNLE", "JLE"}

AllJumps == CarryJumps \cup ZeroJumps \cup OverflowJumps \cup SignJumps
            \cup BelowJumps \cup LessJumps \cup GreaterJumps
            \cup {"JNG", "JECXZ", "JCXZ", "JP"}

ASSUME InputAssumption == KeyInput \in Inputs
ASSUME FlagsAssumption == FlagStates \subseteq Flags
ASSUME JumpsAssumption == Jumps \subseteq AllJumps

VARIABLES
  flags,    (* the engine's flags, as functions of the input; the          *)
            (* recorded flags are their values for KeyInput                *)
  path,     (* the inputs that satisfy every constraint recorded           *)
  same,     (* the inputs that went the same way at every jump             *)
  silent    (* history: a jump was executed that records nothing, or       *)
            (* something else than which way it went                       *)

vars == <<flags, path, same, silent>>

-----------------------------------------------------------------------------
(* What the processor does: the jumps that are taken.                      *)
Less(f)  == f.SF # f.OF
Taken(j, f) ==
  \/ j \in {"JB", "JNAE"} /\ f.CF
  \/ j \in {"JAE", "JNB", "JNC"} /\ ~ f.CF
  \/ j \in {"JE", "JZ"} /\ f.ZF
  \/ j \in {"JNE", "JNZ"} /\ ~ f.ZF
  \/ j = "JO" /\ f.OF
  \/ j = "JNO" /\ ~ f.OF
  \/ j = "JS" /\ f.SF
  \/ j = "JNS" /\ ~ f.SF
  \/ j \in {"JBE", "JNA"} /\ (f.CF \/ f.ZF)
  \/ j \in {"JA", "JNBE"} /\ ~ f.CF /\ ~ f.ZF
  \/ j = "JL" /\ Less(f)
  \/ j \in {"JGE", "JNL"} /\ ~ Less(f)
  \/ j \in {"JLE", "JNG"} /\ (f.ZF \/ Less(f))
  \/ j \in {"JG", "JNLE"} /\ ~ f.ZF /\ ~ Less(f)
  \/ j \in {"JECXZ", "JCXZ"} /\ f.EcxZero
  \/ j = "JP" /\ f.PF

-----------------------------------------------------------------------------
(* A Constrain is two formulas and a relation.  validate evaluates the     *)
(* formulas and compares the numbers; formulas that are relations          *)
(* themselves (buildop2) evaluate to 0 or 1.                               *)
Bit(b) == IF b THEN 1 ELSE 0

Validates(relation, left, right) ==
  \/ relation = "equal"   /\ left = right
  \/ relation = "noequal" /\ left # right
  \/ relation = "bvand"   /\ left # 0 /\ right # 0
  \/ relation = "bvor"    /\ (left # 0 \/ right # 0)

Buildop2(relation, left, right) == Bit(Validates(relation, left, right))

(* The constraint that a flag has the recorded value.                      *)
FlagIs(flag, recorded) == Validates("equal", Bit(flag), Bit(recorded))

(* The constraints, with own the recorded flags and f an input's.          *)
OneFlag(j, own, f) ==
  /\ j \in CarryJumps    => FlagIs(f.CF, own.CF)
  /\ j \in ZeroJumps     => FlagIs(f.ZF, own.ZF)
  /\ j \in OverflowJumps => FlagIs(f.OF, own.OF)
  /\ j \in SignJumps     => FlagIs(f.SF, own.SF)

Unsigned(own, f) ==
  LET CF(n) == Buildop2("equal", Bit(f.CF), n)
      ZF(n) == Buildop2("equal", Bit(f.ZF), n)
  IN  IF own.CF \/ own.ZF THEN Validates("bvor", CF(1), ZF(1))
      ELSE Validates("bvand", CF(0), ZF(0))

(* A direction read from the wrong pair of flags.                          *)
Signed_OwnZF(own, f) ==
  Validates(IF own.ZF # own.OF THEN "noequal" ELSE "equal", Bit(f.SF), Bit(f.OF))

Signed(own, f) ==
  Validates(IF Less(own) THEN "noequal" ELSE "equal", Bit(f.SF), Bit(f.OF))

(* ZF or SF # OF if the jump saw lessOrEqual, else neither.                *)
OrEqual(lessOrEqual, f) ==
  LET ZF(n)   == Buildop2("equal", Bit(f.ZF), n)
      SFOF(r) == Buildop2(r, Bit(f.SF), Bit(f.OF))
  IN  IF lessOrEqual THEN Validates("bvor", ZF(1), SFOF("noequal"))
      ELSE Validates("bvand", ZF(0), SFOF("equal"))

SignedOrEqual(own, f) == OrEqual(own.ZF \/ Less(own), f)

(* INST_X86_INS_JNG compares ZF with OF to see which way it went.          *)
NotGreater(own, f) == OrEqual(own.ZF \/ own.ZF # own.OF, f)

(* INST_X86_INS_JP records nothing; INST_X86_INS_JECXZ records ecx = 0     *)
(* whether or not it jumped; JCXZ is given to INST_X86_INS_JC, which       *)
(* records the carry.                                                      *)
SameCarry(own, f) == FlagIs(f.CF, own.CF)

Untold(j, own) == j \in {"JP", "JCXZ"} \/ (j = "JECXZ" /\ ~ own.EcxZero)

Recorded(j, own, f) ==
  /\ OneFlag(j, own, f)
  /\ j \in BelowJumps   => Unsigned(own, f)
  /\ j \in LessJumps    => Signed(own, f)
  /\ j \in GreaterJumps => SignedOrEqual(own, f)
  /\ j = "JNG"          => NotGreater(own, f)
  /\ j = "JECXZ"        => FlagIs(f.EcxZero, TRUE)
  /\ j = "JCXZ"         => SameCarry(own, f)

Satisfying(j) == { x \in Inputs : Recorded(j, flags[KeyInput], flags[x]) }

-----------------------------------------------------------------------------
Init ==
  /\ flags \in [Inputs -> FlagStates]
  /\ path = Inputs
  /\ same = Inputs
  /\ silent = FALSE

(* Any instruction that sets flags.                                        *)
SetFlags ==
  /\ flags' \in [Inputs -> FlagStates]
  /\ UNCHANGED <<path, same, silent>>

(* updateCFConstrains drops a formula without symbols.  One that differs   *)
(* between inputs has symbols; one that does not may have them.            *)
Jump(j) ==
  /\ \/ path' = path \cap Satisfying(j)
     \/ Satisfying(j) \in {{}, Inputs} /\ path' = path
  /\ same' = { x \in same : Taken(j, flags[x]) = Taken(j, flags[KeyInput]) }
  /\ silent' = (silent \/ Untold(j, flags[KeyInput]))
  /\ UNCHANGED flags

Next == SetFlags \/ \E j \in Jumps : Jump(j)

Spec == Init /\ [][Next]_vars

-----------------------------------------------------------------------------
(* The flags keep to the states instructions leave, the two sets of inputs *)
(* to the key space.                                                       *)
TypeOK ==
  /\ flags \in [Inputs -> FlagStates]
  /\ path \subseteq Inputs
  /\ same \subseteq Inputs
  /\ silent \in BOOLEAN

(* The recorded constraints are exactly "the key takes this path": the     *)
(* share of inputs that satisfy them is what QIF reports as leaked.  That  *)
(* ends with a parity jump, a JCXZ, or a JECXZ that is not taken.          *)
SamePath == ~ silent => path = same
=============================================================================
