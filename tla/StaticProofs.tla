----------------------------- MODULE StaticProofs -----------------------------
(***************************************************************************)
(* Theorems about StaticEngine, for every program that a disassembler      *)
(* prints: the blocks get their instructions, and where texts and          *)
(* addresses are one to one, the engine is the processor.                  *)
(***************************************************************************)
EXTENDS StaticEngine, SequenceTheorems, WellFoundedInduction, TLAPS

Block == [addr : Nat, end : Nat]

(* A nonempty set of naturals has a least element.                         *)
LEMMA LeastExists ==
  ASSUME NEW S \in SUBSET Nat, S # {}
  PROVE  \E i \in S : \A j \in S : i <= j
<1> DEFINE R == { ss \in Nat \X Nat : ss[1] < ss[2] }
<1>1. IsWellFoundedOn(R, Nat)
  BY NatLessThanWellFounded, Zenon DEF OpToRel
<1>2. PICK i \in S : \A j \in S : ~ (<<j, i>> \in R)
  <2> HIDE DEF R
  <2> QED
    BY <1>1, WFMin
<1>3. ASSUME NEW j \in S PROVE i <= j
  <2>1. ~ (<<j, i>> \in R)
    BY <1>2
  <2>2. i \in Nat /\ j \in Nat
    OBVIOUS
  <2>3. ~ (j < i)
    BY <2>1, <2>2
  <2>4. QED
    BY <2>2, <2>3
<1>4. QED
  BY <1>3

-----------------------------------------------------------------------------
(* Where a block starts in a list, and where it ends.                      *)
LEMMA FromFinds ==
  ASSUME NEW list \in Seq(Nat), NEW b \in Block
  PROVE  /\ FromIndex(list, b) \in 1 .. Len(list) + 1
         /\ IF b.addr \in Addresses(list)
            THEN FromIndex(list, b) \in DOMAIN list /\ list[FromIndex(list, b)] = b.addr
            ELSE FromIndex(list, b) = Len(list) + 1
<1> DEFINE S == { k \in DOMAIN list : list[k] = b.addr }
           First(k) == list[k] = b.addr /\ \A j \in 1 .. k - 1 : list[j] # b.addr
<1>1. DOMAIN list = 1 .. Len(list) /\ Len(list) \in Nat
  OBVIOUS
<1>2. CASE b.addr \in Addresses(list)
  <2>1. S # {} /\ S \in SUBSET Nat
    BY <1>1, <1>2 DEF Addresses
  <2>2. PICK i \in S : \A j \in S : i <= j
    <3> HIDE DEF S
    <3> QED
      BY <2>1, LeastExists
  <2>3. i \in DOMAIN list /\ First(i)
    BY <1>1, <2>2
  <2>4. (CHOOSE k \in DOMAIN list : First(k)) \in DOMAIN list
        /\ First(CHOOSE k \in DOMAIN list : First(k))
    <3> HIDE DEF First
    <3> QED
      BY <2>3
  <2>5. FromIndex(list, b) = CHOOSE k \in DOMAIN list : First(k)
    BY <2>3 DEF FromIndex
  <2>6. QED
    BY <1>1, <1>2, <2>4, <2>5
<1>3. CASE b.addr \notin Addresses(list)
  BY <1>1, <1>3 DEF FromIndex, Addresses
<1>4. QED
  BY <1>2, <1>3

LEMMA UpToFinds ==
  ASSUME NEW list \in Seq(Nat), NEW b \in Block
  PROVE  /\ UpToIndex(list, b) \in FromIndex(list, b) - 1 .. Len(list)
         /\ \A k \in FromIndex(list, b) .. UpToIndex(list, b) : list[k] < b.end
         /\ UpToIndex(list, b) < Len(list) => list[UpToIndex(list, b) + 1] >= b.end
<1> DEFINE over == { k \in FromIndex(list, b) .. Len(list) : list[k] >= b.end }
<1>1. /\ DOMAIN list = 1 .. Len(list) /\ Len(list) \in Nat
      /\ FromIndex(list, b) \in 1 .. Len(list) + 1
      /\ b.end \in Nat
      /\ \A k \in 1 .. Len(list) : list[k] \in Nat
  BY FromFinds DEF Block
<1>2. CASE over = {}
  <2>1. UpToIndex(list, b) = Len(list)
    BY <1>2 DEF UpToIndex
  <2>2. \A k \in FromIndex(list, b) .. Len(list) : list[k] \in Nat /\ ~ (list[k] >= b.end)
    BY <1>1, <1>2
  <2>3. QED
    BY <1>1, <2>1, <2>2
<1>3. CASE over # {}
  <2>1. over \in SUBSET Nat
    BY <1>1
  <2>2. PICK i \in over : \A j \in over : i <= j
    <3> HIDE DEF over
    <3> QED
      BY <1>3, <2>1, LeastExists
  <2> DEFINE least == CHOOSE k \in over : \A j \in over : k <= j
  <2>3. least \in over /\ \A j \in over : least <= j
    <3> HIDE DEF over
    <3> QED
      BY <2>2
  <2>4. UpToIndex(list, b) = least - 1
    BY <1>3 DEF UpToIndex
  <2>5. least \in FromIndex(list, b) .. Len(list) /\ list[least] >= b.end
    BY <2>3
  <2>6. \A k \in FromIndex(list, b) .. least - 1 : list[k] < b.end
    <3> SUFFICES ASSUME NEW k \in FromIndex(list, b) .. least - 1, ~ (list[k] < b.end)
                 PROVE  FALSE
      OBVIOUS
    <3>1. k \in 1 .. Len(list) /\ list[k] \in Nat /\ k < least
      BY <1>1, <2>5
    <3>2. k \in over
      BY <1>1, <3>1
    <3> HIDE DEF over
    <3>3. QED
      BY <1>1, <2>3, <2>5, <3>1, <3>2, SMTT(20)
  <2> HIDE DEF least
  <2>7. QED
    BY <1>1, <2>4, <2>5, <2>6
<1>4. QED
  BY <1>2, <1>3

(* What a block takes out of a list, and what it leaves.                   *)
Taken(list, b) == SubSeq(list, FromIndex(list, b), UpToIndex(list, b))

Kept(list, b) ==
  SubSeq(list, 1, FromIndex(list, b) - 1) \o SubSeq(list, UpToIndex(list, b) + 1, Len(list))

Inside(a, b) == b.addr <= a /\ a < b.end

LEMMA TakenAndKept ==
  ASSUME NEW list \in Seq(Nat), NEW b \in Block
  PROVE  LET from == FromIndex(list, b)
             upTo == UpToIndex(list, b)
         IN  /\ Taken(list, b) \in Seq(Nat) /\ Kept(list, b) \in Seq(Nat)
             /\ Len(Taken(list, b)) = upTo + 1 - from
             /\ \A k \in 1 .. upTo + 1 - from : Taken(list, b)[k] = list[from + k - 1]
             /\ Len(Kept(list, b)) = Len(list) - (upTo + 1 - from)
             /\ \A k \in 1 .. Len(Kept(list, b)) :
                  Kept(list, b)[k] = list[IF k < from THEN k ELSE k + (upTo + 1 - from)]
<1> DEFINE from == FromIndex(list, b)
           upTo == UpToIndex(list, b)
<1>1. from \in 1 .. Len(list) + 1 /\ upTo \in from - 1 .. Len(list) /\ Len(list) \in Nat
  BY FromFinds, UpToFinds
<1> DEFINE s == SubSeq(list, 1, from - 1)
           t == SubSeq(list, upTo + 1, Len(list))
<1>2. /\ Taken(list, b) \in Seq(Nat)
      /\ Len(Taken(list, b)) = upTo + 1 - from
      /\ \A k \in 1 .. upTo + 1 - from : Taken(list, b)[k] = list[from + k - 1]
  <2>1. \A k \in from .. upTo : list[k] \in Nat
    BY <1>1
  <2> HIDE DEF from, upTo
  <2>2. /\ SubSeq(list, from, upTo) \in Seq(Nat)
        /\ Len(SubSeq(list, from, upTo)) = IF from <= upTo THEN upTo - from + 1 ELSE 0
        /\ \A k \in 1 .. upTo - from + 1 : SubSeq(list, from, upTo)[k] = list[from + k - 1]
    BY <1>1, <2>1, SubSeqProperties
  <2>3. Taken(list, b) = SubSeq(list, from, upTo)
    BY DEF Taken, from, upTo
  <2>4. upTo + 1 - from = upTo - from + 1
        /\ upTo + 1 - from = (IF from <= upTo THEN upTo - from + 1 ELSE 0)
    BY <1>1
  <2>5. QED
    BY <2>2, <2>3, <2>4
<1>3. s \in Seq(Nat) /\ Len(s) = from - 1 /\ \A k \in 1 .. from - 1 : s[k] = list[k]
  BY <1>1
<1>4. /\ t \in Seq(Nat) /\ Len(t) = Len(list) - upTo
      /\ \A k \in 1 .. Len(list) - upTo : t[k] = list[upTo + k]
  <2>1. \A k \in upTo + 1 .. Len(list) : list[k] \in Nat
    BY <1>1
  <2> HIDE DEF from, upTo
  <2>2. /\ t \in Seq(Nat)
        /\ Len(t) = IF upTo + 1 <= Len(list) THEN Len(list) - (upTo + 1) + 1 ELSE 0
        /\ \A k \in 1 .. Len(list) - (upTo + 1) + 1 : t[k] = list[(upTo + 1) + k - 1]
    BY <1>1, <2>1, SubSeqProperties
  <2>3. /\ Len(list) - (upTo + 1) + 1 = Len(list) - upTo
        /\ Len(list) - upTo = IF upTo + 1 <= Len(list) THEN Len(list) - (upTo + 1) + 1 ELSE 0
        /\ \A k \in 1 .. Len(list) - upTo : (upTo + 1) + k - 1 = upTo + k
    BY <1>1
  <2> HIDE DEF t
  <2>4. QED
    BY <2>2, <2>3
<1>5. Kept(list, b) = s \o t
  BY DEF Kept
<1> HIDE DEF from, upTo, s, t
<1>6. /\ Kept(list, b) \in Seq(Nat)
      /\ Len(Kept(list, b)) = Len(list) - (upTo + 1 - from)
  <2>1. s \o t \in Seq(Nat) /\ Len(s \o t) = Len(s) + Len(t)
    BY <1>3, <1>4, ConcatProperties
  <2>2. QED
    BY <1>1, <1>3, <1>4, <1>5, <2>1
<1>7. ASSUME NEW k \in 1 .. Len(Kept(list, b))
      PROVE  Kept(list, b)[k] = list[IF k < from THEN k ELSE k + (upTo + 1 - from)]
  <2>1. CASE k < from
    BY <1>1, <1>3, <1>4, <1>5, <2>1
  <2>2. CASE ~ (k < from)
    <3>1. k - (from - 1) \in 1 .. Len(list) - upTo
      BY <1>1, <1>6, <2>2
    <3>2. Kept(list, b)[k] = t[k - (from - 1)]
      <4>1. k \in 1 .. Len(s) + Len(t) /\ ~ (k <= Len(s))
        BY <1>1, <1>3, <1>4, <1>6, <2>2
      <4>2. (s \o t)[k] = IF k <= Len(s) THEN s[k] ELSE t[k - Len(s)]
        BY <1>3, <1>4, <4>1, ConcatProperties
      <4>3. QED
        BY <1>3, <1>5, <4>1, <4>2
    <3>3. t[k - (from - 1)] = list[upTo + (k - (from - 1))]
      BY <1>4, <3>1
    <3>4. upTo + (k - (from - 1)) = k + (upTo + 1 - from)
      BY <1>1
    <3>5. QED
      BY <2>2, <3>2, <3>3, <3>4, Zenon
  <2>3. QED
    BY <2>1, <2>2
<1>8. QED
  BY <1>2, <1>6, <1>7 DEF from, upTo

(* In a list in order, that is what is inside the block.                   *)
LEMMA TakesInside ==
  ASSUME NEW list \in Seq(Nat), NEW b \in Block, InOrder(list), b.addr \in Addresses(list)
  PROVE  /\ InOrder(Taken(list, b)) /\ InOrder(Kept(list, b))
         /\ Addresses(Taken(list, b)) = { a \in Addresses(list) : Inside(a, b) }
         /\ Addresses(Kept(list, b)) = { a \in Addresses(list) : ~ Inside(a, b) }
<1> DEFINE from == FromIndex(list, b)
           upTo == UpToIndex(list, b)
           s == Taken(list, b)
           t == Kept(list, b)
           w == upTo + 1 - from
<1>1. /\ from \in 1 .. Len(list) /\ list[from] = b.addr
      /\ upTo \in from - 1 .. Len(list) /\ Len(list) \in Nat
      /\ \A k \in from .. upTo : list[k] < b.end
      /\ upTo < Len(list) => list[upTo + 1] >= b.end
      /\ b.addr \in Nat /\ b.end \in Nat
      /\ DOMAIN list = 1 .. Len(list) /\ \A k \in 1 .. Len(list) : list[k] \in Nat
  <2>1. b.addr \in Nat /\ b.end \in Nat
    BY DEF Block
  <2>2. from \in 1 .. Len(list) + 1 /\ from \in DOMAIN list /\ list[from] = b.addr
    BY FromFinds
  <2>3. /\ upTo \in from - 1 .. Len(list)
        /\ \A k \in from .. upTo : list[k] < b.end
        /\ upTo < Len(list) => list[upTo + 1] >= b.end
    BY UpToFinds
  <2> HIDE DEF from, upTo
  <2>4. QED
    BY <2>1, <2>2, <2>3, SMTT(20)
<1>2. /\ s \in Seq(Nat) /\ t \in Seq(Nat)
      /\ Len(s) = w /\ \A k \in 1 .. w : s[k] = list[from + k - 1]
      /\ Len(t) = Len(list) - w
      /\ \A k \in 1 .. Len(t) : t[k] = list[IF k < from THEN k ELSE k + w]
  BY TakenAndKept
<1>3. \A m, n \in 1 .. Len(list) : m < n => list[m] < list[n]
  BY <1>1 DEF InOrder
<1> HIDE DEF from, upTo, s, t
<1>4. DOMAIN s = 1 .. w /\ DOMAIN t = 1 .. Len(list) - w /\ w \in Nat /\ w <= Len(list)
  BY <1>1, <1>2, SMTT(20)
(* Inside is between from and upTo.                                        *)
<1>5. \A k \in 1 .. Len(list) : Inside(list[k], b) <=> k \in from .. upTo
  <2> SUFFICES ASSUME NEW k \in 1 .. Len(list)
               PROVE  Inside(list[k], b) <=> k \in from .. upTo
    OBVIOUS
  <2>1. CASE k < from
    <3>1. list[k] < list[from]
      BY <1>1, <1>3, <2>1
    <3>2. QED
      BY <1>1, <2>1, <3>1 DEF Inside
  <2>2. CASE k \in from .. upTo
    <3>1. list[k] >= list[from]
      BY <1>1, <1>3, <2>2
    <3>2. QED
      BY <1>1, <2>2, <3>1 DEF Inside
  <2>3. CASE k > upTo /\ k >= from
    <3>1. upTo + 1 \in 1 .. Len(list) /\ list[upTo + 1] >= b.end
      BY <1>1, <2>3
    <3>2. list[k] >= list[upTo + 1]
      BY <1>1, <1>3, <2>3, <3>1, SMTT(20)
    <3>3. QED
      BY <1>1, <2>3, <3>1, <3>2 DEF Inside
  <2>4. QED
    BY <1>1, <2>1, <2>2, <2>3
<1>6. InOrder(s)
  <2> SUFFICES ASSUME NEW m \in 1 .. w, NEW n \in 1 .. w, m < n
               PROVE  s[m] < s[n]
    BY <1>4 DEF InOrder
  <2>1. from + m - 1 \in 1 .. Len(list) /\ from + n - 1 \in 1 .. Len(list)
        /\ from + m - 1 < from + n - 1
    BY <1>1
  <2>2. list[from + m - 1] < list[from + n - 1]
    BY <1>3, <2>1
  <2>3. QED
    BY <1>2, <2>2
<1>7. InOrder(t)
  <2> SUFFICES ASSUME NEW m \in 1 .. Len(list) - w, NEW n \in 1 .. Len(list) - w, m < n
               PROVE  t[m] < t[n]
    BY <1>4 DEF InOrder
  <2> DEFINE At(k) == IF k < from THEN k ELSE k + w
  <2>1. At(m) \in 1 .. Len(list) /\ At(n) \in 1 .. Len(list) /\ At(m) < At(n)
    <3> DEFINE size == Len(list)
    <3>1. from \in Nat /\ w \in Nat /\ size \in Nat /\ w <= size
          /\ m \in 1 .. size - w /\ n \in 1 .. size - w
      BY <1>1, <1>4
    <3> HIDE DEF w, size
    <3>2. At(m) \in 1 .. size /\ At(n) \in 1 .. size /\ At(m) < At(n)
      BY <3>1
    <3>3. QED
      BY <3>2 DEF size
  <2>2. t[m] = list[At(m)] /\ t[n] = list[At(n)]
    BY <1>2, <1>4
  <2> HIDE DEF At
  <2>3. QED
    BY <1>3, <2>1, <2>2
<1>8. Addresses(s) = { a \in Addresses(list) : Inside(a, b) }
  <2>1. ASSUME NEW k \in 1 .. w
        PROVE  s[k] \in Addresses(list) /\ Inside(s[k], b)
    <3>1. from + k - 1 \in 1 .. Len(list) /\ from + k - 1 \in from .. upTo
      BY <1>1
    <3>2. QED
      BY <1>1, <1>2, <1>5, <3>1 DEF Addresses
  <2>2. ASSUME NEW k \in 1 .. Len(list), Inside(list[k], b)
        PROVE  \E n \in 1 .. w : s[n] = list[k]
    <3>1. k \in from .. upTo
      BY <1>5, <2>2
    <3>2. k - from + 1 \in 1 .. w /\ from + (k - from + 1) - 1 = k
      BY <1>1, <3>1
    <3>3. s[k - from + 1] = list[from + (k - from + 1) - 1]
      BY <1>2, <3>2
    <3>4. QED
      BY <3>2, <3>3
  <2>3. /\ \A a : a \in Addresses(s) <=> \E k \in 1 .. w : s[k] = a
        /\ \A a : a \in Addresses(list) <=> \E k \in 1 .. Len(list) : list[k] = a
    BY <1>1, <1>4 DEF Addresses
  <2>4. ASSUME NEW a \in Addresses(s) PROVE a \in Addresses(list) /\ Inside(a, b)
    BY <2>1, <2>3
  <2>5. ASSUME NEW a \in Addresses(list), Inside(a, b) PROVE a \in Addresses(s)
    BY <2>2, <2>3, <2>5
  <2>6. QED
    BY <2>4, <2>5
<1>9. Addresses(t) = { a \in Addresses(list) : ~ Inside(a, b) }
  <2>1. ASSUME NEW k \in 1 .. Len(list) - w
        PROVE  t[k] \in Addresses(list) /\ ~ Inside(t[k], b)
    <3> DEFINE j == IF k < from THEN k ELSE k + w
    <3>1. j \in 1 .. Len(list) /\ j \notin from .. upTo
      BY <1>1, <1>4
    <3>2. t[k] = list[j]
      BY <1>2, <1>4
    <3> HIDE DEF j
    <3>3. QED
      BY <1>1, <1>5, <3>1, <3>2 DEF Addresses
  <2>2. ASSUME NEW k \in 1 .. Len(list), ~ Inside(list[k], b)
        PROVE  \E n \in 1 .. Len(list) - w : t[n] = list[k]
    <3>1. k \notin from .. upTo
      BY <1>5, <2>2
    <3> DEFINE n == IF k < from THEN k ELSE k - w
    <3>2. n \in 1 .. Len(list) - w /\ (IF n < from THEN n ELSE n + w) = k
      BY <1>1, <3>1
    <3> HIDE DEF n
    <3>3. t[n] = list[IF n < from THEN n ELSE n + w]
      BY <1>2, <3>2
    <3>4. t[n] = list[k]
      BY <3>2, <3>3
    <3>5. QED
      BY <3>2, <3>4
  <2>3. /\ \A a : a \in Addresses(t) <=> \E k \in 1 .. Len(list) - w : t[k] = a
        /\ \A a : a \in Addresses(list) <=> \E k \in 1 .. Len(list) : list[k] = a
    BY <1>1, <1>4 DEF Addresses
  <2>4. ASSUME NEW a \in Addresses(t) PROVE a \in Addresses(list) /\ ~ Inside(a, b)
    BY <2>1, <2>3
  <2>5. ASSUME NEW a \in Addresses(list), ~ Inside(a, b) PROVE a \in Addresses(t)
    BY <2>2, <2>3, <2>5
  <2>6. QED
    BY <2>4, <2>5
<1>10. QED
  BY <1>6, <1>7, <1>8, <1>9 DEF s, t

(* A block that starts elsewhere takes nothing.                            *)
LEMMA TakesNothing ==
  ASSUME NEW list \in Seq(Nat), NEW b \in Block, b.addr \notin Addresses(list)
  PROVE  Taken(list, b) = <<>> /\ Kept(list, b) = list
<1>1. FromIndex(list, b) = Len(list) + 1 /\ UpToIndex(list, b) = Len(list) /\ Len(list) \in Nat
  BY FromFinds, UpToFinds
<1>2. Taken(list, b) = <<>>
  BY <1>1, SubSeqEmpty DEF Taken
<1>3. /\ SubSeq(list, 1, Len(list)) = list
      /\ SubSeq(list, Len(list) + 1, Len(list)) = <<>>
      /\ list \o <<>> = list
  BY <1>1, SubSeqEmpty, SubSeqFull, ConcatEmptySeq
<1>4. Len(list) + 1 - 1 = Len(list)
  BY <1>1
<1>5. QED
  BY <1>1, <1>2, <1>3, <1>4 DEF Kept

-----------------------------------------------------------------------------
(* Instructions leave the lists alone: only InitBlock deals them out, and  *)
(* only NextBlock goes on to another block.                                *)
Instruction ==
  \E i \in file.code :
    \/ Load(i) \/ Store(i) \/ AddImmediate(i) \/ LoadAddress(i)
    \/ Push(i) \/ PushMemory(i) \/ Pop(i) \/ Call(i) \/ Ret(i) \/ Leave(i)
    \/ PassOver(i) \/ Ignored(i) \/ Refused(i)

LEMMA InstructionKeepsLists ==
  ASSUME Instruction
  PROVE  UNCHANGED <<file, fun_inst, inst_list, current>> /\ Running
<1>1. PICK i \in file.code :
        \/ Load(i) \/ Store(i) \/ AddImmediate(i) \/ LoadAddress(i)
        \/ Push(i) \/ PushMemory(i) \/ Pop(i) \/ Call(i) \/ Ret(i) \/ Leave(i)
        \/ PassOver(i) \/ Ignored(i) \/ Refused(i)
  BY Zenon DEF Instruction
<1>2. CASE Load(i)
  BY <1>2, Zenon DEF Load, Turn, Turns
<1>3. CASE Store(i)
  BY <1>3, Zenon DEF Store, Turn, Turns
<1>4. CASE AddImmediate(i)
  BY <1>4, Zenon DEF AddImmediate, Turn, Turns
<1>5. CASE LoadAddress(i)
  BY <1>5, Zenon DEF LoadAddress, Turn, Turns
<1>6. CASE Push(i)
  BY <1>6, Zenon DEF Push, Turn, Turns
<1>7. CASE PushMemory(i)
  BY <1>7, Zenon DEF PushMemory, Turn, Turns
<1>8. CASE Pop(i)
  BY <1>8, Zenon DEF Pop, Turn, Turns
<1>9. CASE Call(i)
  BY <1>9, Zenon DEF Call, Turn, Turns
<1>10. CASE Ret(i)
  BY <1>10, Zenon DEF Ret, Turn, Turns
<1>11. CASE Leave(i)
  BY <1>11, Zenon DEF Leave, Turn, Turns
<1>12. CASE PassOver(i)
  BY <1>12, Zenon DEF PassOver, Turn, Turns
<1>13. CASE Ignored(i)
  BY <1>13, Zenon DEF Ignored, Turn, Turns
<1>14. CASE Refused(i)
  BY <1>14, Zenon DEF Refused, Turns
<1>15. QED
  BY <1>1, <1>2, <1>3, <1>4, <1>5, <1>6, <1>7, <1>8, <1>9, <1>10, <1>11, <1>12, <1>13, <1>14

-----------------------------------------------------------------------------
(* The types, and the dealing out of instructions.                         *)
StaticTypeOK ==
  /\ file \in StaticPrograms
  /\ fun_inst \in Seq(Nat)
  /\ inst_list \in Seq(Seq(Nat))
  /\ current \in 0 .. Len(inst_list) + 1
  /\ current = 0 => Len(inst_list) < Len(file.blocks)
  /\ current # 0 => Len(inst_list) = Len(file.blocks)

(* What the blocks so far have is what is inside them, and the list has    *)
(* the rest.                                                               *)
Dealt ==
  Divided =>
    /\ InOrder(fun_inst)
    /\ Addresses(fun_inst) =
         { a \in Addresses(file.lines) : \A k \in DOMAIN inst_list : ~ Inside(a, file.blocks[k]) }
    /\ \A k \in DOMAIN inst_list :
         InOrder(inst_list[k]) /\ Addresses(inst_list[k]) = Within(file.blocks[k])

BlocksInv == StaticTypeOK /\ Dealt

ProgramsOK == \A p \in StaticPrograms : StaticProgram(p)

LEMMA FileType ==
  ASSUME ProgramsOK, file \in StaticPrograms
  PROVE  /\ file.lines \in Seq(Nat)
         /\ file.blocks \in Seq(Block)
         /\ Len(file.blocks) \in Nat \ {0} /\ DOMAIN file.blocks = 1 .. Len(file.blocks)
         /\ \A k \in 1 .. Len(file.blocks) : file.blocks[k] \in Block
<1>1. StaticProgram(file)
  BY DEF ProgramsOK
<1>2. /\ file.lines \in Seq(Nat)
      /\ file.blocks \in Seq(Block) /\ file.blocks # <<>>
  BY <1>1, Zenon DEF StaticProgram, Block
<1>3. QED
  BY <1>2

LEMMA BlocksInit ==
  ASSUME ProgramsOK, StaticInit
  PROVE  BlocksInv
<1>1. /\ file \in StaticPrograms /\ fun_inst = file.lines
      /\ inst_list = <<>> /\ current = 0
  BY DEF StaticInit, NotStarted
<1>2. file.lines \in Seq(Nat) /\ Len(file.blocks) \in Nat \ {0}
  BY <1>1, FileType
<1>3. StaticTypeOK
  BY <1>1, <1>2 DEF StaticTypeOK
<1>4. Dealt
  BY <1>1 DEF Dealt, Divided
<1>5. QED
  BY <1>3, <1>4 DEF BlocksInv

LEMMA DealStep ==
  ASSUME ProgramsOK, BlocksInv, InitBlock
  PROVE  BlocksInv'
<1> DEFINE n == Len(inst_list) + 1
           b == file.blocks[n]
           fun == fun_inst
           taken == Taken(fun, b)
           kept == Kept(fun, b)
<1>1. /\ file \in StaticPrograms /\ fun \in Seq(Nat) /\ inst_list \in Seq(Seq(Nat))
      /\ current = 0 /\ Len(inst_list) < Len(file.blocks)
      /\ file' = file
      /\ inst_list' = Append(inst_list, taken) /\ fun_inst' = kept
  BY DEF BlocksInv, StaticTypeOK, InitBlock, Taken, Kept
<1>2. /\ file.lines \in Seq(Nat)
      /\ Len(file.blocks) \in Nat \ {0} /\ DOMAIN file.blocks = 1 .. Len(file.blocks)
      /\ n \in 1 .. Len(file.blocks) /\ b \in Block
      /\ \A k \in 1 .. Len(file.blocks) : file.blocks[k] \in Block
  BY <1>1, FileType
<1>3. taken \in Seq(Nat) /\ kept \in Seq(Nat)
  BY <1>1, <1>2, TakenAndKept
<1>4. current' = IF Len(inst_list') = Len(file.blocks) THEN 1 ELSE 0
  BY <1>1 DEF InitBlock, StartBlock, blockVars
<1> HIDE DEF taken, kept
<1>5. /\ inst_list' \in Seq(Seq(Nat)) /\ Len(inst_list') = n
      /\ DOMAIN inst_list' = 1 .. n /\ DOMAIN inst_list = 1 .. n - 1
      /\ \A k \in 1 .. n - 1 : inst_list'[k] = inst_list[k]
      /\ inst_list'[n] = taken
  BY <1>1, <1>3
<1>6. StaticTypeOK'
  BY <1>1, <1>2, <1>3, <1>4, <1>5 DEF StaticTypeOK
<1>7. Dealt'
  <2> SUFFICES ASSUME Divided'
               PROVE  /\ InOrder(kept)
                      /\ Addresses(kept) =
                           { a \in Addresses(file.lines) : \A k \in 1 .. n : ~ Inside(a, file.blocks[k]) }
                      /\ \A k \in 1 .. n :
                           InOrder(inst_list'[k]) /\ Addresses(inst_list'[k]) = Within(file.blocks[k])
    BY <1>1, <1>5 DEF Dealt, Within
  <2>1. Divided
    BY <1>1 DEF Divided, Disjoint
  <2>2. /\ InOrder(fun)
        /\ Addresses(fun) =
             { a \in Addresses(file.lines) : \A k \in 1 .. n - 1 : ~ Inside(a, file.blocks[k]) }
        /\ \A k \in 1 .. n - 1 :
             InOrder(inst_list[k]) /\ Addresses(inst_list[k]) = Within(file.blocks[k])
    BY <1>5, <2>1 DEF BlocksInv, Dealt
  <2>3. \A k \in 1 .. n - 1 :
          file.blocks[k].end <= b.addr \/ b.end <= file.blocks[k].addr
    <3>1. \A j, k \in 1 .. Len(file.blocks) :
            j # k => file.blocks[j].end <= file.blocks[k].addr
                     \/ file.blocks[k].end <= file.blocks[j].addr
      BY <1>2, <2>1 DEF Divided, Disjoint
    <3>2. \A k \in 1 .. n - 1 : k \in 1 .. Len(file.blocks) /\ k # n
      BY <1>1, <1>2
    <3> HIDE DEF n
    <3>3. QED
      BY <1>2, <3>1, <3>2
  <2>4. \A k \in 1 .. n - 1 :
          /\ file.blocks[k].addr \in Nat /\ file.blocks[k].end \in Nat
    BY <1>1, <1>2, SMTT(20) DEF Block
  <2>5. b.addr \in Nat /\ b.end \in Nat /\ b.addr \in Addresses(file.lines)
    BY <1>2, <2>1 DEF Divided, Block
  <2>6. \A a \in Addresses(file.lines) : a \in Nat
    BY <1>2 DEF Addresses
  <2>7. Within(b) = { a \in Addresses(file.lines) : Inside(a, b) }
    BY DEF Within, Inside
  <2> HIDE DEF b
  (* A block that was dealt with has nothing that is inside this one.      *)
  <2>8. \A a \in Addresses(file.lines) :
          Inside(a, b) => \A k \in 1 .. n - 1 : ~ Inside(a, file.blocks[k])
    BY <2>3, <2>4, <2>5, <2>6 DEF Inside
  <2>9. CASE b.addr \in Addresses(fun)
    <3>1. /\ InOrder(taken) /\ InOrder(kept)
          /\ Addresses(taken) = { a \in Addresses(fun) : Inside(a, b) }
          /\ Addresses(kept) = { a \in Addresses(fun) : ~ Inside(a, b) }
      BY <1>1, <1>2, <2>2, <2>9, TakesInside DEF taken, kept, b
    <3>2. Addresses(taken) = Within(b)
      BY <2>2, <2>7, <2>8, <3>1
    <3>3. n \in 1 .. n /\ 1 .. n = 1 .. n - 1 \cup {n} /\ n \in Nat
      BY <1>1
    <3>4. Addresses(kept) =
            { a \in Addresses(file.lines) : \A k \in 1 .. n : ~ Inside(a, file.blocks[k]) }
      <4>1. b = file.blocks[n]
        BY DEF b
      <4> HIDE DEF n
      <4>2. QED
        BY <2>2, <3>1, <3>3, <4>1
    <3>5. ASSUME NEW k \in 1 .. n
          PROVE  InOrder(inst_list'[k]) /\ Addresses(inst_list'[k]) = Within(file.blocks[k])
      <4>1. CASE k = n
        BY <1>5, <3>1, <3>2, <4>1 DEF b
      <4>2. CASE k # n
        <5>1. k \in 1 .. n - 1 /\ inst_list'[k] = inst_list[k]
          BY <1>5, <3>3, <4>2
        <5>2. InOrder(inst_list[k]) /\ Addresses(inst_list[k]) = Within(file.blocks[k])
          BY <2>2, <5>1
        <5>3. QED
          BY <5>1, <5>2, Zenon
      <4>3. QED
        BY <4>1, <4>2
    <3>6. QED
      BY <3>1, <3>4, <3>5
  (* Its first instruction is another block's only if it has none.         *)
  <2>10. CASE b.addr \notin Addresses(fun)
    <3>1. taken = <<>> /\ kept = fun
      BY <1>1, <1>2, <2>10, TakesNothing DEF taken, kept, b
    <3>2. PICK j \in 1 .. n - 1 : Inside(b.addr, file.blocks[j])
      BY <2>2, <2>5, <2>10
    <3>3. b.end <= b.addr
      <4>1. file.blocks[j].end <= b.addr \/ b.end <= file.blocks[j].addr
        BY <2>3
      <4>2. file.blocks[j].addr <= b.addr /\ b.addr < file.blocks[j].end
        BY <3>2 DEF Inside
      <4>3. file.blocks[j].addr \in Nat /\ file.blocks[j].end \in Nat
        BY <2>4
      <4>4. QED
        BY <2>5, <4>1, <4>2, <4>3
    <3>4. \A a \in Addresses(file.lines) : ~ Inside(a, b)
      BY <2>5, <2>6, <3>3 DEF Inside
    <3>5. InOrder(taken) /\ Addresses(taken) = Within(b)
      BY <2>7, <3>1, <3>4 DEF InOrder, Addresses
    <3>6. n \in 1 .. n /\ 1 .. n = 1 .. n - 1 \cup {n} /\ n \in Nat
      <4>1. n \in Nat \ {0}
        BY <1>1
      <4> HIDE DEF n
      <4>2. QED
        BY <4>1
    <3>7. Addresses(kept) =
            { a \in Addresses(file.lines) : \A k \in 1 .. n : ~ Inside(a, file.blocks[k]) }
      <4>1. b = file.blocks[n]
        BY DEF b
      <4> HIDE DEF n
      <4>2. QED
        BY <2>2, <3>1, <3>4, <3>6, <4>1
    <3>8. ASSUME NEW k \in 1 .. n
          PROVE  InOrder(inst_list'[k]) /\ Addresses(inst_list'[k]) = Within(file.blocks[k])
      <4>1. CASE k = n
        BY <1>5, <3>5, <4>1 DEF b
      <4>2. CASE k # n
        <5>1. k \in 1 .. n - 1 /\ inst_list'[k] = inst_list[k]
          BY <1>5, <3>6, <4>2
        <5>2. InOrder(inst_list[k]) /\ Addresses(inst_list[k]) = Within(file.blocks[k])
          BY <2>2, <5>1
        <5>3. QED
          BY <5>1, <5>2, Zenon
      <4>3. QED
        BY <4>1, <4>2
    <3>9. QED
      BY <2>2, <3>1, <3>7, <3>8
  <2>11. QED
    BY <2>9, <2>10
<1>8. QED
  BY <1>6, <1>7 DEF BlocksInv

LEMMA BlocksStep ==
  ASSUME ProgramsOK, BlocksInv, [StaticNext]_staticVars
  PROVE  BlocksInv'
<1>1. CASE InitBlock
  BY <1>1, DealStep
<1>2. ASSUME UNCHANGED <<file, fun_inst, inst_list>>,
             current' = current \/ (Running /\ current' = current + 1)
      PROVE  BlocksInv'
  <2>1. Dealt'
    BY <1>2 DEF BlocksInv, Dealt, Divided, Disjoint, Within
  <2>2. StaticTypeOK'
    BY <1>2 DEF BlocksInv, StaticTypeOK, Running
  <2>3. QED
    BY <2>1, <2>2 DEF BlocksInv
<1>3. CASE NextBlock
  BY <1>2, <1>3 DEF NextBlock, StartBlock
<1>4. CASE Instruction
  BY <1>2, <1>4, InstructionKeepsLists
<1>5. CASE UNCHANGED staticVars
  BY <1>2, <1>5 DEF staticVars, blockVars
<1>6. QED
  BY <1>1, <1>3, <1>4, <1>5, Zenon DEF StaticNext, Instruction

(* The engine's lists stay lists of addresses, and its blocks are run one  *)
(* after the other, when all are dealt out.                                *)
THEOREM StaticTyped ==
  ASSUME ProgramsOK
  PROVE  StaticSpec => []StaticTypeOK
<1>1. StaticInit => BlocksInv
  BY BlocksInit
<1>2. BlocksInv /\ [StaticNext]_staticVars => BlocksInv'
  BY BlocksStep
<1>3. BlocksInv => StaticTypeOK
  BY DEF BlocksInv
<1>4. QED
  BY <1>1, <1>2, <1>3, PTL DEF StaticSpec

(* Blocks that divide a program get their instructions, all of them, and   *)
(* in its order.                                                           *)
THEOREM BlocksAreExact ==
  ASSUME ProgramsOK
  PROVE  StaticSpec => []BlocksExact
<1>1. StaticInit => BlocksInv
  BY BlocksInit
<1>2. BlocksInv /\ [StaticNext]_staticVars => BlocksInv'
  BY BlocksStep
<1>3. BlocksInv => BlocksExact
  <2> SUFFICES ASSUME BlocksInv, current # 0, Divided, NEW k \in DOMAIN file.blocks
               PROVE  InOrder(inst_list[k]) /\ Addresses(inst_list[k]) = Within(file.blocks[k])
    BY DEF BlocksExact
  <2>1. inst_list \in Seq(Seq(Nat)) /\ Len(inst_list) = Len(file.blocks)
        /\ DOMAIN file.blocks = 1 .. Len(file.blocks)
    BY FileType DEF BlocksInv, StaticTypeOK
  <2>2. k \in DOMAIN inst_list
    BY <2>1
  <2>3. QED
    BY <2>2 DEF BlocksInv, Dealt
<1>4. QED
  BY <1>1, <1>2, <1>3, PTL DEF StaticSpec

-----------------------------------------------------------------------------
(* Bytes, whatever they are: f has n of them.                              *)
Bytewise(f, n) == f = [k \in 1 .. n |-> f[k]]

(* The first n are the same.                                               *)
Agree(f, g, n) == \A k \in 1 .. n : f[k] = g[k]

LEMMA BytesAreSeq ==
  ASSUME NEW n \in Nat, NEW f, Bytewise(f, n)
  PROVE  Len(f) = n /\ \A S : (\A k \in 1 .. n : f[k] \in S) => f \in Seq(S)
BY DEF Bytewise

LEMMA Prefix ==
  ASSUME NEW f, NEW m \in Nat, NEW n \in Nat, m <= n + 1
  PROVE  /\ Bytewise(SubSeq(f, m, n), n - m + 1)
         /\ \A k \in 1 .. n - m + 1 : SubSeq(f, m, n)[k] = f[m + k - 1]
<1> DEFINE S == { f[k] : k \in m .. n }
<1>1. \A k \in m .. n : f[k] \in S
  OBVIOUS
<1> HIDE DEF S
<1>2. /\ SubSeq(f, m, n) \in Seq(S)
      /\ Len(SubSeq(f, m, n)) = IF m <= n THEN n - m + 1 ELSE 0
      /\ \A k \in 1 .. n - m + 1 : SubSeq(f, m, n)[k] = f[m + k - 1]
  BY <1>1, SubSeqProperties
<1>3. n - m + 1 = (IF m <= n THEN n - m + 1 ELSE 0) /\ n - m + 1 \in Nat
  OBVIOUS
<1>4. PICK s \in Seq(S) : s = SubSeq(f, m, n)
  BY <1>2
<1>5. Len(s) = n - m + 1
  BY <1>2, <1>3, <1>4
<1>6. s = [k \in 1 .. n - m + 1 |-> s[k]]
  BY <1>3, <1>5
<1>7. QED
  BY <1>2, <1>4, <1>6 DEF Bytewise

LEMMA FirstBytes ==
  ASSUME NEW f, NEW n \in Nat
  PROVE  Bytewise(SubSeq(f, 1, n), n) /\ Agree(SubSeq(f, 1, n), f, n)
<1>1. 1 \in Nat /\ 1 <= n + 1 /\ n - 1 + 1 = n /\ \A k \in 1 .. n : 1 + k - 1 = k
  OBVIOUS
<1>2. /\ Bytewise(SubSeq(f, 1, n), n - 1 + 1)
      /\ \A k \in 1 .. n - 1 + 1 : SubSeq(f, 1, n)[k] = f[1 + k - 1]
  BY <1>1, Prefix, Zenon
<1>3. QED
  BY <1>1, <1>2 DEF Agree

LEMMA Joined ==
  ASSUME NEW m \in Nat, NEW n \in Nat, NEW f, NEW g, Bytewise(f, m), Bytewise(g, n)
  PROVE  Bytewise(f \o g, m + n) /\ Agree(f \o g, f, m)
<1> DEFINE S == { f[k] : k \in 1 .. m } \cup { g[k] : k \in 1 .. n }
<1>1. (\A k \in 1 .. m : f[k] \in S) /\ (\A k \in 1 .. n : g[k] \in S)
  OBVIOUS
<1> HIDE DEF S
<1>2. f \in Seq(S) /\ Len(f) = m /\ g \in Seq(S) /\ Len(g) = n
  BY <1>1, BytesAreSeq
<1>3. /\ f \o g \in Seq(S) /\ Len(f \o g) = m + n
      /\ \A k \in 1 .. m + n : (f \o g)[k] = IF k <= m THEN f[k] ELSE g[k - m]
  BY <1>2, ConcatProperties
<1>4. PICK s \in Seq(S) : s = f \o g
  BY <1>3
<1>5. s = [k \in 1 .. m + n |-> s[k]]
  <2>1. DOMAIN s = 1 .. m + n
    <3>1. Len(s) = m + n
      BY <1>3, <1>4
    <3>2. QED
      BY <3>1
  <2>2. s = [k \in DOMAIN s |-> s[k]]
    OBVIOUS
  <2>3. QED
    BY <2>1, <2>2
<1>6. Bytewise(f \o g, m + n)
  BY <1>4, <1>5 DEF Bytewise
<1>7. ASSUME NEW k \in 1 .. m PROVE (f \o g)[k] = f[k]
  <2>1. k \in 1 .. m + n /\ k <= m
    OBVIOUS
  <2>2. QED
    BY <1>3, <2>1
<1>8. Agree(f \o g, f, m)
  BY <1>7, Zenon DEF Agree
<1>9. QED
  BY <1>6, <1>8

(* The first n bytes of a cell.                                            *)
LEMMA ReadMemIs ==
  ASSUME NEW cells, NEW text, NEW n \in {0, 1, 2, 4}
  PROVE  Bytewise(ReadMem(cells, text, n), n) /\ Agree(ReadMem(cells, text, n), cells[text], n)
<1> DEFINE f == cells[text]
<1>1. (1 - 1) \div 8 + 1 = 1 /\ (8 * n) \div 8 = n /\ n \in Nat
  OBVIOUS
<1>2. ReadMem(cells, text, n) = SubSeq(f, 1, n)
  BY <1>1, Zenon DEF ReadMem, Extract
<1> HIDE DEF f
<1>3. Bytewise(SubSeq(f, 1, n), n) /\ Agree(SubSeq(f, 1, n), f, n)
  BY <1>1, FirstBytes
<1>4. QED
  BY <1>2, <1>3, Zenon DEF f

-----------------------------------------------------------------------------
(* Registers and their parts.                                              *)
Names == Reg32 \cup Reg16 \cup Reg8

Size(name) == IF name \in Reg32 THEN 4 ELSE IF name \in Reg16 THEN 2 ELSE 1

LEMMA BitsOf ==
  ASSUME NEW name \in Names
  PROVE  \/ FirstBit(name) = 1 /\ LastBit(name) = 32 /\ Size(name) = 4
         \/ FirstBit(name) = 1 /\ LastBit(name) = 16 /\ Size(name) = 2
         \/ FirstBit(name) = 9 /\ LastBit(name) = 16 /\ Size(name) = 1
         \/ FirstBit(name) = 1 /\ LastBit(name) = 8 /\ Size(name) = 1
<1>1. CASE name \in Reg32
  BY <1>1 DEF FirstBit, LastBit, High, Size, Reg32, Reg16, Reg8
<1>2. CASE name \in Reg16
  BY <1>2 DEF FirstBit, LastBit, High, Size, Reg32, Reg16, Reg8
<1>3. CASE name \in Reg8
  BY <1>3 DEF FirstBit, LastBit, High, Size, Reg32, Reg16, Reg8
<1>4. QED
  BY <1>1, <1>2, <1>3 DEF Names

LEMMA ReadRegSize ==
  ASSUME NEW regs, NEW name \in Names
  PROVE  Bytewise(ReadReg(regs, name), Size(name))
<1> DEFINE f == regs[Owner(name)]
           m == (FirstBit(name) - 1) \div 8 + 1
           n == LastBit(name) \div 8
<1>1. ReadReg(regs, name) = SubSeq(f, m, n)
  BY DEF ReadReg, Extract
<1>2. m \in Nat /\ n \in Nat /\ m <= n + 1 /\ n - m + 1 = Size(name)
  BY BitsOf
<1> HIDE DEF f, m, n
<1>3. QED
  BY <1>1, <1>2, Prefix

(* Whole registers.                                                        *)
InDwords(regs) == \A r \in DOMAIN regs : Bytewise(regs[r], 4)

LEMMA WriteRegWords ==
  ASSUME NEW regs, NEW name \in Names, NEW f, InDwords(regs), Bytewise(f, Size(name))
  PROVE  InDwords(WriteReg(regs, name, f)) /\ DOMAIN WriteReg(regs, name, f) = DOMAIN regs
<1> DEFINE old == regs[Owner(name)]
           m == (FirstBit(name) - 1) \div 8
           n == LastBit(name) \div 8
           lower == SubSeq(old, 1, m)
           upper == SubSeq(old, n + 1, 4)
<1>1. /\ (1 - 1) \div 8 + 1 = 1 /\ 32 \div 8 = 4
      /\ ((LastBit(name) + 1) - 1) \div 8 + 1 = n + 1
      /\ m \in 0 .. 1 /\ n \in 1 .. 4 /\ m + Size(name) = n /\ Size(name) \in Nat
  BY BitsOf
<1>2. WriteReg(regs, name, f) = [regs EXCEPT ![Owner(name)] = (lower \o f) \o upper]
  BY <1>1 DEF WriteReg, Extract, Concat
<1> HIDE DEF old, m, n
<1>3. /\ 1 <= m + 1 /\ m - 1 + 1 = m
      /\ n + 1 <= 4 + 1 /\ 4 \in Nat /\ 4 - (n + 1) + 1 = 4 - n
      /\ m \in Nat /\ n + 1 \in Nat /\ 4 - n \in Nat /\ n + (4 - n) = 4 /\ n \in Nat
  BY <1>1
<1>4. Bytewise(lower, m)
  BY <1>3, FirstBytes
<1>5. Bytewise(upper, 4 - n)
  <2>1. Bytewise(upper, 4 - (n + 1) + 1)
    BY <1>3, Prefix, Zenon
  <2>2. QED
    BY <1>3, <2>1
<1> HIDE DEF lower, upper
<1>6. Bytewise(lower \o f, n)
  BY <1>1, <1>3, <1>4, Joined
<1>7. Bytewise((lower \o f) \o upper, 4)
  BY <1>3, <1>5, <1>6, Joined
<1>8. QED
  BY <1>2, <1>7 DEF InDwords

(* esp is written as a whole.                                              *)
LEMMA WriteEsp ==
  ASSUME NEW regs, NEW f, Bytewise(f, 4)
  PROVE  WriteReg(regs, "esp", f) = [regs EXCEPT !["esp"] = f]
<1> DEFINE old == regs["esp"]
<1>1. Owner("esp") = "esp" /\ FirstBit("esp") = 1 /\ LastBit("esp") = 32
  BY DEF Owner, FirstBit, LastBit, High, Reg32, Reg16
<1>2. /\ ((32 + 1) - 1) \div 8 + 1 = 5 /\ 32 \div 8 = 4
      /\ (1 - 1) \div 8 + 1 = 1 /\ (1 - 1) \div 8 = 0
  OBVIOUS
<1>3. WriteReg(regs, "esp", f) =
        [regs EXCEPT !["esp"] = (SubSeq(old, 1, 0) \o f) \o SubSeq(old, 5, 4)]
  BY <1>1, <1>2, Zenon DEF WriteReg, Extract, Concat
<1>4. SubSeq(old, 1, 0) = <<>> /\ SubSeq(old, 5, 4) = <<>>
  BY SubSeqEmpty
<1> DEFINE S == { f[k] : k \in 1 .. 4 }
<1>5. f \in Seq(S)
  BY BytesAreSeq
<1> HIDE DEF S
<1>6. <<>> \o f = f /\ f \o <<>> = f
  BY <1>5, ConcatEmptySeq
<1>7. QED
  BY <1>3, <1>4, <1>6

LEMMA SumIsWord ==
  ASSUME NEW f, NEW n
  PROVE  Bytewise(Sum(f, n), 4)
<1>1. \A base, off : Bytewise(Value(base, off), 4)
  BY DEF Bytewise, Value
<1>2. QED
  BY <1>1, Zenon DEF Sum

-----------------------------------------------------------------------------
(* What the disassembler prints has one size: of the text of an operand,   *)
(* that of its keyword or register.                                        *)
TextSize(text) ==
  IF text \in {NoText, StackText} THEN 4 ELSE Bytes(CreateOperandStatic(text))

LEMMA OperandFacts ==
  ASSUME NEW t
  PROVE  LET o == CreateOperandStatic(t)
         IN  /\ o.type = "Mem" <=> Has(t, {"addr"})
             /\ o.bit \in {0, 8, 16, 32}
             /\ o.type = "Imm" => o.bit = 32
             /\ o.type = "Reg" => o.name \in Names /\ o.bit = 8 * Size(o.name)
             /\ o.type \in {"Reg", "Imm", "Mem"} => t \notin {NoText, StackText}
             /\ o.bit # 0 => t \notin {NoText, StackText}
<1> DEFINE o == CreateOperandStatic(t)
           names == NamesIn(t)
<1>1. CASE Has(t, {"addr"})
  <2>1. o = MemOperand(SizeBits(t.size), CreateAddrOperandStatic(t.addr))
    BY <1>1 DEF CreateOperandStatic
  <2>2. o.type = "Mem" /\ o.bit = SizeBits(t.size)
    BY <2>1 DEF MemOperand
  <2>3. SizeBits(t.size) \in {0, 8, 16, 32}
    BY DEF SizeBits
  <2>4. t \notin {NoText, StackText}
    BY <1>1 DEF Has, NoText, StackText
  <2>5. QED
    BY <1>1, <2>2, <2>3, <2>4
<1>2. CASE ~ Has(t, {"addr"})
  <2>1. o = CreateDataOperand(t)
    BY <1>2 DEF CreateOperandStatic
  <2> HIDE DEF o
  <2>2. CASE names \cap Reg32 # {}
    <3>1. o = Reg(32, names \cap Reg32)
      BY <2>1, <2>2 DEF CreateDataOperand
    <3>2. o.type = "Reg" /\ o.bit = 32 /\ o.name \in Reg32
      BY <2>2, <3>1 DEF Reg
    <3>3. t \notin {NoText, StackText}
      BY <2>2 DEF NamesIn, Has, NoText, StackText
    <3>4. QED
      BY <1>2, <3>2, <3>3 DEF Names, Size, o
  <2>3. CASE names \cap Reg32 = {} /\ names \cap Reg16 # {}
    <3>1. o = Reg(16, names \cap Reg16)
      BY <2>1, <2>3 DEF CreateDataOperand
    <3>2. o.type = "Reg" /\ o.bit = 16 /\ o.name \in Reg16
      BY <2>3, <3>1 DEF Reg
    <3>3. t \notin {NoText, StackText}
      BY <2>3 DEF NamesIn, Has, NoText, StackText
    <3>4. o.name \notin Reg32
      BY <3>2 DEF Reg32, Reg16
    <3>5. QED
      BY <1>2, <3>2, <3>3, <3>4 DEF Names, Size, o
  <2>4. CASE names \cap Reg32 = {} /\ names \cap Reg16 = {} /\ names \cap Reg8 # {}
    <3>1. o = Reg(8, names \cap Reg8)
      BY <2>1, <2>4 DEF CreateDataOperand
    <3>2. o.type = "Reg" /\ o.bit = 8 /\ o.name \in Reg8
      BY <2>4, <3>1 DEF Reg
    <3>3. t \notin {NoText, StackText}
      BY <2>4 DEF NamesIn, Has, NoText, StackText
    <3>4. o.name \notin Reg32 /\ o.name \notin Reg16
      BY <3>2 DEF Reg32, Reg16, Reg8
    <3>5. QED
      BY <1>2, <3>2, <3>3, <3>4 DEF Names, Size, o
  <2>5. CASE names \cap Reg32 = {} /\ names \cap Reg16 = {} /\ names \cap Reg8 = {}
    <3>1. CASE Has(t, {"imm"})
      <4>1. o = [type |-> "Imm", bit |-> 32, imm |-> t.imm]
        BY <2>1, <2>5, <3>1 DEF CreateDataOperand
      <4>2. o.type = "Imm" /\ o.bit = 32
        BY <4>1
      <4>3. t \notin {NoText, StackText}
        BY <3>1 DEF Has, NoText, StackText
      <4>4. QED
        BY <1>2, <4>2, <4>3 DEF o
    <3>2. CASE ~ Has(t, {"imm"})
      <4>1. o = [type |-> "Unknown", bit |-> 0]
        BY <2>1, <2>5, <3>2 DEF CreateDataOperand
      <4>2. o.type = "Unknown" /\ o.bit = 0
        BY <4>1
      <4>3. QED
        BY <1>2, <4>2 DEF o
    <3>3. QED
      BY <3>1, <3>2
  <2>6. QED
    BY <2>2, <2>3, <2>4, <2>5
<1>3. QED
  BY <1>1, <1>2

LEMMA TextSizes ==
  /\ TextSize(NoText) = 4 /\ TextSize(StackText) = 4
  /\ \A t : LET o == CreateOperandStatic(t)
            IN  /\ o.type \in {"Reg", "Imm", "Mem"} \/ o.bit # 0 => TextSize(t) = Bytes(o)
                /\ Bytes(o) \in {0, 1, 2, 4}
                /\ o.bit = 32 <=> Bytes(o) = 4
                /\ o.type = "Imm" => Bytes(o) = 4
                /\ o.type = "Reg" => o.name \in Names /\ Bytes(o) = Size(o.name)
<1>1. TextSize(NoText) = 4 /\ TextSize(StackText) = 4
  BY DEF TextSize
<1>2. ASSUME NEW t
      PROVE  LET o == CreateOperandStatic(t)
            IN  /\ o.type \in {"Reg", "Imm", "Mem"} \/ o.bit # 0 => TextSize(t) = Bytes(o)
                /\ Bytes(o) \in {0, 1, 2, 4}
                /\ o.bit = 32 <=> Bytes(o) = 4
                /\ o.type = "Imm" => Bytes(o) = 4
                /\ o.type = "Reg" => o.name \in Names /\ Bytes(o) = Size(o.name)
  <2> DEFINE o == CreateOperandStatic(t)
  <2>1. /\ o.bit \in {0, 8, 16, 32}
        /\ o.type = "Imm" => o.bit = 32
        /\ o.type = "Reg" => o.name \in Names /\ o.bit = 8 * Size(o.name)
        /\ o.type \in {"Reg", "Imm", "Mem"} \/ o.bit # 0 => t \notin {NoText, StackText}
    BY OperandFacts
  <2>2. o.type \in {"Reg", "Imm", "Mem"} \/ o.bit # 0 => TextSize(t) = Bytes(o)
    BY <2>1 DEF TextSize
  <2> HIDE DEF o
  <2>3. /\ 0 \div 8 = 0 /\ 8 \div 8 = 1 /\ 16 \div 8 = 2 /\ 32 \div 8 = 4
    OBVIOUS
  <2>4. \/ o.bit = 0 /\ Bytes(o) = 0
        \/ o.bit = 8 /\ Bytes(o) = 1
        \/ o.bit = 16 /\ Bytes(o) = 2
        \/ o.bit = 32 /\ Bytes(o) = 4
    BY <2>1, <2>3 DEF Bytes
  <2>5. o.type = "Reg" => Size(o.name) \in {1, 2, 4}
    BY <2>1 DEF Size
  <2>6. o.type = "Reg" => o.name \in Names /\ Bytes(o) = Size(o.name)
    BY <2>1, <2>4, <2>5
  <2>7. QED
    BY <2>1, <2>2, <2>4, <2>6 DEF o
<1>3. QED
  BY <1>1, <1>2

(* The text an instruction goes by.                                        *)
LEMMA AddressText ==
  ASSUME NEW i
  PROVE  /\ i.oprs = <<>> => MemoryAddress(i) = NoText
         /\ i.oprs = <<i.oprs[1]>> => MemoryAddress(i) = i.oprs[1]
         /\ i.oprs = <<i.oprs[1], i.oprs[2]>> =>
              /\ Has(i.oprs[1], {"addr"}) /\ ~ Has(i.oprs[2], {"addr"})
                   => MemoryAddress(i) = i.oprs[1]
              /\ ~ Has(i.oprs[1], {"addr"}) /\ Has(i.oprs[2], {"addr"})
                   => MemoryAddress(i) = i.oprs[2]
<1>1. CASE i.oprs = <<>>
  <2>1. DOMAIN i.oprs = {}
    BY <1>1
  <2>2. QED
    BY <1>1, <2>1 DEF MemoryAddress
<1>2. CASE i.oprs = <<i.oprs[1]>>
  <2> DEFINE t == i.oprs[1]
  <2>1. DOMAIN i.oprs = {1} /\ Len(i.oprs) = 1 /\ i.oprs # <<>>
    <3> HIDE DEF t
    <3>1. DOMAIN <<t>> = {1} /\ Len(<<t>>) = 1 /\ <<t>> # <<>>
      OBVIOUS
    <3>2. i.oprs = <<t>>
      BY <1>2 DEF t
    <3>3. QED
      BY <3>1, <3>2
  <2>2. MemoryAddress(i) = i.oprs[1]
    BY <2>1 DEF MemoryAddress
  <2>3. QED
    BY <2>1, <2>2
<1>3. CASE i.oprs = <<i.oprs[1], i.oprs[2]>>
  <2> DEFINE t == i.oprs[1]
             u == i.oprs[2]
  <2>1. DOMAIN i.oprs = {1, 2}
    <3> HIDE DEF t, u
    <3>1. DOMAIN <<t, u>> = {1, 2}
      OBVIOUS
    <3>2. i.oprs = <<t, u>>
      BY <1>3 DEF t, u
    <3>3. QED
      BY <3>1, <3>2
  <2>2. ASSUME Has(t, {"addr"}), ~ Has(u, {"addr"}) PROVE MemoryAddress(i) = t
    <3>1. \E k \in DOMAIN i.oprs : Has(i.oprs[k], {"addr"})
      BY <2>1, <2>2
    <3>2. (CHOOSE k \in DOMAIN i.oprs : Has(i.oprs[k], {"addr"})) = 1
      BY <2>1, <2>2
    <3>3. QED
      BY <3>1, <3>2 DEF MemoryAddress
  <2>3. ASSUME ~ Has(t, {"addr"}), Has(u, {"addr"}) PROVE MemoryAddress(i) = u
    <3>1. \E k \in DOMAIN i.oprs : Has(i.oprs[k], {"addr"})
      BY <2>1, <2>3
    <3>2. (CHOOSE k \in DOMAIN i.oprs : Has(i.oprs[k], {"addr"})) = 2
      BY <2>1, <2>3
    <3>3. QED
      BY <3>1, <3>2 DEF MemoryAddress
  <2>4. i.oprs # <<>> /\ i.oprs # <<i.oprs[1]>>
    BY <2>1
  <2>5. QED
    BY <2>2, <2>3, <2>4
<1>4. QED
  BY <1>1, <1>2, <1>3

-----------------------------------------------------------------------------
(* Cells, by text, that are the memory at the places of their texts; the   *)
(* rest of memory is as it was when the block started.                     *)
IsPlace(p) ==
  /\ p = Place(p.text, p.at, p.size)
  /\ p.at \in Nat /\ p.size \in {1, 2, 4} /\ p.at + p.size <= Space
  /\ p.size = TextSize(p.text)

Covers(p, b) == b \in p.at .. p.at + p.size - 1

Matching(cells, places, mem) ==
  /\ mem = [b \in 0 .. Space - 1 |-> mem[b]]
  /\ DOMAIN cells = { p.text : p \in places }
  /\ \A p \in places :
       IsPlace(p) /\ \A k \in 1 .. p.size : cells[p.text][k] = mem[p.at + k - 1]
  /\ \A b \in 0 .. Space - 1 : (\A p \in places : ~ Covers(p, b)) => mem[b] = InitialByte(b)

Unique(places) ==
  \A p \in places, q \in places :
    /\ Overlap(p, q) <=> p.text = q.text
    /\ p.text = q.text => p.at = q.at

(* The engine is the processor.                                            *)
Same ==
  /\ machine = [reg |-> m_ctx, mem |-> machine.mem]
  /\ DOMAIN m_ctx = DOMAIN file.place /\ InDwords(m_ctx)
  /\ Matching(m_memory, named, machine.mem)

Exactly ==
  /\ current = 0 => m_memory = [t \in {} |-> <<>>]
  /\ (current # 0 /\ faithful /\ Unique(named)) => Same

StoredIn(mem, a, f) ==
  [b \in 0 .. Space - 1 |-> IF b \in a .. a + Len(f) - 1 THEN f[b - a + 1] ELSE mem[b]]

(* A text that had no cell names bytes that were not written yet.          *)
LEMMA ReadStep ==
  ASSUME Space \in Nat,
         NEW cells, NEW places, NEW mem, NEW P,
         Matching(cells, places, mem), IsPlace(P), Unique(places \cup {P})
  PROVE  /\ Matching(Entered(cells, P.text, P.at), places \cup {P}, mem)
         /\ \A k \in 1 .. P.size : Entered(cells, P.text, P.at)[P.text][k] = mem[P.at + k - 1]
         /\ \A k \in 1 .. P.size : P.at + k - 1 \in 0 .. Space - 1
<1> DEFINE new == Entered(cells, P.text, P.at)
<1>1. /\ P.at \in Nat /\ P.size \in {1, 2, 4} /\ P.at + P.size <= Space
      /\ P.size = TextSize(P.text)
  BY DEF IsPlace
<1>2. \A k \in 1 .. P.size : P.at + k - 1 \in 0 .. Space - 1
  BY <1>1
<1>3. /\ DOMAIN cells = { p.text : p \in places }
      /\ \A p \in places :
           IsPlace(p) /\ \A k \in 1 .. p.size : cells[p.text][k] = mem[p.at + k - 1]
      /\ \A b \in 0 .. Space - 1 : (\A p \in places : ~ Covers(p, b)) => mem[b] = InitialByte(b)
  BY DEF Matching
<1>4. /\ DOMAIN new = DOMAIN cells \cup {P.text}
      /\ \A t \in DOMAIN cells : new[t] = cells[t]
      /\ P.text \notin DOMAIN cells => new[P.text] = InitialWord(P.at)
  BY DEF Entered
<1> HIDE DEF new
<1>5. \A k \in 1 .. P.size : new[P.text][k] = mem[P.at + k - 1]
  <2>1. CASE P.text \in DOMAIN cells
    <3>1. PICK q \in places : q.text = P.text
      BY <1>3, <2>1
    <3>2. q.at = P.at
      BY <3>1 DEF Unique
    <3>3. q.size = P.size
      BY <1>1, <1>3, <3>1 DEF IsPlace
    <3>4. \A k \in 1 .. q.size : cells[q.text][k] = mem[q.at + k - 1]
      BY <1>3
    <3>5. new[P.text] = cells[P.text]
      BY <1>4, <2>1
    <3>6. QED
      BY <3>1, <3>2, <3>3, <3>4, <3>5
  <2>2. CASE P.text \notin DOMAIN cells
    <3>1. ASSUME NEW k \in 1 .. P.size
          PROVE  mem[P.at + k - 1] = InitialByte(P.at + k - 1)
      <4>1. ASSUME NEW q \in places PROVE ~ Covers(q, P.at + k - 1)
        <5>1. q.text # P.text
          BY <1>3, <2>2
        <5>2. ~ Overlap(P, q)
          BY <5>1 DEF Unique
        <5>3. q.at \in Nat /\ q.size \in {1, 2, 4}
          BY <1>3 DEF IsPlace
        <5>4. QED
          BY <1>1, <5>2, <5>3 DEF Overlap, Covers
      <4>2. QED
        BY <1>2, <1>3, <4>1
    <3>2. ASSUME NEW k \in 1 .. P.size
          PROVE  InitialWord(P.at)[k] = InitialByte(P.at + k - 1)
      <4>1. k \in 1 .. 4
        BY <1>1
      <4>2. QED
        BY <4>1 DEF InitialWord
    <3>3. QED
      BY <1>4, <2>2, <3>1, <3>2
  <2>3. QED
    BY <2>1, <2>2
<1>6. Matching(new, places \cup {P}, mem)
  <2>1. mem = [b \in 0 .. Space - 1 |-> mem[b]]
    BY DEF Matching
  <2>2. DOMAIN new = { p.text : p \in places \cup {P} }
    BY <1>3, <1>4
  <2>3. ASSUME NEW p \in places \cup {P}
        PROVE  IsPlace(p) /\ \A k \in 1 .. p.size : new[p.text][k] = mem[p.at + k - 1]
    <3>1. CASE p = P
      BY <1>5, <3>1
    <3>2. CASE p \in places
      <4>1. new[p.text] = cells[p.text]
        BY <1>3, <1>4, <3>2
      <4>2. QED
        BY <1>3, <3>2, <4>1
    <3>3. QED
      BY <3>1, <3>2
  <2>4. \A b \in 0 .. Space - 1 :
          (\A p \in places \cup {P} : ~ Covers(p, b)) => mem[b] = InitialByte(b)
    BY <1>3
  <2>5. QED
    BY <2>1, <2>2, <2>3, <2>4 DEF Matching
<1>7. QED
  BY <1>2, <1>5, <1>6 DEF new

(* A write under a text changes the bytes it names, and they are no other  *)
(* text's.                                                                 *)
LEMMA WriteStep ==
  ASSUME Space \in Nat,
         NEW cells, NEW places, NEW mem, NEW P, NEW f,
         Matching(cells, places, mem), IsPlace(P), Unique(places \cup {P}),
         Bytewise(f, P.size)
  PROVE  Matching(WriteMem(cells, P.text, P.at, f), places \cup {P}, StoredIn(mem, P.at, f))
<1> DEFINE old == Entered(cells, P.text, P.at)
           new == WriteMem(cells, P.text, P.at, f)
           mem2 == StoredIn(mem, P.at, f)
           n == P.size
<1>1. /\ P.at \in Nat /\ n \in {1, 2, 4} /\ P.at + n <= Space
  BY DEF IsPlace
<1>2. Len(f) = n
  <2>1. n \in Nat
    BY <1>1
  <2>2. QED
    BY <2>1, BytesAreSeq
<1>3. Matching(old, places \cup {P}, mem)
  BY ReadStep
<1>4. /\ DOMAIN new = DOMAIN old
      /\ \A t \in DOMAIN old : t # P.text => new[t] = old[t]
      /\ new[P.text] = IF n = 4 THEN f ELSE Concat(Extract(old[P.text], 1, 8 * n), f)
  <2>1. P.text \in DOMAIN old
    BY DEF Entered
  <2>2. new = [old EXCEPT ![P.text] = IF n = 4 THEN f ELSE Concat(Extract(@, 1, 8 * n), f)]
    BY <1>2 DEF WriteMem
  <2> HIDE DEF old, new
  <2>3. QED
    BY <2>1, <2>2
<1>5. \A k \in 1 .. n : new[P.text][k] = f[k]
  <2>1. CASE n = 4
    BY <1>4, <2>1
  <2>2. CASE n # 4
    <3>1. (1 - 1) \div 8 + 1 = 1 /\ (8 * n) \div 8 = n /\ n \in Nat
      BY <1>1
    <3>2. new[P.text] = f \o SubSeq(old[P.text], 1, n)
      BY <1>4, <2>2, <3>1, Zenon DEF Concat, Extract
    <3>3. Bytewise(SubSeq(old[P.text], 1, n), n)
      BY <3>1, FirstBytes
    <3>4. Agree(f \o SubSeq(old[P.text], 1, n), f, n)
      BY <3>1, <3>3, Joined
    <3>5. QED
      BY <3>2, <3>4 DEF Agree
  <2>3. QED
    BY <2>1, <2>2
<1>6. /\ mem2 = [b \in 0 .. Space - 1 |-> mem2[b]]
      /\ \A b \in 0 .. Space - 1 : ~ Covers(P, b) => mem2[b] = mem[b]
      /\ \A k \in 1 .. n : mem2[P.at + k - 1] = f[k]
  <2>1. mem2 = [b \in 0 .. Space - 1 |->
                  IF b \in P.at .. P.at + n - 1 THEN f[b - P.at + 1] ELSE mem[b]]
    BY <1>2 DEF StoredIn
  <2>2. \A k \in 1 .. n : /\ P.at + k - 1 \in 0 .. Space - 1
                          /\ P.at + k - 1 \in P.at .. P.at + n - 1
                          /\ (P.at + k - 1) - P.at + 1 = k
    BY <1>1
  <2> HIDE DEF mem2
  <2>3. \A b \in 0 .. Space - 1 : ~ Covers(P, b) => mem2[b] = mem[b]
    BY <2>1 DEF Covers
  <2>4. \A k \in 1 .. n : mem2[P.at + k - 1] = f[k]
    BY <2>1, <2>2
  <2>5. QED
    BY <2>1, <2>3, <2>4
<1> HIDE DEF new, old, mem2
<1>7. ASSUME NEW p \in places \cup {P}
      PROVE  IsPlace(p) /\ \A k \in 1 .. p.size : new[p.text][k] = mem2[p.at + k - 1]
  <2>1. IsPlace(p) /\ \A k \in 1 .. p.size : old[p.text][k] = mem[p.at + k - 1]
    BY <1>3 DEF Matching
  <2>2. p.at \in Nat /\ p.size \in {1, 2, 4} /\ p.at + p.size <= Space
    BY <2>1 DEF IsPlace
  <2>3. CASE p.text = P.text
    <3>1. p.at = P.at
      BY <2>3 DEF Unique
    <3>2. p.size = n
      BY <2>1, <2>3 DEF IsPlace
    <3>3. QED
      BY <1>5, <1>6, <2>1, <2>3, <3>1, <3>2
  <2>4. CASE p.text # P.text
    <3>1. ~ Overlap(p, P)
      BY <2>4 DEF Unique
    <3>2. \A k \in 1 .. p.size : p.at + k - 1 \in 0 .. Space - 1 /\ ~ Covers(P, p.at + k - 1)
      BY <1>1, <2>2, <3>1 DEF Overlap, Covers
    <3>3. p.text \in DOMAIN old
      BY <1>3 DEF Matching
    <3>4. \A k \in 1 .. p.size : mem2[p.at + k - 1] = mem[p.at + k - 1]
      BY <1>6, <3>2
    <3>5. new[p.text] = old[p.text]
      BY <1>4, <2>4, <3>3
    <3>6. QED
      BY <2>1, <3>4, <3>5
  <2>5. QED
    BY <2>3, <2>4
<1>8. \A b \in 0 .. Space - 1 :
        (\A p \in places \cup {P} : ~ Covers(p, b)) => mem2[b] = InitialByte(b)
  <2>1. \A b \in 0 .. Space - 1 :
          (\A p \in places \cup {P} : ~ Covers(p, b)) => mem[b] = InitialByte(b)
    BY <1>3 DEF Matching
  <2>2. QED
    BY <1>6, <2>1
<1>9. DOMAIN new = { p.text : p \in places \cup {P} }
  BY <1>3, <1>4 DEF Matching
<1>10. Matching(new, places \cup {P}, mem2)
  BY <1>6, <1>7, <1>8, <1>9 DEF Matching
<1>11. QED
  BY <1>10 DEF new, mem2

-----------------------------------------------------------------------------
(* A turn after which the engine is the processor.                         *)
LEMMA TurnSame ==
  ASSUME NEW regs, NEW cells, NEW mem, NEW places,
         Turn(regs, cells, [reg |-> regs, mem |-> mem], places),
         DOMAIN regs = DOMAIN file.place, InDwords(regs),
         Matching(cells, named \cup places, mem)
  PROVE  Same'
<1>1. /\ m_ctx' = regs /\ m_memory' = cells /\ machine' = [reg |-> regs, mem |-> mem]
      /\ named' = named \cup places /\ file' = file
  BY Zenon DEF Turn
<1>2. machine'.mem = mem
  BY <1>1
<1>3. QED
  BY <1>1, <1>2, Zenon DEF Same

LEMMA PlaceFacts ==
  ASSUME Space \in Nat, NEW text, NEW a, NEW n \in {1, 2, 4}, n = TextSize(text), InSpace(a, 4)
  PROVE  /\ IsPlace(Place(text, a, n))
         /\ Place(text, a, n).text = text /\ Place(text, a, n).at = a
         /\ Place(text, a, n).size = n
<1>1. /\ Place(text, a, n).text = text /\ Place(text, a, n).at = a
      /\ Place(text, a, n).size = n
  BY DEF Place
<1>2. a \in Nat /\ a + n <= Space
  BY DEF InSpace
<1>3. QED
  BY <1>1, <1>2 DEF IsPlace

(* One read, and one write, of the engine and of the processor.            *)
LEMMA Reads ==
  ASSUME Space \in Nat, Same, NEW text, NEW a, NEW n \in {1, 2, 4}, n = TextSize(text),
         InSpace(a, 4), Unique(named \cup {Place(text, a, n)})
  PROVE  LET cells == Entered(m_memory, text, a)
         IN  /\ Matching(cells, named \cup {Place(text, a, n)}, machine.mem)
             /\ ReadMem(cells, text, n) = Fetched(a, n)
             /\ Bytewise(ReadMem(cells, text, n), n)
<1> DEFINE P == Place(text, a, n)
           cells == Entered(m_memory, text, a)
<1>1. IsPlace(P) /\ P.text = text /\ P.at = a /\ P.size = n
  BY PlaceFacts
<1>2. Matching(m_memory, named, machine.mem)
  BY DEF Same
<1> HIDE DEF P
<1>3. /\ Matching(cells, named \cup {P}, machine.mem)
      /\ \A k \in 1 .. n : cells[text][k] = machine.mem[a + k - 1]
  <2>1. /\ Matching(Entered(m_memory, P.text, P.at), named \cup {P}, machine.mem)
        /\ \A k \in 1 .. P.size :
             Entered(m_memory, P.text, P.at)[P.text][k] = machine.mem[P.at + k - 1]
    BY <1>1, <1>2, ReadStep DEF P
  <2>2. QED
    BY <1>1, <2>1
<1> HIDE DEF cells
<1>4. Bytewise(ReadMem(cells, text, n), n) /\ Agree(ReadMem(cells, text, n), cells[text], n)
  BY ReadMemIs
<1>5. ReadMem(cells, text, n) = Fetched(a, n)
  BY <1>3, <1>4 DEF Agree, Bytewise, Fetched
<1>6. QED
  BY <1>3, <1>4, <1>5 DEF P, cells

LEMMA Writes ==
  ASSUME Space \in Nat, NEW cells, NEW places, Matching(cells, places, machine.mem),
         NEW text, NEW a, NEW n \in {1, 2, 4}, n = TextSize(text),
         InSpace(a, 4), Unique(places \cup {Place(text, a, n)}), NEW f, Bytewise(f, n)
  PROVE  /\ Matching(WriteMem(cells, text, a, f), places \cup {Place(text, a, n)}, Stored(a, f))
         /\ Len(f) = n
<1> DEFINE P == Place(text, a, n)
<1>1. IsPlace(P) /\ P.text = text /\ P.at = a /\ P.size = n
  BY PlaceFacts
<1> HIDE DEF P
<1>2. Matching(WriteMem(cells, P.text, P.at, f), places \cup {P}, StoredIn(machine.mem, P.at, f))
  BY <1>1, WriteStep DEF P
<1>3. Stored(a, f) = StoredIn(machine.mem, a, f)
  BY Zenon DEF Stored, StoredIn
<1>4. Len(f) = n
  <2>1. n \in Nat
    OBVIOUS
  <2>2. QED
    BY <2>1, BytesAreSeq
<1>5. QED
  BY <1>1, <1>2, <1>3, <1>4 DEF P

(* What StaticProgram says of an instruction.                              *)
LEMMA CodeFacts ==
  ASSUME ProgramsOK, file \in StaticPrograms, NEW i \in file.code
  PROVE  /\ \A k \in DOMAIN i.oprs :
              OprOf(i, k).type = "Reg" => Owner(OprOf(i, k).name) \in DOMAIN file.place
         /\ i.op \in {"push", "pop", "call"} => i.oprs = <<i.oprs[1]>>
         /\ i.op = "push" /\ OprOf(i, 1).type = "Mem" => OprOf(i, 1).bit = 32
         /\ i.op \in {"pop", "call"} => OprOf(i, 1).bit = 32
         /\ i.op = "leave" => i.oprs = <<>>
         /\ i.op = "lea" =>
              /\ Has(i.oprs[2], {"addr"})
              /\ Has(i.oprs[2].addr, {"base"}) => i.oprs[2].addr.base \in DOMAIN file.place
         /\ i.op = "mov" =>
              /\ i.oprs = <<i.oprs[1], i.oprs[2]>>
              /\ OprOf(i, 2).type \in {"Reg", "Imm", "Mem"}
              /\ OprOf(i, 1).type = "Mem" => OprOf(i, 2).type # "Mem"
              /\ OprOf(i, 2).type # "Imm" => OprOf(i, 1).bit = OprOf(i, 2).bit
<1>1. StaticProgram(file)
  BY DEF ProgramsOK
<1>2. QED
  BY <1>1, Zenon DEF StaticProgram, OprOf

-----------------------------------------------------------------------------
(* One lemma for each instruction.                                         *)
Ready ==
  /\ ProgramsOK /\ Space \in Nat
  /\ file \in StaticPrograms
  /\ Same

LEMMA ReadyFacts ==
  ASSUME Ready
  PROVE  /\ machine = [reg |-> m_ctx, mem |-> machine.mem]
         /\ machine.reg = m_ctx
         /\ DOMAIN m_ctx = DOMAIN file.place /\ InDwords(m_ctx)
         /\ Matching(m_memory, named, machine.mem)
         /\ Matching(m_memory, named \cup {}, machine.mem)
<1>1. machine = [reg |-> m_ctx, mem |-> machine.mem]
  BY Zenon DEF Ready, Same
<1>2. machine.reg = m_ctx
  BY <1>1
<1>3. named \cup {} = named
  OBVIOUS
<1>4. QED
  BY <1>1, <1>2, <1>3, Zenon DEF Ready, Same

(* What a word gives to a part of its size.                                *)
LEMMA ImmediateBytes ==
  ASSUME NEW v
  PROVE  Bytewise(Immediate(v), 4) /\ \A n \in Nat : Bytewise(SubSeq(Immediate(v), 1, n), n)
<1>1. Bytewise(Immediate(v), 4)
  BY DEF Immediate, Value, Bytewise
<1>2. ASSUME NEW n \in Nat PROVE Bytewise(SubSeq(Immediate(v), 1, n), n)
  BY FirstBytes
<1>3. QED
  BY <1>1, <1>2

LEMMA PassOverSame ==
  ASSUME Ready, NEW i \in file.code, PassOver(i)
  PROVE  Same'
<1>1. machine = [reg |-> m_ctx, mem |-> machine.mem]
      /\ DOMAIN m_ctx = DOMAIN file.place /\ InDwords(m_ctx)
      /\ Matching(m_memory, named \cup {}, machine.mem)
  BY ReadyFacts
<1>2. Turn(m_ctx, m_memory, machine, {})
  BY Zenon DEF PassOver
<1>3. Turn(m_ctx, m_memory, [reg |-> m_ctx, mem |-> machine.mem], {})
  BY <1>1, <1>2, Zenon
<1>4. QED
  BY <1>1, <1>3, TurnSame

LEMMA SumSame ==
  ASSUME Ready, NEW r, NEW n,
         Turn([m_ctx EXCEPT ![r] = Sum(@, n)], m_memory, [machine EXCEPT !.reg[r] = Sum(@, n)], {})
  PROVE  Same'
<1> DEFINE regs == [m_ctx EXCEPT ![r] = Sum(@, n)]
<1>1. machine = [reg |-> m_ctx, mem |-> machine.mem]
      /\ DOMAIN m_ctx = DOMAIN file.place /\ InDwords(m_ctx)
      /\ Matching(m_memory, named \cup {}, machine.mem)
  BY ReadyFacts
<1>2. [machine EXCEPT !.reg[r] = Sum(@, n)] = [reg |-> regs, mem |-> machine.mem]
  BY <1>1
<1>3. DOMAIN regs = DOMAIN file.place /\ InDwords(regs)
  BY <1>1, SumIsWord DEF InDwords
<1>4. Turn(regs, m_memory, [reg |-> regs, mem |-> machine.mem], {})
  BY <1>2, Zenon
<1> HIDE DEF regs
<1>5. QED
  BY <1>1, <1>3, <1>4, TurnSame

LEMMA AddImmediateSame ==
  ASSUME Ready, NEW i \in file.code, AddImmediate(i)
  PROVE  Same'
<1>1. PICK r, n :
        Turn([m_ctx EXCEPT ![r] = Sum(@, n)], m_memory, [machine EXCEPT !.reg[r] = Sum(@, n)], {})
  BY Zenon DEF AddImmediate
<1>2. QED
  BY <1>1, SumSame

LEMMA RetSame ==
  ASSUME Ready, NEW i \in file.code, Ret(i)
  PROVE  Same'
<1>1. PICK n : Turn([m_ctx EXCEPT !["esp"] = Sum(@, n)], m_memory,
                    [machine EXCEPT !.reg["esp"] = Sum(@, n)], {})
  BY Zenon DEF Ret
<1>2. QED
  BY <1>1, SumSame

(* The tag of LEA's address.                                               *)
LEMMA FirstMatch ==
  ASSUME NEW t
  PROVE  LET tag == FirstTag(VarsFirst, t)
         IN  /\ tag # UnknownTag => Matches(tag, t)
             /\ tag = 2 => ~ Matches(3, t) /\ ~ Matches(1, t)
<1> DEFINE order == VarsFirst
           S == { k \in DOMAIN order : Matches(order[k], t) }
           First(k) == Matches(order[k], t) /\ \A j \in 1 .. k - 1 : ~ Matches(order[j], t)
<1>1. /\ DOMAIN order = 1 .. 10 /\ order[8] = 3 /\ order[9] = 1
      /\ \A k \in 1 .. 10 : order[k] = 2 => k = 10
  <2> DEFINE vars == <<8, 9, 10>>
  <2>1. vars \in Seq(Nat) /\ Len(vars) = 3
        /\ MatchOrder \in Seq(Nat) /\ Len(MatchOrder) = 7
    BY DEF MatchOrder
  <2>2. order = vars \o MatchOrder
    BY DEF VarsFirst
  <2>3. \A k \in 1 .. 3 : vars[k] # 2
    OBVIOUS
  <2>4. /\ MatchOrder[5] = 3 /\ MatchOrder[6] = 1
        /\ \A k \in 1 .. 7 : MatchOrder[k] = 2 => k = 7
    BY DEF MatchOrder
  <2> HIDE DEF order, vars
  <2>5. /\ order \in Seq(Nat) /\ Len(order) = 10
        /\ \A k \in 1 .. 10 : order[k] = IF k <= 3 THEN vars[k] ELSE MatchOrder[k - 3]
    <3>1. /\ order \in Seq(Nat) /\ Len(order) = Len(vars) + Len(MatchOrder)
          /\ \A k \in 1 .. Len(vars) + Len(MatchOrder) :
               order[k] = IF k <= Len(vars) THEN vars[k] ELSE MatchOrder[k - Len(vars)]
      BY <2>1, <2>2, ConcatProperties
    <3>2. Len(vars) + Len(MatchOrder) = 10
      BY <2>1
    <3>3. QED
      BY <2>1, <3>1, <3>2, Zenon
  <2>6. DOMAIN order = 1 .. 10
    BY <2>5
  <2>7. QED
    BY <2>3, <2>4, <2>5, <2>6, SMTT(20)
<1>2. CASE S # {}
  <2>1. S \in SUBSET Nat
    BY <1>1
  <2>2. PICK i \in S : \A j \in S : i <= j
    <3> HIDE DEF S
    <3> QED
      BY <1>2, <2>1, LeastExists
  <2>3. i \in DOMAIN order /\ First(i)
    <3>1. i \in 1 .. 10 /\ Matches(order[i], t)
      BY <1>1, <2>2
    <3>2. ASSUME NEW j \in 1 .. i - 1, Matches(order[j], t) PROVE FALSE
      <4>1. j \in S /\ ~ (i <= j)
        BY <1>1, <3>1, <3>2
      <4>2. QED
        BY <2>2, <4>1
    <3>3. QED
      BY <1>1, <3>1, <3>2
  <2> DEFINE n == CHOOSE k \in DOMAIN order : First(k)
  <2>4. n \in DOMAIN order /\ First(n)
    <3> HIDE DEF First
    <3> QED
      BY <2>3
  <2>5. FirstTag(order, t) = order[n]
    BY <2>3 DEF FirstTag
  <2> HIDE DEF n
  <2>6. ASSUME order[n] = 2 PROVE ~ Matches(3, t) /\ ~ Matches(1, t)
    <3>1. n = 10
      BY <1>1, <2>4, <2>6
    <3>2. order[8] = 3 /\ order[9] = 1 /\ 8 \in 1 .. 10 - 1 /\ 9 \in 1 .. 10 - 1
      BY <1>1
    <3>3. \A j \in 1 .. n - 1 : ~ Matches(order[j], t)
      BY <2>4
    <3> HIDE DEF order
    <3>4. QED
      BY <3>1, <3>2, <3>3
  <2>7. QED
    BY <2>4, <2>5, <2>6
<1>3. CASE S = {}
  <2>1. FirstTag(order, t) = UnknownTag
    BY <1>3 DEF FirstTag
  <2>2. QED
    BY <2>1 DEF UnknownTag
<1>4. QED
  BY <1>2, <1>3

LEMMA LoadAddressSame ==
  ASSUME Ready, NEW i \in file.code, LoadAddress(i), faithful'
  PROVE  Same'
<1> DEFINE r == OprOf(i, 1).name
           a == OprOf(i, 2)
           t == i.oprs[2].addr
           Signed(s) == IF s.sign = "-" THEN 0 - s.disp ELSE s.disp
           f == CASE a.tag = 4 -> Sum(m_ctx[a.field.base], Signed(a.field))
                  [] a.tag = 2 -> m_ctx[a.field.base]
                  [] OTHER -> Immediate(a.field.disp)
           g == IF ~ Has(t, {"base"}) THEN Immediate(t.disp)
                ELSE IF Has(t, {"disp"}) THEN Sum(machine.reg[t.base], Signed(t))
                ELSE machine.reg[t.base]
           regs == [m_ctx EXCEPT ![r] = f]
<1>1. /\ a.tag \in {1, 2, 4}
      /\ Turn([m_ctx EXCEPT ![r] = f], m_memory, [machine EXCEPT !.reg[r] = g], {})
      /\ a.tag = 1 => ~ Has(t, {"base"})
      /\ i.op = "lea"
  BY DEF LoadAddress, Turns
<1>2. /\ Has(i.oprs[2], {"addr"})
      /\ Has(t, {"base"}) => t.base \in DOMAIN file.place
  BY <1>1, CodeFacts DEF Ready
<1>3. a.tag = FirstTag(VarsFirst, t) /\ a.field = Fields(a.tag, t)
  <2>1. a = MemOperand(SizeBits(i.oprs[2].size), CreateAddrOperandStatic(t))
    BY <1>2 DEF OprOf, CreateOperandStatic
  <2>2. a.tag = CreateAddrOperandStatic(t).tag /\ a.field = CreateAddrOperandStatic(t).field
    BY <2>1 DEF MemOperand
  <2>3. QED
    BY <2>2 DEF CreateAddrOperandStatic
<1>4. machine = [reg |-> m_ctx, mem |-> machine.mem] /\ machine.reg = m_ctx
      /\ DOMAIN m_ctx = DOMAIN file.place /\ InDwords(m_ctx)
      /\ Matching(m_memory, named \cup {}, machine.mem)
  BY ReadyFacts
<1> HIDE DEF r, a, t
<1>5. /\ Matches(a.tag, t)
      /\ a.tag = 2 => ~ Matches(3, t) /\ ~ Matches(1, t)
  BY <1>1, <1>3, FirstMatch DEF UnknownTag
<1>6. f = g /\ Bytewise(f, 4)
  <2>1. CASE a.tag = 4
    <3>1. Has(t, {"base"}) /\ Has(t, {"disp"})
      BY <1>5, <2>1 DEF Matches, Together, Has
    <3>2. a.field = [piece \in {"base", "sign", "disp"} |-> t[piece]]
      BY <1>3, <2>1 DEF Fields, Captured
    <3>3. a.field.base = t.base /\ a.field.sign = t.sign /\ a.field.disp = t.disp
      BY <3>2
    <3>4. f = Sum(m_ctx[t.base], Signed(t))
      BY <2>1, <3>3
    <3>5. g = Sum(m_ctx[t.base], Signed(t))
      BY <1>4, <3>1
    <3>6. QED
      BY <3>4, <3>5, SumIsWord
  <2>2. CASE a.tag = 2
    <3>1. Has(t, {"base"}) /\ ~ Has(t, {"disp"})
      BY <1>5, <2>2 DEF Matches, Has
    <3>2. a.field = [piece \in {"base"} |-> t[piece]]
      BY <1>3, <2>2, <3>1 DEF Fields, Captured
    <3>3. a.field.base = t.base
      BY <3>2
    <3>4. f = m_ctx[t.base]
      BY <2>2, <3>3
    <3>5. g = m_ctx[t.base]
      BY <1>4, <3>1
    <3>6. QED
      BY <1>2, <1>4, <3>1, <3>4, <3>5 DEF InDwords, t
  <2>3. CASE a.tag = 1
    <3>1. a.field = [piece \in {"disp"} |-> t[piece]]
      BY <1>3, <2>3 DEF Fields, Captured
    <3>2. a.field.disp = t.disp
      BY <3>1
    <3>3. f = Immediate(t.disp)
      BY <2>3, <3>2
    <3>4. g = Immediate(t.disp)
      BY <1>1, <2>3
    <3>5. QED
      BY <3>3, <3>4, ImmediateBytes
  <2>4. QED
    BY <1>1, <2>1, <2>2, <2>3
<1> HIDE DEF f, g
<1>7. [machine EXCEPT !.reg[r] = g] = [reg |-> regs, mem |-> machine.mem]
  BY <1>4, <1>6
<1>8. DOMAIN regs = DOMAIN file.place /\ InDwords(regs)
  BY <1>4, <1>6 DEF InDwords
<1>9. Turn(regs, m_memory, [reg |-> regs, mem |-> machine.mem], {})
  BY <1>1, <1>7, Zenon
<1> HIDE DEF regs
<1>10. QED
  BY <1>4, <1>8, <1>9, TurnSame

LEMMA LoadSame ==
  ASSUME Ready, NEW i \in file.code, Load(i), Unique(named')
  PROVE  Same'
<1> DEFINE dst == OprOf(i, 1)
           src == OprOf(i, 2)
           text == MemoryAddress(i)
           n == Bytes(dst)
           a == Effective(i.oprs[2].addr)
<1>1. machine = [reg |-> m_ctx, mem |-> machine.mem] /\ machine.reg = m_ctx
      /\ DOMAIN m_ctx = DOMAIN file.place /\ InDwords(m_ctx)
      /\ Matching(m_memory, named \cup {}, machine.mem)
  BY ReadyFacts
<1>2. dst.type = "Reg" /\ i.op = "mov"
  BY DEF Load, Turns
<1>3. /\ i.oprs = <<i.oprs[1], i.oprs[2]>>
      /\ src.type # "Imm" => dst.bit = src.bit
  BY <1>2, CodeFacts DEF Ready
<1>4. /\ dst.name \in Names /\ n = Size(dst.name) /\ n \in {1, 2, 4}
      /\ src.type = "Reg" => src.name \in Names /\ Bytes(src) = Size(src.name)
      /\ src.type = "Mem" => TextSize(i.oprs[2]) = Bytes(src)
  <2>1. n = Size(dst.name) => n \in {1, 2, 4}
    BY DEF Size
  <2>2. QED
    BY <1>2, <2>1, TextSizes DEF OprOf
<1>5. src.type # "Imm" => n = Bytes(src)
  BY <1>3 DEF Bytes
<1>6. ASSUME NEW f, Bytewise(f, n)
      PROVE  /\ DOMAIN WriteReg(m_ctx, dst.name, f) = DOMAIN file.place
             /\ InDwords(WriteReg(m_ctx, dst.name, f))
             /\ [machine EXCEPT !.reg = WriteReg(@, dst.name, f)]
                  = [reg |-> WriteReg(m_ctx, dst.name, f), mem |-> machine.mem]
  <2>1. Bytewise(f, Size(dst.name))
    BY <1>4, <1>6, Zenon
  <2>2. /\ DOMAIN WriteReg(m_ctx, dst.name, f) = DOMAIN file.place
        /\ InDwords(WriteReg(m_ctx, dst.name, f))
    BY <1>1, <1>4, <2>1, WriteRegWords
  <2>3. [machine EXCEPT !.reg = WriteReg(@, dst.name, f)]
          = [reg |-> WriteReg(m_ctx, dst.name, f), mem |-> machine.mem]
    BY <1>1
  <2>4. QED
    BY <2>2, <2>3
<1>7. CASE src.type \in {"Imm", "Reg"}
  <2> DEFINE f == IF src.type = "Imm" THEN SubSeq(Immediate(src.imm), 1, n)
                  ELSE ReadReg(m_ctx, src.name)
  <2>1. Turn(WriteReg(m_ctx, dst.name, f), m_memory,
             [machine EXCEPT !.reg = WriteReg(@, dst.name, f)], {})
    BY <1>1, <1>7 DEF Load
  <2>2. Bytewise(f, n)
    <3>1. CASE src.type = "Imm"
      <4>1. n \in Nat
        BY <1>4
      <4>2. QED
        BY <3>1, <4>1, ImmediateBytes
    <3>2. CASE src.type = "Reg"
      <4>1. Bytewise(ReadReg(m_ctx, src.name), Size(src.name))
        BY <1>4, <3>2, ReadRegSize
      <4>2. Size(src.name) = n
        BY <1>4, <1>5, <3>2
      <4>3. QED
        BY <3>2, <4>1, <4>2
    <3>3. QED
      BY <1>7, <3>1, <3>2
  <2> HIDE DEF f
  <2>3. /\ DOMAIN WriteReg(m_ctx, dst.name, f) = DOMAIN file.place
        /\ InDwords(WriteReg(m_ctx, dst.name, f))
        /\ Turn(WriteReg(m_ctx, dst.name, f), m_memory,
                [reg |-> WriteReg(m_ctx, dst.name, f), mem |-> machine.mem], {})
    BY <1>6, <2>1, <2>2, Zenon
  <2>4. QED
    BY <1>1, <2>3, TurnSame
<1>8. CASE src.type = "Mem"
  <2> DEFINE cells == Entered(m_memory, text, a)
             f == ReadMem(cells, text, n)
  <2>1. /\ InSpace(a, 4)
        /\ Turn(WriteReg(m_ctx, dst.name, f), cells,
                [machine EXCEPT !.reg = WriteReg(@, dst.name, Fetched(a, n))], {Place(text, a, n)})
    BY <1>8 DEF Load
  <2>2. text = i.oprs[2]
    <3>1. Has(i.oprs[2], {"addr"}) /\ ~ Has(i.oprs[1], {"addr"})
      BY <1>2, <1>8, OperandFacts DEF OprOf
    <3>2. QED
      BY <1>3, <3>1, AddressText
  <2>3. n = TextSize(text)
    BY <1>4, <1>5, <1>8, <2>2
  <2>4. Unique(named \cup {Place(text, a, n)})
    BY <2>1 DEF Turn
  <2> HIDE DEF text, n, a
  <2>5. /\ Matching(cells, named \cup {Place(text, a, n)}, machine.mem)
        /\ f = Fetched(a, n)
        /\ Bytewise(f, n)
    BY <1>4, <2>1, <2>3, <2>4, Reads DEF Ready
  <2> HIDE DEF cells, f
  <2>6. /\ DOMAIN WriteReg(m_ctx, dst.name, f) = DOMAIN file.place
        /\ InDwords(WriteReg(m_ctx, dst.name, f))
        /\ Turn(WriteReg(m_ctx, dst.name, f), cells,
                [reg |-> WriteReg(m_ctx, dst.name, f), mem |-> machine.mem], {Place(text, a, n)})
    BY <1>6, <2>1, <2>5, Zenon
  <2>7. QED
    BY <2>5, <2>6, TurnSame
<1>9. QED
  BY <1>7, <1>8 DEF Load

LEMMA StoreSame ==
  ASSUME Ready, NEW i \in file.code, Store(i), Unique(named')
  PROVE  Same'
<1> DEFINE dst == OprOf(i, 1)
           src == OprOf(i, 2)
           text == MemoryAddress(i)
           n == Bytes(dst)
           a == Effective(i.oprs[1].addr)
           f == IF src.type = "Imm" THEN SubSeq(Immediate(src.imm), 1, n)
                ELSE ReadReg(m_ctx, src.name)
<1>1. machine = [reg |-> m_ctx, mem |-> machine.mem] /\ machine.reg = m_ctx
      /\ DOMAIN m_ctx = DOMAIN file.place /\ InDwords(m_ctx)
      /\ Matching(m_memory, named, machine.mem)
  BY ReadyFacts
<1>2. dst.type = "Mem" /\ i.op = "mov" /\ InSpace(a, 4)
  BY DEF Store, Turns
<1>3. Turn(m_ctx, WriteMem(m_memory, text, a, f), [machine EXCEPT !.mem = Stored(a, f)],
           {Place(text, a, Len(f))})
  BY <1>1 DEF Store
<1>4. /\ i.oprs = <<i.oprs[1], i.oprs[2]>>
      /\ src.type \in {"Reg", "Imm"}
      /\ src.type # "Imm" => dst.bit = src.bit
  BY <1>2, CodeFacts DEF Ready
<1>5. /\ n \in {0, 1, 2, 4} /\ TextSize(i.oprs[1]) = n
      /\ src.type = "Reg" => src.name \in Names /\ Bytes(src) = Size(src.name)
  BY <1>2, TextSizes DEF OprOf
<1>6. text = i.oprs[1]
  <2>1. Has(i.oprs[1], {"addr"}) /\ ~ Has(i.oprs[2], {"addr"})
    BY <1>2, <1>4, OperandFacts DEF OprOf
  <2>2. QED
    BY <1>4, <2>1, AddressText
<1>7. Bytewise(f, n) /\ Len(f) = n
  <2>1. n \in Nat
    BY <1>5
  <2>2. CASE src.type = "Imm"
    BY <2>1, <2>2, ImmediateBytes, BytesAreSeq
  <2>3. CASE src.type = "Reg"
    <3>1. Bytewise(ReadReg(m_ctx, src.name), Size(src.name))
      BY <1>5, <2>3, ReadRegSize
    <3>2. Size(src.name) = n
      BY <1>4, <1>5, <2>3 DEF Bytes
    <3>3. QED
      BY <2>1, <2>3, <3>1, <3>2, BytesAreSeq
  <2>4. QED
    BY <1>4, <2>2, <2>3
<1> HIDE DEF f, n, a, text
<1>8. Unique(named \cup {Place(text, a, n)})
  BY <1>3, <1>7 DEF Turn
<1>9. n # 0
  <2>1. Overlap(Place(text, a, n), Place(text, a, n))
    BY <1>8 DEF Unique
  <2>2. a \in Int
    BY <1>2 DEF Ready, InSpace
  <2>3. QED
    BY <1>5, <2>1, <2>2 DEF Overlap, Place
<1>10. Matching(WriteMem(m_memory, text, a, f), named \cup {Place(text, a, n)}, Stored(a, f))
  <2>1. n \in {1, 2, 4} /\ n = TextSize(text)
    BY <1>5, <1>6, <1>9
  <2>2. QED
    BY <1>1, <1>2, <1>7, <1>8, <2>1, Writes DEF Ready
<1>11. [machine EXCEPT !.mem = Stored(a, f)] = [reg |-> m_ctx, mem |-> Stored(a, f)]
  BY <1>1
<1>12. Turn(m_ctx, WriteMem(m_memory, text, a, f), [reg |-> m_ctx, mem |-> Stored(a, f)],
            {Place(text, a, n)})
  BY <1>3, <1>7, <1>11, Zenon
<1>13. QED
  BY <1>1, <1>10, <1>12, TurnSame

(* What the stack gets, in the engine and in the processor.                *)
LEMMA PushSame ==
  ASSUME Ready, NEW cells, NEW places, NEW more, Matching(cells, places, machine.mem),
         NEW text, NEW n \in {1, 2, 4}, n = TextSize(text), OnStack(n),
         NEW f, Bytewise(f, n),
         Turn(Lowered(n), WriteMem(cells, text, PointsTo(machine.reg["esp"]) - n, f),
              Pushed(f), more),
         named \cup more = places \cup {Place(text, PointsTo(machine.reg["esp"]) - n, n)},
         Unique(named')
  PROVE  Same'
<1> DEFINE a == PointsTo(machine.reg["esp"]) - n
<1>1. machine = [reg |-> m_ctx, mem |-> machine.mem] /\ machine.reg = m_ctx
      /\ DOMAIN m_ctx = DOMAIN file.place /\ InDwords(m_ctx)
  BY ReadyFacts
<1>2. InSpace(a, 4)
  BY DEF OnStack
<1>3. Unique(places \cup {Place(text, a, n)})
  BY Zenon DEF Turn
<1>4. Pushed(f) = [machine EXCEPT !.reg["esp"] = Sum(@, 0 - n), !.mem = Stored(a, f)]
  <2>1. Len(f) = n
    <3>1. n \in Nat
      OBVIOUS
    <3>2. QED
      BY <3>1, BytesAreSeq
  <2>2. QED
    BY <2>1 DEF Pushed
<1>5. Lowered(n) = [m_ctx EXCEPT !["esp"] = Sum(@, 0 - n)]
  <2>1. Bytewise(Sum(m_ctx["esp"], 0 - n), 4)
    BY SumIsWord
  <2>2. WriteReg(m_ctx, "esp", Sum(m_ctx["esp"], 0 - n))
          = [m_ctx EXCEPT !["esp"] = Sum(m_ctx["esp"], 0 - n)]
    BY <2>1, WriteEsp
  <2>3. QED
    BY <2>2 DEF Lowered
<1>6. DOMAIN Lowered(n) = DOMAIN file.place /\ InDwords(Lowered(n))
  BY <1>1, <1>5, SumIsWord DEF InDwords
<1>7. Pushed(f) = [reg |-> Lowered(n), mem |-> Stored(a, f)]
  <2> DEFINE mem == Stored(a, f)
  <2> HIDE DEF mem
  <2>1. Pushed(f) = [machine EXCEPT !.reg["esp"] = Sum(@, 0 - n), !.mem = mem]
    BY <1>4 DEF mem
  <2>2. Pushed(f) = [reg |-> Lowered(n), mem |-> mem]
    BY <1>1, <1>5, <2>1
  <2>3. QED
    BY <2>2 DEF mem
<1> HIDE DEF a
<1>8. Matching(WriteMem(cells, text, a, f), places \cup {Place(text, a, n)}, Stored(a, f))
  BY <1>2, <1>3, Writes DEF Ready
<1>9. Turn(Lowered(n), WriteMem(cells, text, a, f), [reg |-> Lowered(n), mem |-> Stored(a, f)],
           more)
  BY <1>7, Zenon DEF a
<1>10. Matching(WriteMem(cells, text, a, f), named \cup more, Stored(a, f))
  BY <1>8, Zenon DEF a
<1>11. QED
  BY <1>6, <1>9, <1>10, TurnSame

(* No part of another register is changed with esp.                        *)
LEMMA LoweredElsewhere ==
  ASSUME Ready, NEW n, NEW name \in Names, name # "esp", Owner(name) \in DOMAIN file.place
  PROVE  ReadReg(Lowered(n), name) = ReadReg(m_ctx, name)
<1>1. Bytewise(Sum(m_ctx["esp"], 0 - n), 4)
  BY SumIsWord
<1>2. WriteReg(m_ctx, "esp", Sum(m_ctx["esp"], 0 - n))
        = [m_ctx EXCEPT !["esp"] = Sum(m_ctx["esp"], 0 - n)]
  BY <1>1, WriteEsp
<1>3. Owner(name) # "esp"
  BY DEF Owner, FullName, Names, Reg32, Reg16, Reg8
<1>4. Lowered(n)[Owner(name)] = m_ctx[Owner(name)]
  <2>1. Owner(name) \in DOMAIN m_ctx
    BY Zenon DEF Ready, Same
  <2>2. QED
    BY <1>2, <1>3, <2>1 DEF Lowered
<1>5. QED
  BY <1>4, Zenon DEF ReadReg

LEMMA OneOperand ==
  ASSUME NEW s, s = <<s[1]>>
  PROVE  1 \in DOMAIN s
<1>1. \A t : 1 \in DOMAIN <<t>>
  OBVIOUS
<1>2. QED
  BY <1>1, Zenon

LEMMA PushRegisterSame ==
  ASSUME Ready, NEW i \in file.code, Push(i), faithful', Unique(named')
  PROVE  Same'
<1> DEFINE o == OprOf(i, 1)
           n == Bytes(o)
           text == MemoryAddress(i)
           a == PointsTo(machine.reg["esp"]) - n
           From(regs) == IF o.type = "Imm" THEN Immediate(o.imm) ELSE ReadReg(regs, o.name)
           f == From(machine.reg)
<1>1. /\ i.op = "push" /\ o.type \in {"Reg", "Imm"}
      /\ OnStack(n)
      /\ Turn(Lowered(n), WriteMem(m_memory, text, a, From(Lowered(n))), Pushed(f),
              {Place(text, a, n)})
      /\ o.type = "Reg" => o.name # "esp"
  BY DEF Push, Turns
<1>2. machine.reg = m_ctx /\ Matching(m_memory, named, machine.mem)
  BY ReadyFacts
<1>3. text = i.oprs[1]
  BY <1>1, CodeFacts, AddressText DEF Ready
<1>4. /\ n \in {1, 2, 4} /\ n = TextSize(i.oprs[1])
      /\ o.type = "Imm" => n = 4
      /\ o.type = "Reg" => o.name \in Names /\ n = Size(o.name)
  <2>1. o.type = "Reg" => Size(o.name) \in {1, 2, 4}
    BY DEF Size
  <2>2. QED
    BY <1>1, <2>1, TextSizes DEF OprOf
<1>5. From(Lowered(n)) = f
  <2>1. CASE o.type = "Imm"
    BY <2>1
  <2>2. CASE o.type = "Reg"
    <3>1. Owner(o.name) \in DOMAIN file.place
      <4>1. 1 \in DOMAIN i.oprs
        BY <1>1, CodeFacts, OneOperand DEF Ready
      <4>2. QED
        BY <2>2, <4>1, CodeFacts DEF Ready
    <3>2. ReadReg(Lowered(n), o.name) = ReadReg(m_ctx, o.name)
      BY <1>1, <1>4, <2>2, <3>1, LoweredElsewhere
    <3>3. QED
      BY <1>2, <2>2, <3>2
  <2>3. QED
    BY <1>1, <2>1, <2>2
<1>6. Bytewise(f, n)
  <2>1. CASE o.type = "Imm"
    BY <1>4, <2>1, ImmediateBytes
  <2>2. CASE o.type = "Reg"
    <3>1. Bytewise(ReadReg(machine.reg, o.name), Size(o.name))
      BY <1>4, <2>2, ReadRegSize
    <3>2. QED
      BY <1>4, <2>2, <3>1
  <2>3. QED
    BY <1>1, <2>1, <2>2
<1>7. n = TextSize(text)
  BY <1>3, <1>4
<1>8. Turn(Lowered(n), WriteMem(m_memory, text, a, f), Pushed(f), {Place(text, a, n)})
  BY <1>1, <1>5
<1> HIDE DEF n, f, text
<1>9. QED
  BY <1>1, <1>2, <1>4, <1>6, <1>7, <1>8, PushSame

LEMMA CallSame ==
  ASSUME Ready, NEW i \in file.code, Call(i), faithful', Unique(named')
  PROVE  Same'
<1> DEFINE text == MemoryAddress(i)
           a == PointsTo(machine.reg["esp"]) - 4
           f == Immediate(inst_list[current][pc + 1] + 5)
<1>1. /\ i.op = "call"
      /\ OnStack(4)
      /\ Turn(Lowered(4), WriteMem(m_memory, text, a, f), Pushed(f), {Place(text, a, 4)})
  BY DEF Call, Turns
<1>2. Matching(m_memory, named, machine.mem)
  BY ReadyFacts
<1>3. text = i.oprs[1] /\ OprOf(i, 1).bit = 32
  BY <1>1, CodeFacts, AddressText DEF Ready
<1>4. TextSize(text) = 4
  BY <1>3, TextSizes DEF OprOf
<1>5. Bytewise(f, 4)
  BY ImmediateBytes
<1> HIDE DEF f, text
<1>6. QED
  BY <1>1, <1>2, <1>4, <1>5, PushSame

LEMMA PushMemorySame ==
  ASSUME Ready, NEW i \in file.code, PushMemory(i), Unique(named')
  PROVE  Same'
<1> DEFINE text == MemoryAddress(i)
           src == Effective(i.oprs[1].addr)
           a == PointsTo(machine.reg["esp"]) - 4
           cells == Entered(m_memory, text, src)
           f == ReadMem(cells, text, 4)
           P == Place(text, src, 4)
           Q == Place(StackText, a, 4)
<1>1. /\ i.op = "push" /\ OprOf(i, 1).type = "Mem"
      /\ OnStack(4) /\ InSpace(src, 4)
      /\ Turn(Lowered(4), WriteMem(cells, StackText, a, f), Pushed(Fetched(src, 4)), {P, Q})
  BY DEF PushMemory, Turns
<1>2. text = i.oprs[1] /\ OprOf(i, 1).bit = 32
  BY <1>1, CodeFacts, AddressText DEF Ready
<1>3. TextSize(text) = 4 /\ TextSize(StackText) = 4
  BY <1>2, TextSizes DEF OprOf
<1>4. Unique(named \cup {P, Q})
  BY <1>1 DEF Turn
<1>5. Unique(named \cup {P})
  BY <1>4 DEF Unique
<1> HIDE DEF text, src
<1>6. Matching(cells, named \cup {P}, machine.mem) /\ f = Fetched(src, 4) /\ Bytewise(f, 4)
  <2>1. 4 \in {1, 2, 4}
    OBVIOUS
  <2>2. QED
    BY <1>1, <1>3, <1>5, <2>1, Reads DEF Ready
<1> HIDE DEF cells, f
<1>7. Turn(Lowered(4), WriteMem(cells, StackText, a, f), Pushed(f), {P, Q})
  BY <1>1, <1>6
<1>8. named \cup {P, Q} = (named \cup {P}) \cup {Q}
  OBVIOUS
<1>9. QED
  BY <1>1, <1>3, <1>6, <1>7, <1>8, PushSame

(* Two registers changed are two fields of the record changed.             *)
Processor(regs, mem) == [reg |-> regs, mem |-> mem]

Change(s, r, v)        == [s EXCEPT ![r] = v]
Change2(s, p, u, q, v) == [s EXCEPT ![p] = u, ![q] = v]

ChangeReg(M, r, v)        == [M EXCEPT !.reg[r] = v]
ChangeReg2(M, p, u, q, v) == [M EXCEPT !.reg[p] = u, !.reg[q] = v]

LEMMA TwoRegisters ==
  ASSUME NEW s, NEW m, NEW p, NEW q, NEW u, NEW v
  PROVE  ChangeReg2(Processor(s, m), p, u, q, v) = Processor(Change2(s, p, u, q, v), m)
<1>1. \A t, r, w : ChangeReg(Processor(t, m), r, w) = Processor(Change(t, r, w), m)
  BY DEF Processor, Change, ChangeReg
<1>2. Change2(s, p, u, q, v) = Change(Change(s, p, u), q, v)
  BY DEF Change2, Change
<1>3. \A M : ChangeReg2(M, p, u, q, v) = ChangeReg(ChangeReg(M, p, u), q, v)
  BY DEF ChangeReg, ChangeReg2
<1>4. ChangeReg(Processor(s, m), p, u) = Processor(Change(s, p, u), m)
  BY <1>1
<1>5. ChangeReg(Processor(Change(s, p, u), m), q, v) = Processor(Change(Change(s, p, u), q, v), m)
  BY <1>1
<1>6. ChangeReg2(Processor(s, m), p, u, q, v) = ChangeReg(ChangeReg(Processor(s, m), p, u), q, v)
  BY <1>3
<1>7. QED
  BY <1>2, <1>4, <1>5, <1>6

LEMMA PopSame ==
  ASSUME Ready, NEW i \in file.code, Pop(i), Unique(named')
  PROVE  Same'
<1> DEFINE r == OprOf(i, 1).name
           text == MemoryAddress(i)
           a == PointsTo(machine.reg["esp"])
           cells == Entered(m_memory, text, a)
           f == ReadMem(cells, text, 4)
           P == Place(text, a, 4)
           regs == [m_ctx EXCEPT !["esp"] = Sum(@, 4), ![r] = f]
<1>1. /\ i.op = "pop" /\ InSpace(a, 4)
      /\ Turn(regs, cells,
              [machine EXCEPT !.reg["esp"] = Sum(@, 4), !.reg[r] = Fetched(a, 4)], {P})
  BY DEF Pop, AtTop, Turns
<1>2. text = i.oprs[1] /\ OprOf(i, 1).bit = 32
  BY <1>1, CodeFacts, AddressText DEF Ready
<1>3. TextSize(text) = 4
  BY <1>2, TextSizes DEF OprOf
<1>4. Unique(named \cup {P})
  BY <1>1 DEF Turn
<1>5. machine = [reg |-> m_ctx, mem |-> machine.mem] /\ machine.reg = m_ctx
      /\ DOMAIN m_ctx = DOMAIN file.place /\ InDwords(m_ctx)
  BY ReadyFacts
<1> HIDE DEF text, a, r
<1>6. Matching(cells, named \cup {P}, machine.mem) /\ f = Fetched(a, 4) /\ Bytewise(f, 4)
  <2>1. 4 \in {1, 2, 4}
    OBVIOUS
  <2>2. QED
    BY <1>1, <1>3, <1>4, <2>1, Reads DEF Ready
<1> HIDE DEF cells, f, P
<1>7. [machine EXCEPT !.reg["esp"] = Sum(@, 4), !.reg[r] = Fetched(a, 4)]
        = [reg |-> regs, mem |-> machine.mem]
  <2>1. machine = Processor(m_ctx, machine.mem)
    BY <1>5 DEF Processor
  <2>2. ChangeReg2(Processor(m_ctx, machine.mem), "esp", Sum(m_ctx["esp"], 4), r, f)
          = Processor(Change2(m_ctx, "esp", Sum(m_ctx["esp"], 4), r, f), machine.mem)
    BY TwoRegisters
  <2>3. ChangeReg2(machine, "esp", Sum(machine.reg["esp"], 4), r, Fetched(a, 4))
          = Processor(Change2(m_ctx, "esp", Sum(m_ctx["esp"], 4), r, f), machine.mem)
    BY <1>5, <1>6, <2>1, <2>2
  <2>4. QED
    BY <2>3, Zenon DEF Processor, Change2, ChangeReg2
<1>8. DOMAIN regs = DOMAIN file.place /\ InDwords(regs)
  BY <1>5, <1>6, SumIsWord DEF InDwords
<1>9. Turn(regs, cells, [reg |-> regs, mem |-> machine.mem], {P})
  BY <1>1, <1>7
<1> HIDE DEF regs
<1>10. QED
  BY <1>6, <1>8, <1>9, TurnSame

LEMMA LeaveSame ==
  ASSUME Ready, NEW i \in file.code, Leave(i), Unique(named')
  PROVE  Same'
<1> DEFINE text == MemoryAddress(i)
           a == PointsTo(machine.reg["ebp"])
           cells == Entered(m_memory, text, a)
           f == ReadMem(cells, text, 4)
           P == Place(text, a, 4)
           regs == [m_ctx EXCEPT !["esp"] = Sum(m_ctx["ebp"], 4), !["ebp"] = f]
<1>1. /\ i.op = "leave" /\ InSpace(a, 4)
      /\ Turn(regs, cells,
              [machine EXCEPT !.reg["esp"] = Sum(machine.reg["ebp"], 4),
                              !.reg["ebp"] = Fetched(a, 4)], {P})
  BY DEF Leave, AtTop, Turns
<1>2. text = NoText
  BY <1>1, CodeFacts, AddressText DEF Ready
<1>3. TextSize(text) = 4
  BY <1>2, TextSizes
<1>4. Unique(named \cup {P})
  BY <1>1 DEF Turn
<1>5. machine = [reg |-> m_ctx, mem |-> machine.mem] /\ machine.reg = m_ctx
      /\ DOMAIN m_ctx = DOMAIN file.place /\ InDwords(m_ctx)
  BY ReadyFacts
<1> HIDE DEF text, a
<1>6. Matching(cells, named \cup {P}, machine.mem) /\ f = Fetched(a, 4) /\ Bytewise(f, 4)
  <2>1. 4 \in {1, 2, 4}
    OBVIOUS
  <2>2. QED
    BY <1>1, <1>3, <1>4, <2>1, Reads DEF Ready
<1> HIDE DEF cells, f, P
<1>7. [machine EXCEPT !.reg["esp"] = Sum(machine.reg["ebp"], 4), !.reg["ebp"] = Fetched(a, 4)]
        = [reg |-> regs, mem |-> machine.mem]
  <2>1. machine = Processor(m_ctx, machine.mem)
    BY <1>5 DEF Processor
  <2>2. ChangeReg2(Processor(m_ctx, machine.mem), "esp", Sum(m_ctx["ebp"], 4), "ebp", f)
          = Processor(Change2(m_ctx, "esp", Sum(m_ctx["ebp"], 4), "ebp", f), machine.mem)
    BY TwoRegisters
  <2>3. ChangeReg2(machine, "esp", Sum(machine.reg["ebp"], 4), "ebp", Fetched(a, 4))
          = Processor(Change2(m_ctx, "esp", Sum(m_ctx["ebp"], 4), "ebp", f), machine.mem)
    BY <1>5, <1>6, <2>1, <2>2
  <2>4. QED
    BY <2>3, Zenon DEF Processor, Change2, ChangeReg2
<1>8. DOMAIN regs = DOMAIN file.place /\ InDwords(regs)
  BY <1>5, <1>6, SumIsWord DEF InDwords
<1>9. Turn(regs, cells, [reg |-> regs, mem |-> machine.mem], {P})
  BY <1>1, <1>7
<1> HIDE DEF regs
<1>10. QED
  BY <1>6, <1>8, <1>9, TurnSame

-----------------------------------------------------------------------------
(* A block only ever names more, and never becomes faithful again.         *)
LEMMA InstructionKeeps ==
  ASSUME Instruction, faithful', Unique(named')
  PROVE  faithful /\ Unique(named)
<1>1. PICK i \in file.code :
        \/ Load(i) \/ Store(i) \/ AddImmediate(i) \/ LoadAddress(i)
        \/ Push(i) \/ PushMemory(i) \/ Pop(i) \/ Call(i) \/ Ret(i) \/ Leave(i)
        \/ PassOver(i) \/ Ignored(i) \/ Refused(i)
  BY Zenon DEF Instruction
<1>2. \A regs, cells, M, places : Turn(regs, cells, M, places) => named \subseteq named'
  BY DEF Turn
<1> SUFFICES faithful /\ named \subseteq named'
  BY Zenon DEF Unique
<1>3. CASE Load(i)
  BY <1>2, <1>3, Zenon DEF Load
<1>4. CASE Store(i)
  BY <1>2, <1>4, Zenon DEF Store
<1>5. CASE AddImmediate(i)
  BY <1>2, <1>5, Zenon DEF AddImmediate
<1>6. CASE LoadAddress(i)
  BY <1>2, <1>6, Zenon DEF LoadAddress
<1>7. CASE Push(i)
  BY <1>2, <1>7, Zenon DEF Push
<1>8. CASE PushMemory(i)
  BY <1>2, <1>8, Zenon DEF PushMemory
<1>9. CASE Pop(i)
  BY <1>2, <1>9, Zenon DEF Pop
<1>10. CASE Call(i)
  BY <1>2, <1>10, Zenon DEF Call
<1>11. CASE Ret(i)
  BY <1>2, <1>11, Zenon DEF Ret
<1>12. CASE Leave(i)
  BY <1>2, <1>12, Zenon DEF Leave
<1>13. CASE PassOver(i)
  BY <1>2, <1>13, Zenon DEF PassOver
<1>14. CASE Ignored(i)
  BY <1>14, Zenon DEF Ignored
<1>15. CASE Refused(i)
  BY <1>15, Zenon DEF Refused
<1>16. QED
  BY <1>1, <1>3, <1>4, <1>5, <1>6, <1>7, <1>8, <1>9, <1>10, <1>11, <1>12, <1>13, <1>14, <1>15

LEMMA StartSame ==
  ASSUME NEW n, StartBlock(n), m_memory' = [t \in {} |-> <<>>], file' = file
  PROVE  Same'
<1> DEFINE regs == [r \in DOMAIN file.place |-> InitialReg(r)]
           mem == [a \in 0 .. Space - 1 |-> InitialByte(a)]
<1>1. /\ m_ctx' = regs /\ machine' = [reg |-> regs, mem |-> mem] /\ named' = {}
  BY DEF StartBlock
<1>2. \A r : Bytewise(InitialReg(r), 4)
  BY DEF InitialReg, Value, Bytewise
<1>3. DOMAIN regs = DOMAIN file.place /\ InDwords(regs)
  BY <1>2 DEF InDwords
<1>4. Matching(m_memory', {}, mem)
  BY DEF Matching
<1> HIDE DEF regs, mem
<1>5. machine'.mem = mem
  BY <1>1
<1>6. QED
  BY <1>1, <1>3, <1>4, <1>5, Zenon DEF Same

LEMMA RefusedSame ==
  ASSUME Same, NEW i \in file.code, Refused(i)
  PROVE  Same'
BY Zenon DEF Refused, Same

LEMMA InstructionSame ==
  ASSUME Ready, Instruction, faithful', Unique(named')
  PROVE  Same'
<1>1. PICK i \in file.code :
        \/ Load(i) \/ Store(i) \/ AddImmediate(i) \/ LoadAddress(i)
        \/ Push(i) \/ PushMemory(i) \/ Pop(i) \/ Call(i) \/ Ret(i) \/ Leave(i)
        \/ PassOver(i) \/ Ignored(i) \/ Refused(i)
  BY Zenon DEF Instruction
<1>2. CASE Ignored(i)
  BY <1>2, Zenon DEF Ignored
<1>3. CASE Refused(i)
  BY <1>3, RefusedSame DEF Ready
<1>4. QED
  BY <1>1, <1>2, <1>3, LoadSame, StoreSame, AddImmediateSame, LoadAddressSame,
     PushRegisterSame, PushMemorySame, PopSame, CallSame, RetSame, LeaveSame, PassOverSame

LEMMA ExactStep ==
  ASSUME ProgramsOK, Space \in Nat, StaticTypeOK, Exactly, [StaticNext]_staticVars
  PROVE  Exactly'
<1>1. Running => current # 0 /\ current + 1 # 0
  BY DEF Running, StaticTypeOK
<1>2. CASE InitBlock
  <2>1. current = 0 /\ m_memory = [t \in {} |-> <<>>] /\ file' = file
    BY <1>2 DEF InitBlock, Exactly
  <2>2. CASE Len(inst_list') = Len(file.blocks)
    <3>1. StartBlock(1) /\ m_memory' = m_memory
      BY <1>2, <2>2 DEF InitBlock
    <3>2. Same'
      BY <2>1, <3>1, StartSame
    <3>3. current' # 0
      BY <3>1 DEF StartBlock
    <3>4. QED
      BY <3>2, <3>3 DEF Exactly
  <2>3. CASE Len(inst_list') # Len(file.blocks)
    <3>1. current' = 0 /\ m_memory' = m_memory
      BY <1>2, <2>1, <2>3 DEF InitBlock, blockVars
    <3>2. QED
      BY <2>1, <3>1 DEF Exactly
  <2>4. QED
    BY <2>2, <2>3
<1>3. CASE NextBlock
  <2>1. /\ Running /\ StartBlock(current + 1) /\ file' = file
        /\ m_memory' = [t \in {} |-> <<>>]
    BY <1>3 DEF NextBlock
  <2>2. Same'
    BY <2>1, StartSame
  <2>3. QED
    BY <2>1, <2>2 DEF Exactly
<1>4. CASE Instruction
  <2>1. Running /\ current' = current
    BY <1>4, InstructionKeepsLists
  <2>2. ASSUME faithful', Unique(named') PROVE Same'
    <3>1. faithful /\ Unique(named)
      BY <1>4, <2>2, InstructionKeeps
    <3>2. Same
      BY <1>1, <2>1, <3>1 DEF Exactly
    <3>3. Ready
      BY <3>2 DEF Ready, StaticTypeOK
    <3>4. QED
      BY <1>4, <2>2, <3>3, InstructionSame
  <2>3. current' # 0
    BY <1>1, <2>1
  <2>4. QED
    BY <2>2, <2>3 DEF Exactly
<1>5. CASE UNCHANGED staticVars
  <2>1. UNCHANGED <<file, current, m_ctx, m_memory, machine, named, faithful>>
    BY <1>5 DEF staticVars, blockVars
  <2>2. Same => Same'
    BY <2>1, Zenon DEF Same
  <2>3. QED
    BY <2>1, <2>2 DEF Exactly
<1>6. QED
  BY <1>2, <1>3, <1>4, <1>5, Zenon DEF StaticNext, Instruction

LEMMA ExactlyIsExact ==
  ASSUME StaticTypeOK, Exactly
  PROVE  StaticExact
<1> SUFFICES ASSUME Running, faithful, OneToOne
             PROVE  /\ m_ctx = machine.reg
                    /\ \A t \in DOMAIN m_memory : \E p \in named :
                         p.text = t /\ ReadMem(m_memory, t, p.size) = Fetched(p.at, p.size)
  BY DEF StaticExact
<1>1. Unique(named)
  BY DEF OneToOne, Unique
<1>2. current # 0
  BY DEF Running, StaticTypeOK
<1>3. Same
  BY <1>1, <1>2 DEF Exactly
<1>4. m_ctx = machine.reg
  <2>1. machine = [reg |-> m_ctx, mem |-> machine.mem]
    BY <1>3, Zenon DEF Same
  <2>2. QED
    BY <2>1
<1>5. Matching(m_memory, named, machine.mem)
  BY <1>3, Zenon DEF Same
<1>6. ASSUME NEW t \in DOMAIN m_memory
      PROVE  \E p \in named :
               p.text = t /\ ReadMem(m_memory, t, p.size) = Fetched(p.at, p.size)
  <2>1. PICK p \in named : p.text = t
    BY <1>5 DEF Matching
  <2>2. /\ p.size \in {0, 1, 2, 4}
        /\ \A k \in 1 .. p.size : m_memory[p.text][k] = machine.mem[p.at + k - 1]
    BY <1>5 DEF Matching, IsPlace
  <2> DEFINE n == p.size
             f == ReadMem(m_memory, t, n)
  <2>3. Bytewise(f, n) /\ Agree(f, m_memory[t], n)
    BY <2>2, ReadMemIs
  <2> HIDE DEF f
  <2>4. f = Fetched(p.at, n)
    BY <2>1, <2>2, <2>3 DEF Agree, Bytewise, Fetched
  <2>5. QED
    BY <2>1, <2>4 DEF f
<1>7. QED
  BY <1>4, <1>6

(* The engine is the processor, in each block of each program, as long as  *)
(* texts and addresses are one to one and no instruction is taken for      *)
(* something else: the registers are, and each cell is what memory has at  *)
(* the place of its text.                                                  *)
THEOREM StaticIsExact ==
  ASSUME ProgramsOK, Space \in Nat
  PROVE  StaticSpec => []StaticExact
<1>1. StaticInit => StaticTypeOK /\ Dealt /\ Exactly
  BY BlocksInit DEF BlocksInv, StaticInit, NotStarted, Exactly
<1>2. StaticTypeOK /\ Dealt /\ Exactly /\ [StaticNext]_staticVars
        => (StaticTypeOK /\ Dealt /\ Exactly)'
  BY BlocksStep, ExactStep DEF BlocksInv
<1>3. StaticTypeOK /\ Exactly => StaticExact
  BY ExactlyIsExact
<1>4. QED
  BY <1>1, <1>2, <1>3, PTL DEF StaticSpec
=============================================================================
