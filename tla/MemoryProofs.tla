---------------------------- MODULE MemoryProofs ----------------------------
(***************************************************************************)
(* Proofs about the engines' memories, for every size of memory, contents  *)
(* and program.                                                            *)
(***************************************************************************)
EXTENDS MemoryEngines, TLAPS

Sizes   == {1, 2, 4}
Data(n) == [0 .. n - 1 -> Byte]
Cells   == [Address -> Word \cup {NoCell}]

-----------------------------------------------------------------------------
(* The dword of an address.                                                *)
LEMMA AlignType ==
  ASSUME NEW a \in Address
  PROVE  /\ Base(a) \in Address /\ Aligned(Base(a)) /\ Base(Base(a)) = Base(a)
         /\ Offset(a) \in 0 .. 3 /\ a = Base(a) + Offset(a)
         /\ \A i \in 0 .. 3 : Base(a) + i \in Address
BY WordsAssumption DEF Address, Base, Offset, Aligned

LEMMA DwordIn ==
  ASSUME NEW a \in Address, Aligned(a), NEW i \in 0 .. 3
  PROVE  a + i \in Address
BY WordsAssumption DEF Address, Aligned

(* Dwords do not overlap.                                                  *)
LEMMA DwordsApart ==
  ASSUME NEW a \in Address, NEW b \in Address, NEW i \in 0 .. 3, NEW j \in 0 .. 3,
         Aligned(a), Aligned(b), a + i = b + j
  PROVE  a = b /\ i = j
BY WordsAssumption DEF Address, Aligned

(* The bytes of an access lie in a cell.                                   *)
LEMMA Lanes ==
  ASSUME NEW a \in Address, NEW n \in Sizes
  PROVE  /\ CellOf(a, n) \in Address
         /\ FirstOf(a, n) \in 0 .. 3
         /\ \A i \in 0 .. n - 1 : FirstOf(a, n) + i \in 0 .. 3
<1>1. CellOf(a, n) \in Address
  BY AlignType DEF CellOf
<1>2. FirstOf(a, n) \in 0 .. 3 /\ \A i \in 0 .. n - 1 : FirstOf(a, n) + i \in 0 .. 3
  BY AlignType DEF FirstOf, Sizes
<1> QED
  BY <1>1, <1>2

(* A naturally aligned access uses the dword it lies in, byte for byte.    *)
LEMMA NaturalLanes ==
  ASSUME NEW a \in Address, NEW n \in Sizes, Natural(a, n)
  PROVE  /\ CellOf(a, n) = Base(a)
         /\ Base(a) + FirstOf(a, n) = a
         /\ ~ (n = 2 /\ Offset(a) \in {1, 3})
<1>1. CASE n = 1
  BY <1>1, AlignType DEF CellOf, FirstOf
<1>2. CASE n = 2
  <2>1. Offset(a) \in {0, 2}
    BY <1>2 DEF Natural, Offset, Address
  <2> QED
    BY <1>2, <2>1, AlignType DEF CellOf, FirstOf
<1>3. CASE n = 4
  <2>1. Offset(a) = 0
    BY <1>3 DEF Natural, Offset
  <2> QED
    BY <1>3, <2>1, AlignType DEF CellOf, FirstOf, Address
<1> QED
  BY <1>1, <1>2, <1>3 DEF Sizes

(* No dword is a cell that has not been entered.                           *)
LEMMA NoCellIsNoWord == NoCell \notin Word
BY DEF NoCell, Word

(* What is recorded for an instruction: the bytes of its dword.            *)
LEMMA DataType ==
  ASSUME mem \in [Address -> Byte], NEW a \in Address
  PROVE  /\ DataAt(a) \in Word
         /\ \A i \in 0 .. 3 : ~ DataAt(a)[i].key /\ DataAt(a)[i].v = mem[Base(a) + i].v
<1>1. \A i \in 0 .. 3 : mem[Base(a) + i] \in Byte
  BY AlignType
<1>2. DataAt(a) = [i \in 0 .. 3 |-> [v |-> mem[Base(a) + i].v, key |-> FALSE]]
  <2>1. \A i \in 0 .. 3 : Bytes(Base(a), 4)[i] = mem[Base(a) + i]
    BY DEF Bytes
  <2> QED
    BY <2>1 DEF DataAt, Plain
<1> QED
  BY <1>1, <1>2 DEF Word, Byte

-----------------------------------------------------------------------------
(* Cells before and after the comparison with the recorded data.           *)
LEMMA SelfCheckedType ==
  ASSUME NEW cs \in Cells, NEW a \in Address, NEW n, NEW md \in Word
  PROVE  /\ SelfChecked(cs, a, n, md) \in Cells
         /\ \A b \in Address : b # Base(a) => SelfChecked(cs, a, n, md)[b] = cs[b]
         /\ SelfChecked(cs, a, n, md)[Base(a)] =
              IF cs[Base(a)] = NoCell \/ Agrees(cs[Base(a)], a, n, md) THEN cs[Base(a)] ELSE md
         /\ \A b \in Address : SelfChecked(cs, a, n, md)[b] = NoCell <=> cs[b] = NoCell
BY AlignType, NoCellIsNoWord DEF SelfChecked, Cells

(* What readMem enters, reads and writes keeps the types.                  *)
LEMMA EnteredType ==
  ASSUME NEW cs \in Cells, NEW a \in Address, NEW n \in Sizes, NEW md \in Word
  PROVE  /\ Entered(cs, a, n, md) \in Cells
         /\ Entered(cs, a, n, md)[CellOf(a, n)] =
              IF cs[CellOf(a, n)] = NoCell THEN md ELSE cs[CellOf(a, n)]
         /\ Entered(cs, a, n, md)[CellOf(a, n)] \in Word
         /\ \A b \in Address : b # CellOf(a, n) => Entered(cs, a, n, md)[b] = cs[b]
BY Lanes DEF Entered, Cells

LEMMA ReadType ==
  ASSUME NEW cs \in Cells, NEW a \in Address, NEW n \in Sizes, NEW md \in Word
  PROVE  /\ AfterRead(cs, a, n, md) \in Cells
         /\ AfterRead(cs, a, n, md)[CellOf(a, n)] \in Word
         /\ ReadValue(AfterRead(cs, a, n, md), a, n) \in Data(n)
         /\ \A b \in Address : cs[b] # NoCell => AfterRead(cs, a, n, md)[b] # NoCell
<1> DEFINE checked == SelfChecked(cs, a, n, md)
           after   == AfterRead(cs, a, n, md)
<1>1. checked \in Cells /\ \A b \in Address : checked[b] = NoCell <=> cs[b] = NoCell
  BY SelfCheckedType
<1>2. after = Entered(checked, a, n, md)
  BY DEF AfterRead
<1> HIDE DEF checked, after
<1>3. /\ after \in Cells /\ after[CellOf(a, n)] \in Word
      /\ \A b \in Address : b # CellOf(a, n) => after[b] = checked[b]
  BY <1>1, <1>2, EnteredType
<1>4. \A b \in Address : cs[b] # NoCell => after[b] # NoCell
  BY <1>1, <1>3, NoCellIsNoWord
<1>5. ReadValue(after, a, n) \in Data(n)
  <2>1. \A i \in 0 .. n - 1 : after[CellOf(a, n)][FirstOf(a, n) + i] \in Byte
    BY <1>3, Lanes DEF Word
  <2> QED
    BY <2>1 DEF ReadValue, Data
<1> QED
  BY <1>3, <1>4, <1>5 DEF after

LEMMA WriteType ==
  ASSUME NEW cs \in Cells, NEW a \in Address, NEW n \in Sizes, NEW d \in Data(n),
         NEW md \in Word
  PROVE  /\ AfterWrite(cs, a, n, d, md) \in Cells
         /\ AfterWrite(cs, a, n, d, md)[CellOf(a, n)] \in Word
         /\ \A i \in 0 .. 3 : AfterWrite(cs, a, n, d, md)[CellOf(a, n)][i] =
              IF i \in FirstOf(a, n) .. FirstOf(a, n) + n - 1 THEN d[i - FirstOf(a, n)]
              ELSE Entered(cs, a, n, md)[CellOf(a, n)][i]
         /\ \A b \in Address : b # CellOf(a, n) => AfterWrite(cs, a, n, d, md)[b] = cs[b]
<1> DEFINE first == FirstOf(a, n)
           old   == Entered(cs, a, n, md)[CellOf(a, n)]
           cell  == [i \in 0 .. 3 |->
                       IF i \in first .. first + n - 1 THEN d[i - first] ELSE old[i]]
<1>1. old \in Word /\ first \in 0 .. 3 /\ CellOf(a, n) \in Address
  BY EnteredType, Lanes
<1>2. AfterWrite(cs, a, n, d, md) = [cs EXCEPT ![CellOf(a, n)] = cell]
  BY DEF AfterWrite
<1> HIDE DEF first, old
<1>3. \A i \in 0 .. 3 : i \in first .. first + n - 1 => i - first \in 0 .. n - 1
  BY <1>1 DEF Sizes
<1>4. cell \in Word
  BY <1>1, <1>3 DEF Word, Data
<1>5. \A i \in 0 .. 3 : cell[i] = IF i \in first .. first + n - 1 THEN d[i - first] ELSE old[i]
  OBVIOUS
<1> HIDE DEF cell
<1>6. /\ [cs EXCEPT ![CellOf(a, n)] = cell] \in Cells
      /\ [cs EXCEPT ![CellOf(a, n)] = cell][CellOf(a, n)] = cell
      /\ \A b \in Address : b # CellOf(a, n) => [cs EXCEPT ![CellOf(a, n)] = cell][b] = cs[b]
  BY <1>1, <1>4 DEF Cells
<1> QED
  BY <1>2, <1>4, <1>5, <1>6 DEF first, old

(* Writing leaves a memory.                                                *)
LEMMA MemWithType ==
  ASSUME mem \in [Address -> Byte], NEW a \in Address, NEW n \in Sizes, NEW d \in Data(n)
  PROVE  /\ MemWith(a, n, d) \in [Address -> Byte]
         /\ \A b \in Address : MemWith(a, n, d)[b] =
                                 IF b \in a .. a + n - 1 THEN d[b - a] ELSE mem[b]
<1>1. \A b \in Address : b \in a .. a + n - 1 => b - a \in 0 .. n - 1
  BY WordsAssumption DEF Address, Sizes
<1>2. \A b \in Address : (IF b \in a .. a + n - 1 THEN d[b - a] ELSE mem[b]) \in Byte
  BY <1>1 DEF Data
<1> QED
  BY <1>2 DEF MemWith

(* What is read is a piece of memory.                                      *)
LEMMA BytesType ==
  ASSUME mem \in [Address -> Byte], NEW a \in Address, NEW n \in Sizes, a + n - 1 \in Address
  PROVE  Bytes(a, n) \in Data(n) /\ \A i \in 0 .. n - 1 : Bytes(a, n)[i] = mem[a + i]
<1>1. \A i \in 0 .. n - 1 : a + i \in Address
  BY WordsAssumption DEF Address, Sizes
<1> QED
  BY <1>1 DEF Bytes, Data

(* Cells and memory m agree, as far as rel says, byte by byte.             *)
Follows(rel, cs, m) ==
  \A a \in Address : (Aligned(a) /\ cs[a] # NoCell) =>
    \A i \in 0 .. 3 : <<cs[a][i], m[a + i]>> \in rel

(* A read keeps the agreement, if the recorded data agree where they are   *)
(* used, and delivers bytes that agree.                                    *)
LEMMA ReadFollows ==
  ASSUME NEW rel, NEW cs \in Cells, NEW m, NEW a \in Address, NEW n \in Sizes, NEW md \in Word,
         Natural(a, n), Follows(rel, cs, m),
         (cs[Base(a)] = NoCell \/ ~ Agrees(cs[Base(a)], a, n, md)) =>
            \A i \in 0 .. 3 : <<md[i], m[Base(a) + i]>> \in rel
  PROVE  /\ Follows(rel, AfterRead(cs, a, n, md), m)
         /\ \A i \in 0 .. n - 1 :
              <<ReadValue(AfterRead(cs, a, n, md), a, n)[i], m[a + i]>> \in rel
<1> DEFINE checked == SelfChecked(cs, a, n, md)
           after   == AfterRead(cs, a, n, md)
<1>0. CellOf(a, n) = Base(a) /\ Base(a) \in Address /\ Aligned(Base(a))
  BY NaturalLanes, AlignType
<1>1. /\ checked \in Cells /\ \A b \in Address : b # Base(a) => checked[b] = cs[b]
      /\ checked[Base(a)] =
           IF cs[Base(a)] = NoCell \/ Agrees(cs[Base(a)], a, n, md) THEN cs[Base(a)] ELSE md
  BY SelfCheckedType
<1>2. after = Entered(checked, a, n, md)
  BY DEF AfterRead
<1> HIDE DEF checked, after
<1>3. /\ after[Base(a)] = IF checked[Base(a)] = NoCell THEN md ELSE checked[Base(a)]
      /\ \A b \in Address : b # Base(a) => after[b] = cs[b]
  BY <1>0, <1>1, <1>2, EnteredType
<1>4. \A i \in 0 .. 3 : <<after[Base(a)][i], m[Base(a) + i]>> \in rel
  <2>1. CASE cs[Base(a)] = NoCell \/ ~ Agrees(cs[Base(a)], a, n, md)
    <3>1. after[Base(a)] = md
      BY <1>1, <1>3, <2>1
    <3> QED
      BY <2>1, <3>1
  <2>2. CASE cs[Base(a)] # NoCell /\ Agrees(cs[Base(a)], a, n, md)
    <3>1. after[Base(a)] = cs[Base(a)]
      BY <1>1, <1>3, <2>2
    <3> QED
      BY <1>0, <2>2, <3>1 DEF Follows
  <2> QED
    BY <2>1, <2>2
<1>5. Follows(rel, after, m)
  <2> SUFFICES ASSUME NEW b \in Address, Aligned(b), after[b] # NoCell
               PROVE  \A i \in 0 .. 3 : <<after[b][i], m[b + i]>> \in rel
    BY DEF Follows
  <2>1. CASE b = Base(a)
    BY <1>4, <2>1
  <2>2. CASE b # Base(a)
    BY <1>3, <2>2 DEF Follows
  <2> QED
    BY <2>1, <2>2
<1>6. ASSUME NEW i \in 0 .. n - 1 PROVE <<ReadValue(after, a, n)[i], m[a + i]>> \in rel
  <2>0. FirstOf(a, n) \in Int /\ Base(a) \in Int /\ Base(a) + FirstOf(a, n) = a
    BY <1>0, Lanes, NaturalLanes DEF Address
  <2>1. FirstOf(a, n) + i \in 0 .. 3 /\ Base(a) + (FirstOf(a, n) + i) = a + i
    BY <2>0, Lanes
  <2>2. ReadValue(after, a, n)[i] = after[Base(a)][FirstOf(a, n) + i]
    BY <1>0 DEF ReadValue
  <2> QED
    BY <1>4, <2>1, <2>2
<1> QED
  BY <1>5, <1>6 DEF after

(* A naturally aligned write leaves the other dwords alone.                *)
LEMMA WriteElsewhere ==
  ASSUME mem \in [Address -> Byte], NEW a \in Address, NEW n \in Sizes, NEW e \in Data(n),
         Natural(a, n), NEW b \in Address, Aligned(b), b # Base(a), NEW i \in 0 .. 3
  PROVE  MemWith(a, n, e)[b + i] = mem[b + i]
<1>1. /\ Base(a) \in Address /\ Aligned(Base(a)) /\ Base(a) + FirstOf(a, n) = a
      /\ FirstOf(a, n) \in 0 .. 3 /\ \A k \in 0 .. n - 1 : FirstOf(a, n) + k \in 0 .. 3
  BY NaturalLanes, AlignType, Lanes
<1>2. a \in Int /\ b \in Int /\ n \in Int /\ Base(a) \in Int /\ FirstOf(a, n) \in Int
  BY <1>1 DEF Address, Sizes
<1>3. b + i \notin a .. a + n - 1
  <2> SUFFICES ASSUME b + i \in a .. a + n - 1 PROVE FALSE
    OBVIOUS
  <2> DEFINE k == b + i - a
  <2>1. k \in 0 .. n - 1 /\ b + i = a + k
    BY <1>2
  <2>2. FirstOf(a, n) + k \in 0 .. 3
    BY <1>1, <2>1
  <2>3. b + i = Base(a) + (FirstOf(a, n) + k)
    BY <1>1, <1>2, <2>1
  <2> HIDE DEF k
  <2> QED
    BY <1>1, <2>2, <2>3, DwordsApart
<1>4. b + i \in Address
  BY DwordIn
<1>5. \A c \in Address : MemWith(a, n, e)[c] = IF c \in a .. a + n - 1 THEN e[c - a] ELSE mem[c]
  BY MemWithType
<1> QED
  BY <1>3, <1>4, <1>5

(* A write of bytes d by the engine and e by the program keeps it.         *)
LEMMA WriteFollows ==
  ASSUME mem \in [Address -> Byte], NEW rel, NEW cs \in Cells, NEW a \in Address,
         NEW n \in Sizes, NEW d \in Data(n), NEW e \in Data(n), NEW md \in Word,
         Natural(a, n), Follows(rel, cs, mem), \A i \in 0 .. n - 1 : <<d[i], e[i]>> \in rel,
         (n # 4 /\ cs[Base(a)] = NoCell) =>
            \A i \in 0 .. 3 : <<md[i], mem[Base(a) + i]>> \in rel
  PROVE  Follows(rel, AfterWrite(cs, a, n, d, md), MemWith(a, n, e))
<1> DEFINE first == FirstOf(a, n)
           after == AfterWrite(cs, a, n, d, md)
           m     == MemWith(a, n, e)
<1>0. /\ CellOf(a, n) = Base(a) /\ Base(a) \in Address /\ Aligned(Base(a))
      /\ first \in 0 .. 3 /\ Base(a) + first = a /\ n \in 1 .. 4
      /\ \A i \in 0 .. n - 1 : first + i \in 0 .. 3
  BY NaturalLanes, AlignType, Lanes DEF Sizes
<1>1. \A b \in Address : m[b] = IF b \in a .. a + n - 1 THEN e[b - a] ELSE mem[b]
  BY MemWithType
<1>2. /\ \A i \in 0 .. 3 : after[Base(a)][i] =
           IF i \in first .. first + n - 1 THEN d[i - first]
           ELSE Entered(cs, a, n, md)[Base(a)][i]
      /\ \A b \in Address : b # Base(a) => after[b] = cs[b]
  BY <1>0, WriteType
<1>3. Entered(cs, a, n, md)[Base(a)] = IF cs[Base(a)] = NoCell THEN md ELSE cs[Base(a)]
  BY <1>0, EnteredType
<1>4. n # 4 => \A i \in 0 .. 3 : <<Entered(cs, a, n, md)[Base(a)][i], mem[Base(a) + i]>> \in rel
  <2>1. CASE cs[Base(a)] = NoCell
    BY <1>3, <2>1
  <2>2. CASE cs[Base(a)] # NoCell
    BY <1>0, <1>3, <2>2 DEF Follows
  <2> QED
    BY <2>1, <2>2
<1> HIDE DEF first, after, m
<1> SUFFICES ASSUME NEW b \in Address, Aligned(b), after[b] # NoCell, NEW i \in 0 .. 3
             PROVE  <<after[b][i], m[b + i]>> \in rel
  BY DEF Follows, after, m
<1>5. b + i \in Address
  BY DwordIn
<1>n. a \in Int /\ b \in Int /\ Base(a) \in Int /\ n \in Int /\ Base(a) + first = a /\ first \in Int
  BY <1>0 DEF Address
<1>6. CASE b = Base(a)
  <2>1. CASE i \in first .. first + n - 1
    <3>1. b + i \in a .. a + n - 1 /\ b + i - a = i - first /\ i - first \in 0 .. n - 1
      BY <1>n, <1>6, <2>1
    <3>2. m[b + i] = e[i - first]
      <4> DEFINE c == b + i
      <4>1. c \in Address /\ c \in a .. a + n - 1 /\ c - a = i - first
        BY <1>5, <1>n, <3>1 DEF Address
      <4> HIDE DEF c
      <4>2. m[c] = e[c - a]
        BY <1>1, <4>1
      <4> QED
        BY <4>1, <4>2 DEF c
    <3>3. after[b][i] = d[i - first]
      BY <1>2, <1>6, <2>1
    <3> QED
      BY <3>1, <3>2, <3>3
  <2>2. CASE i \notin first .. first + n - 1
    <3>1. b + i \notin a .. a + n - 1
      BY <1>n, <1>6, <2>2
    <3>2. n # 4
      BY <1>n, <1>0, <2>2
    <3>3. after[b][i] = Entered(cs, a, n, md)[Base(a)][i] /\ m[b + i] = mem[b + i]
      BY <1>1, <1>2, <1>5, <1>6, <2>2, <3>1
    <3> QED
      BY <1>4, <1>6, <3>2, <3>3
  <2> QED
    BY <2>1, <2>2
<1>7. CASE b # Base(a)
  <2>1. m[b + i] = mem[b + i]
    BY <1>0, <1>7, WriteElsewhere DEF m
  <2>2. after[b] = cs[b]
    BY <1>2, <1>7
  <2> QED
    BY <2>1, <2>2 DEF Follows
<1> QED
  BY <1>6, <1>7

-----------------------------------------------------------------------------
(* What the last instruction read has the size it asked for.               *)
SeenOK ==
  seen # NothingSeen =>
    \E acc \in prog.accesses :
      seen.access = acc /\ seen.got \in Data(acc[2]) /\ seen.want \in Data(acc[2])

(* The turns left of a libc call stay within the dwords it may be given;   *)
(* calloc's value is 0.                                                    *)
CallOK ==
  call # NoCall =>
    /\ call.fun \in prog.kinds
    /\ call.fun = "calloc" => call.c = 0
    /\ \A i \in 0 .. call.left - 1 :
         <<call.dst + 4 * i, 4>> \in prog.accesses /\ <<call.src + 4 * i, 4>> \in prog.accesses

(* The recorded data are constants.                                        *)
DataOK == \A i \in 0 .. 3 : ~ memData[i].key

MemoryOK == TypeOK /\ SeenOK /\ CallOK /\ DataOK

(* The accesses of a program.                                              *)
LEMMA AccessType ==
  ASSUME prog \in Programs, NEW acc \in prog.accesses
  PROVE  /\ acc = <<acc[1], acc[2]>> /\ acc[1] \in Address /\ acc[2] \in Sizes
         /\ acc[1] + acc[2] - 1 \in Address
         /\ Understood => Natural(acc[1], acc[2])
BY ProgramAssumption DEF Program, Sizes, Understood

(* The data of a program.                                                  *)
LEMMA ProgramData ==
  ASSUME prog \in Programs, NEW d \in prog.data, NEW n \in Sizes, DOMAIN d = 0 .. n - 1
  PROVE  d \in Data(n)
<1>1. PICK m \in {1, 2, 4} : d \in [0 .. m - 1 -> Byte]
  BY ProgramAssumption DEF Program
<1>2. 0 .. m - 1 = 0 .. n - 1
  BY <1>1
<1> QED
  BY <1>1, <1>2 DEF Data

(* What was read, when it has the size of a register.                      *)
LEMMA HeldType ==
  ASSUME prog \in Programs, SeenOK, NEW n \in Sizes, DOMAIN seen.got = 0 .. n - 1
  PROVE  /\ seen # NothingSeen /\ seen.got \in Data(n) /\ seen.want \in Data(n)
         /\ seen.access \in prog.accesses /\ seen.access[2] = n
<1>1. seen # NothingSeen
  <2>1. 0 \in 0 .. n - 1
    BY DEF Sizes
  <2>2. NothingSeen.got = <<>> /\ 0 \notin DOMAIN <<>>
    BY DEF NothingSeen
  <2> QED
    BY <2>1, <2>2
<1>2. PICK acc \in prog.accesses :
        seen.access = acc /\ seen.got \in Data(acc[2]) /\ seen.want \in Data(acc[2])
  BY <1>1 DEF SeenOK
<1>3. acc[2] \in Sizes
  BY AccessType
<1>4. 0 .. acc[2] - 1 = 0 .. n - 1
  BY <1>2 DEF Data
<1>5. acc[2] = n
  BY <1>3, <1>4 DEF Sizes
<1> QED
  BY <1>1, <1>2, <1>5

(* Constants.                                                              *)
LEMMA ConstantType ==
  ASSUME NEW c \in Values
  PROVE  Constant(c) \in Byte /\ Constant(c).v = c /\ ~ Constant(c).key
BY DEF Constant, Byte

(* What is seen before the first access, and cells of nothing but zeros.   *)
LEMMA NothingType ==
  /\ NothingSeen.got = <<>> /\ NothingSeen.want = <<>> /\ <<>> \in Piece
<1>1. <<>> \in Piece
  BY Zenon DEF Piece
<1>2. NothingSeen.got = <<>> /\ NothingSeen.want = <<>>
  BY Zenon DEF NothingSeen
<1> QED
  BY <1>1, <1>2

LEMMA ZeroType == ZeroWord \in Word /\ \A i \in 0 .. 3 : ZeroWord[i] = Constant(0)
BY ValuesAssumption DEF ZeroWord, Constant, Word, Byte

(* No libc call is the absence of one.                                     *)
LEMMA CallIsCall == NoCall \notin Call /\ \A r \in Call : r # NoCall
<1>1. DOMAIN NoCall = {"fun"}
  BY DEF NoCall
<1>2. \A r \in Call : DOMAIN r = {"fun", "dst", "src", "left", "c"}
  BY DEF Call
<1> QED
  BY <1>1, <1>2

(* The key's bytes are where init puts them.                               *)
LEMMA KeyBytes ==
  ASSUME prog \in Programs, NEW i \in 1 .. Len(prog.key)
  PROVE  /\ prog.key[i].addr \in Address /\ prog.key[i].addr \in KeyAt
         /\ prog.key[i].offset + 1 \in 1 .. Len(prog.key)
         /\ \A j \in 1 .. Len(prog.key) : prog.key[i].addr = prog.key[j].addr => i = j
<1>1. Program(prog)
  BY ProgramAssumption
<1>2. /\ prog.key \in Seq([addr : Address, offset : Nat]) /\ prog.key[i].offset < i
      /\ \A j \in 1 .. Len(prog.key) : prog.key[i].addr = prog.key[j].addr => i = j
  BY <1>1 DEF Program
<1> DEFINE Line == [addr : Address, offset : Nat]
<1>3. Len(prog.key) \in Nat /\ prog.key[i] \in Line
  <2>1. prog.key \in Seq(Line)
    BY <1>2
  <2> HIDE DEF Line
  <2> QED
    BY <2>1
<1>4. prog.key[i].offset \in Nat /\ prog.key[i].addr \in Address
  BY <1>3
<1> QED
  BY <1>2, <1>3, <1>4 DEF KeyAt

(* The cells that init makes for the key.                                  *)
LEMMA KeyCellType ==
  ASSUME prog \in Programs, mem \in [Address -> Byte], NEW a \in Address
  PROVE  /\ KeyCell(a) \in Word
         /\ \A i \in 0 .. 3 : (KeyCell(a)[i].key <=> a + i \in KeyAt)
<1>1. ASSUME NEW k \in 1 .. Len(prog.key) PROVE SeedValue(k) \in Values
  <2>1. prog.key[prog.key[k].offset + 1].addr \in Address
    BY KeyBytes
  <2>2. mem[prog.key[prog.key[k].offset + 1].addr] \in Byte
    BY <2>1
  <2> QED
    BY <2>2 DEF SeedValue, Byte
<1>2. ASSUME NEW i \in 0 .. 3
      PROVE  KeyCell(a)[i] \in Byte /\ (KeyCell(a)[i].key <=> a + i \in KeyAt)
  <2>1. CASE a + i \in KeyAt
    <3> DEFINE k == CHOOSE j \in 1 .. Len(prog.key) : prog.key[j].addr = a + i
    <3>1. k \in 1 .. Len(prog.key)
      BY <2>1 DEF KeyAt
    <3>2. KeyCell(a)[i] = [v |-> SeedValue(k), key |-> TRUE]
      BY <2>1 DEF KeyCell
    <3>3. SeedValue(k) \in Values
      BY <1>1, <3>1
    <3> HIDE DEF k
    <3>4. KeyCell(a)[i] \in Byte /\ KeyCell(a)[i].key
      BY <3>2, <3>3 DEF Byte
    <3> QED
      BY <2>1, <3>4
  <2>2. CASE a + i \notin KeyAt
    <3>1. KeyCell(a)[i] = Constant(0)
      BY <2>2 DEF KeyCell
    <3> QED
      BY <2>2, <3>1, ConstantType, ValuesAssumption
  <2> QED
    BY <2>1, <2>2
<1>3. KeyCell(a) = [i \in 0 .. 3 |-> KeyCell(a)[i]]
  BY DEF KeyCell
<1> QED
  BY <1>2, <1>3 DEF Word

LEMMA MemoryInit == Init => MemoryOK
<1> SUFFICES ASSUME Init PROVE MemoryOK
  OBVIOUS
<1>1. prog \in Programs /\ seen = NothingSeen /\ call = NoCall /\ memData = ZeroWord
  BY DEF Init, IdealInit
<1>2. mem \in [Address -> Byte]
  <2>1. PICK m \in Contents : mem = [a \in Address |-> [v |-> m[a], key |-> a \in KeyAt]]
    BY DEF Init, IdealInit
  <2>2. \A a \in Address : m[a] \in Values
    BY ContentsAssumption
  <2> QED
    BY <2>1, <2>2 DEF Byte
<1>3. cells \in [Address -> Word \cup {NoCell}]
  BY <1>1, <1>2, KeyCellType DEF Init
<1>4. seen.got \in Piece /\ seen.want \in Piece
  BY <1>1, NothingType
<1> QED
  BY <1>1, <1>2, <1>3, <1>4, ZeroType DEF MemoryOK, TypeOK, SeenOK, CallOK, DataOK, Constant

(* Where an instruction leaves the libc call alone, and says what it saw.  *)
LEMMA SteppedOK ==
  ASSUME MemoryOK, UNCHANGED <<prog, call>>,
         cells' \in Cells, mem' \in [Address -> Byte], memData' \in Word,
         \A i \in 0 .. 3 : ~ memData'[i].key,
         \/ seen' = NothingSeen
         \/ \E acc \in prog.accesses :
              seen'.access = acc /\ seen'.got \in Data(acc[2]) /\ seen'.want \in Data(acc[2])
  PROVE  MemoryOK'
<1>1. seen'.got \in Piece /\ seen'.want \in Piece
  <2>1. CASE seen' = NothingSeen
    BY <2>1, NothingType
  <2>2. ASSUME NEW acc \in prog.accesses,
               seen'.got \in Data(acc[2]) /\ seen'.want \in Data(acc[2])
        PROVE  seen'.got \in Piece /\ seen'.want \in Piece
    <3>1. acc[2] \in {1, 2, 4}
      BY AccessType DEF MemoryOK, TypeOK, Sizes
    <3> QED
      BY <2>2, <3>1 DEF Piece, Data
  <2> QED
    BY <2>1, <2>2
<1>2. SeenOK'
  BY DEF SeenOK
<1>3. CallOK'
  BY DEF CallOK, MemoryOK
<1> QED
  BY <1>1, <1>2, <1>3 DEF MemoryOK, TypeOK, DataOK, Cells

(* Where a turn of a libc call goes on.                                    *)
LEMMA TurnOK ==
  ASSUME MemoryOK, call # NoCall, UNCHANGED <<prog, seen, memData>>, EndOfTurn,
         cells' \in Cells, mem' \in [Address -> Byte]
  PROVE  MemoryOK'
<1>1. call \in Call /\ call.left \in 1 .. Words
  BY DEF MemoryOK, TypeOK, Call
<1>2. /\ call.fun \in prog.kinds /\ (call.fun = "calloc" => call.c = 0)
      /\ \A i \in 0 .. call.left - 1 :
           <<call.dst + 4 * i, 4>> \in prog.accesses /\ <<call.src + 4 * i, 4>> \in prog.accesses
  BY DEF MemoryOK, CallOK
<1>3. CASE call.left = 1
  <2>1. call' = NoCall
    BY <1>3 DEF EndOfTurn
  <2> QED
    BY <2>1 DEF MemoryOK, TypeOK, SeenOK, CallOK, DataOK, Cells
<1>4. CASE call.left # 1
  <2> DEFINE next == [call EXCEPT !.left = @ - 1, !.dst = @ + 4, !.src = @ + 4]
  <2>1. call' = next
    BY <1>4 DEF EndOfTurn
  <2>2. call.left \in Int /\ call.left > 1 /\ call.left - 1 \in 1 .. Words
    BY <1>1, <1>4, WordsAssumption
  <2>3. /\ next.left = call.left - 1 /\ next.dst = call.dst + 4 /\ next.src = call.src + 4
        /\ next.fun = call.fun /\ next.c = call.c
    BY <1>1 DEF Call
  <2>4. call.dst \in Int /\ call.src \in Int
    BY <1>1 DEF Call, Address
  <2>5. ASSUME NEW i \in 0 .. next.left - 1
        PROVE  <<next.dst + 4 * i, 4>> \in prog.accesses /\ <<next.src + 4 * i, 4>> \in prog.accesses
    <3>1. i + 1 \in 0 .. call.left - 1
      BY <2>2, <2>3
    <3>2. /\ next.dst + 4 * i = call.dst + 4 * (i + 1)
          /\ next.src + 4 * i = call.src + 4 * (i + 1)
      BY <2>3, <2>4
    <3> QED
      BY <1>2, <3>1, <3>2
  <2>6. next.dst \in Address /\ next.src \in Address
    <3>1. 0 \in 0 .. next.left - 1
      BY <2>2, <2>3
    <3>2. next.dst + 4 * 0 = next.dst /\ next.src + 4 * 0 = next.src
      BY <2>3, <2>4
    <3>3. <<next.dst, 4>> \in prog.accesses /\ <<next.src, 4>> \in prog.accesses
      BY <2>5, <3>1, <3>2
    <3> QED
      BY <3>3, AccessType DEF MemoryOK, TypeOK
  <2>7. next \in Call
    BY <1>1, <2>2, <2>3, <2>6 DEF Call
  <2> HIDE DEF next
  <2>8. CallOK'
    BY <1>2, <2>1, <2>3, <2>5 DEF CallOK
  <2> QED
    BY <2>1, <2>7, <2>8 DEF MemoryOK, TypeOK, SeenOK, DataOK, Cells
<1> QED
  BY <1>3, <1>4

(* A word that a libc model sets.                                          *)
LEMMA SetType ==
  ASSUME NEW r \in Call
  PROVE  /\ [i \in 0 .. 3 |-> Constant(IF i = 0 THEN r.c ELSE 0)] \in Data(4)
         /\ [i \in 0 .. 3 |-> Constant(r.c)] \in Data(4)
<1>1. r.c \in Values
  BY DEF Call
<1>2. \A i \in 0 .. 3 : Constant(IF i = 0 THEN r.c ELSE 0) \in Byte /\ Constant(r.c) \in Byte
  BY <1>1, ConstantType, ValuesAssumption
<1>3. 0 .. 3 = 0 .. 4 - 1
  OBVIOUS
<1> QED
  BY <1>2, <1>3 DEF Data

(* One step per instruction and per word of a libc call.                   *)
LEMMA MemoryStep == MemoryOK /\ [Next]_vars => MemoryOK'
<1> SUFFICES ASSUME MemoryOK, [Next]_vars PROVE MemoryOK'
  OBVIOUS
<1>0. /\ prog \in Programs /\ mem \in [Address -> Byte] /\ cells \in Cells /\ memData \in Word
      /\ call \in Call \cup {NoCall} /\ SeenOK /\ CallOK
  BY DEF MemoryOK, TypeOK, Cells
<1>1. ASSUME NEW acc \in prog.accesses, Load(acc[1], acc[2]) PROVE MemoryOK'
  <2>1. acc = <<acc[1], acc[2]>> /\ acc[1] \in Address /\ acc[2] \in Sizes /\ acc[1] + acc[2] - 1 \in Address
    BY <1>0, AccessType
  <2>2. DataAt(acc[1]) \in Word /\ \A i \in 0 .. 3 : ~ DataAt(acc[1])[i].key
    BY <1>0, <2>1, DataType
  <2>3. /\ UNCHANGED <<prog, call>> /\ mem' = mem /\ memData' = DataAt(acc[1])
        /\ cells' = AfterRead(cells, acc[1], acc[2], DataAt(acc[1]))
        /\ seen'.access = <<acc[1], acc[2]>> /\ seen'.want = Bytes(acc[1], acc[2])
        /\ seen'.got = ReadValue(AfterRead(cells, acc[1], acc[2], DataAt(acc[1])), acc[1], acc[2])
    BY <1>1 DEF Load, Instruction, See
  <2>4. /\ cells' \in Cells /\ seen'.got \in Data(acc[2]) /\ seen'.want \in Data(acc[2])
        /\ seen'.access = acc
    BY <1>0, <2>1, <2>2, <2>3, ReadType, BytesType
  <2>5. \E x \in prog.accesses :
              seen'.access = x /\ seen'.got \in Data(x[2]) /\ seen'.want \in Data(x[2])
    BY <2>4
  <2>6. memData' \in Word /\ (\A i \in 0 .. 3 : ~ memData'[i].key) /\ mem' \in [Address -> Byte]
    BY <1>0, <2>2, <2>3
  <2> QED
    BY <2>3, <2>4, <2>5, <2>6, SteppedOK
<1>2. ASSUME NEW acc \in prog.accesses, NEW d \in prog.data, DOMAIN d = 0 .. acc[2] - 1
      PROVE  /\ Store(acc[1], acc[2], d) => MemoryOK'
             /\ Update(acc[1], acc[2], d) => MemoryOK'
             /\ Unmodelled(acc[1], acc[2], d) => MemoryOK'
  <2>1. acc = <<acc[1], acc[2]>> /\ acc[1] \in Address /\ acc[2] \in Sizes /\ acc[1] + acc[2] - 1 \in Address
    BY <1>0, AccessType
  <2>2. DataAt(acc[1]) \in Word /\ \A i \in 0 .. 3 : ~ DataAt(acc[1])[i].key
    BY <1>0, <2>1, DataType
  <2>3. d \in Data(acc[2])
    BY <1>0, <1>2, <2>1, ProgramData
  <2>4. MemWith(acc[1], acc[2], d) \in [Address -> Byte]
    BY <1>0, <2>1, <2>3, MemWithType
  <2>5. ASSUME Store(acc[1], acc[2], d) PROVE MemoryOK'
    <3>1. /\ UNCHANGED <<prog, call>> /\ mem' = MemWith(acc[1], acc[2], d)
          /\ memData' = DataAt(acc[1]) /\ seen' = NothingSeen
          /\ cells' = AfterWrite(cells, acc[1], acc[2], d, DataAt(acc[1]))
      BY <2>5 DEF Store, Instruction
    <3>2. cells' \in Cells
      BY <1>0, <2>1, <2>2, <2>3, <3>1, WriteType
    <3> QED
      BY <2>2, <2>4, <3>1, <3>2, SteppedOK
  <2>6. ASSUME Update(acc[1], acc[2], d) PROVE MemoryOK'
    <3> DEFINE cs == AfterRead(cells, acc[1], acc[2], DataAt(acc[1]))
    <3>1. /\ UNCHANGED <<prog, call>> /\ mem' = MemWith(acc[1], acc[2], d)
          /\ memData' = DataAt(acc[1])
          /\ seen'.access = <<acc[1], acc[2]>> /\ seen'.want = Bytes(acc[1], acc[2])
          /\ seen'.got = ReadValue(cs, acc[1], acc[2])
          /\ cells' = AfterWrite(cs, acc[1], acc[2], d, DataAt(acc[1]))
      BY <2>6 DEF Update, Instruction, See
    <3>2. cs \in Cells /\ ReadValue(cs, acc[1], acc[2]) \in Data(acc[2])
      BY <1>0, <2>1, <2>2, ReadType
    <3> HIDE DEF cs
    <3>3. cells' \in Cells /\ seen'.want \in Data(acc[2])
      BY <1>0, <2>1, <2>2, <2>3, <3>1, <3>2, WriteType, BytesType
    <3>4. \E x \in prog.accesses :
              seen'.access = x /\ seen'.got \in Data(x[2]) /\ seen'.want \in Data(x[2])
      BY <2>1, <3>1, <3>2, <3>3
    <3> QED
      BY <2>2, <2>4, <3>1, <3>3, <3>4, SteppedOK
  <2>7. ASSUME Unmodelled(acc[1], acc[2], d) PROVE MemoryOK'
    <3>1. /\ UNCHANGED <<prog, call>> /\ mem' = MemWith(acc[1], acc[2], d)
          /\ memData' = ZeroWord /\ seen' = NothingSeen /\ cells' = cells
      BY <2>7 DEF Unmodelled, Instruction
    <3>2. memData' \in Word /\ \A i \in 0 .. 3 : ~ memData'[i].key
      BY <3>1, ZeroType, ConstantType, ValuesAssumption
    <3> QED
      BY <1>0, <2>4, <3>1, <3>2, SteppedOK
  <2> QED
    BY <2>5, <2>6, <2>7
<1>3. ASSUME NEW acc \in prog.accesses, StoreLoaded(acc[1], acc[2]) PROVE MemoryOK'
  <2> DEFINE held == IF \A i \in 0 .. acc[2] - 1 : seen.got[i].v = seen.want[i].v
                     THEN seen.got
                     ELSE [i \in 0 .. acc[2] - 1 |-> Constant(seen.want[i].v)]
  <2>1. acc[1] \in Address /\ acc[2] \in Sizes
    BY <1>0, AccessType
  <2>2. /\ UNCHANGED <<prog, call>> /\ mem' = MemWith(acc[1], acc[2], seen.want)
        /\ memData' = DataAt(acc[1]) /\ seen' = NothingSeen
        /\ cells' = AfterWrite(cells, acc[1], acc[2], held, DataAt(acc[1]))
        /\ DOMAIN seen.got = 0 .. acc[2] - 1
    BY <1>3 DEF StoreLoaded, Instruction
  <2>3. seen.got \in Data(acc[2]) /\ seen.want \in Data(acc[2])
    BY <1>0, <2>1, <2>2, HeldType
  <2>4. held \in Data(acc[2])
    <3>1. \A i \in 0 .. acc[2] - 1 : seen.want[i] \in Byte
      BY <2>3 DEF Data
    <3>2. \A i \in 0 .. acc[2] - 1 : seen.want[i].v \in Values
      BY <3>1 DEF Byte
    <3>3. \A i \in 0 .. acc[2] - 1 : Constant(seen.want[i].v) \in Byte
      BY <3>2, ConstantType
    <3> QED
      BY <2>3, <3>3 DEF Data
  <2> HIDE DEF held
  <2>5. DataAt(acc[1]) \in Word /\ \A i \in 0 .. 3 : ~ DataAt(acc[1])[i].key
    BY <1>0, <2>1, DataType
  <2>6. cells' \in Cells /\ mem' \in [Address -> Byte]
    BY <1>0, <2>1, <2>2, <2>3, <2>4, <2>5, WriteType, MemWithType
  <2> QED
    BY <2>2, <2>5, <2>6, SteppedOK
<1>4. ASSUME NEW dst \in Address, NEW src \in Address, NEW n \in Sizes, NEW md \in Word,
             src + n - 1 \in Address
      PROVE  /\ AfterWrite(AfterRead(cells, src, n, md), dst, n,
                           ReadValue(AfterRead(cells, src, n, md), src, n), md) \in Cells
             /\ MemWith(dst, n, Bytes(src, n)) \in [Address -> Byte]
  <2>1. /\ AfterRead(cells, src, n, md) \in Cells
        /\ ReadValue(AfterRead(cells, src, n, md), src, n) \in Data(n)
    BY <1>0, ReadType
  <2>2. AfterWrite(AfterRead(cells, src, n, md), dst, n,
                   ReadValue(AfterRead(cells, src, n, md), src, n), md) \in Cells
    BY <2>1, WriteType
  <2>3. MemWith(dst, n, Bytes(src, n)) \in [Address -> Byte]
    <3>1. Bytes(src, n) \in Data(n)
      BY <1>0, <1>4, BytesType
    <3> QED
      BY <1>0, <3>1, MemWithType
  <2> QED
    BY <2>2, <2>3
<1>5. ASSUME NEW acc \in prog.accesses, NEW src \in prog.accesses, src[2] = acc[2], acc[2] = 4,
             PushMemory(acc[1], src[1])
      PROVE  MemoryOK'
  <2>1. /\ acc[1] \in Address /\ src[1] \in Address /\ 4 \in Sizes /\ src[1] + 4 - 1 \in Address
    BY <1>0, <1>5, AccessType
  <2>2. DataAt(src[1]) \in Word /\ \A i \in 0 .. 3 : ~ DataAt(src[1])[i].key
    BY <1>0, <2>1, DataType
  <2>3. /\ UNCHANGED <<prog, call>> /\ mem' = MemWith(acc[1], 4, Bytes(src[1], 4))
        /\ memData' = DataAt(src[1]) /\ seen' = NothingSeen
        /\ cells' = AfterWrite(AfterRead(cells, src[1], 4, DataAt(src[1])), acc[1], 4,
                       ReadValue(AfterRead(cells, src[1], 4, DataAt(src[1])), src[1], 4),
                       DataAt(src[1]))
    BY <1>5 DEF PushMemory, Instruction
  <2> QED
    BY <1>4, <2>1, <2>2, <2>3, SteppedOK
<1>6. ASSUME NEW acc \in prog.accesses, NEW src \in prog.accesses, src[2] = acc[2], acc[2] = 2,
             {acc[1] + 3, src[1] + 3} \subseteq Address, MoveWord(acc[1], src[1])
      PROVE  MemoryOK'
  <2>1. /\ acc[1] \in Address /\ src[1] \in Address /\ 2 \in Sizes /\ src[1] + 2 - 1 \in Address
    BY <1>0, <1>6, AccessType
  <2>2. DataAt(src[1]) \in Word /\ \A i \in 0 .. 3 : ~ DataAt(src[1])[i].key
    BY <1>0, <2>1, DataType
  <2>3. acc[1] + 2 \in Address /\ src[1] + 2 \in Address
    BY <1>6, <2>1, WordsAssumption DEF Address
  <2>4. /\ UNCHANGED <<prog, call>> /\ mem' = MemWith(acc[1], 2, Bytes(src[1], 2))
        /\ memData' = DataAt(src[1]) /\ seen' = NothingSeen
        /\ cells' = AfterWrite(AfterRead(cells, src[1] + 2, 2, DataAt(src[1])), acc[1] + 2, 2,
                       ReadValue(AfterRead(cells, src[1] + 2, 2, DataAt(src[1])), src[1] + 2, 2),
                       DataAt(src[1]))
    BY <1>6 DEF MoveWord, Instruction
  <2>5. AfterRead(cells, src[1] + 2, 2, DataAt(src[1])) \in Cells
        /\ ReadValue(AfterRead(cells, src[1] + 2, 2, DataAt(src[1])), src[1] + 2, 2) \in Data(2)
    BY <1>0, <2>1, <2>2, <2>3, ReadType
  <2>6. cells' \in Cells
    BY <2>1, <2>2, <2>3, <2>4, <2>5, WriteType
  <2>7. mem' \in [Address -> Byte]
    BY <1>4, <2>1, <2>2, <2>4
  <2> QED
    BY <2>2, <2>4, <2>6, <2>7, SteppedOK
<1>7. CASE RegisterOnly
  <2>1. /\ UNCHANGED <<prog, call>> /\ mem' = mem /\ memData' = ZeroWord
        /\ seen' = NothingSeen /\ cells' = cells
    BY <1>7 DEF RegisterOnly, Instruction
  <2>2. memData' \in Word /\ \A i \in 0 .. 3 : ~ memData'[i].key
    BY <2>1, ZeroType, ConstantType, ValuesAssumption
  <2> QED
    BY <1>0, <2>1, <2>2, SteppedOK
<1>8. CASE StartLibc
  <2>1. PICK dst \in Blocks, src \in Blocks, fun \in {"memcpy", "memset", "calloc"},
             c \in Values :
               /\ src[2] = dst[2] /\ (fun = "calloc" => c = 0)
               /\ StartCall(fun, dst[1], src[1], dst[2], c)
    <3>1. PICK dst \in Blocks :
            \/ \E src \in Blocks :
                 /\ src[2] = dst[2]
                 /\ StartCall("memcpy", dst[1], src[1], dst[2], 0)
            \/ \E c \in Values : StartCall("memset", dst[1], dst[1], dst[2], c)
            \/ StartCall("calloc", dst[1], dst[1], dst[2], 0)
      BY <1>8 DEF StartLibc
    <3> QED
      BY <3>1, ValuesAssumption
  <2> DEFINE next == [fun |-> fun, dst |-> dst[1], src |-> src[1], left |-> dst[2], c |-> c]
  <2>2. /\ fun \in prog.kinds /\ call' = next /\ seen' = NothingSeen
        /\ UNCHANGED <<prog, mem, cells, memData>>
    BY <2>1 DEF StartCall
  <2>3. ASSUME NEW x \in Blocks
        PROVE  /\ x[1] \in Address /\ x[2] \in 1 .. Words
               /\ \A i \in 0 .. x[2] - 1 : <<x[1] + 4 * i, 4>> \in prog.accesses
    <3>1. \A b \in Dwords : <<b, 4>> \in prog.accesses /\ b \in Address
      BY <1>0, AccessType DEF Dwords
    <3>2. x[1] \in Dwords /\ x[2] \in 1 .. Words /\ \A i \in 0 .. x[2] - 1 : x[1] + 4 * i \in Dwords
      BY DEF Blocks
    <3> QED
      BY <3>1, <3>2
  <2>4. next \in Call
    BY <2>3 DEF Call
  <2>5. /\ next.fun = fun /\ next.dst = dst[1] /\ next.src = src[1] /\ next.left = dst[2]
        /\ next.c = c
    OBVIOUS
  <2> HIDE DEF next
  <2>6. CallOK'
    BY <2>1, <2>2, <2>3, <2>5 DEF CallOK
  <2> QED
    BY <1>0, <2>2, <2>4, <2>6, NothingType DEF MemoryOK, TypeOK, SeenOK, DataOK, Cells
<1>9. ASSUME call # NoCall
      PROVE  /\ call \in Call /\ call.dst \in Address /\ call.src \in Address
             /\ call.src + 4 - 1 \in Address /\ 4 \in Sizes
             /\ <<call.dst, 4>> \in prog.accesses /\ <<call.src, 4>> \in prog.accesses
  <2>1. call \in Call /\ call.left \in 1 .. Words /\ call.dst \in Int /\ call.src \in Int
    BY <1>0, <1>9 DEF Call, Address
  <2>2. 0 \in 0 .. call.left - 1 /\ call.dst + 4 * 0 = call.dst /\ call.src + 4 * 0 = call.src
    BY <2>1
  <2>3. <<call.dst, 4>> \in prog.accesses /\ <<call.src, 4>> \in prog.accesses
    BY <1>0, <1>9, <2>2 DEF CallOK
  <2> QED
    BY <1>0, <2>1, <2>3, AccessType DEF Sizes
<1>10. CASE CopyWord
  <2>1. call # NoCall
    BY <1>10 DEF CopyWord, Calling
  <2>2. /\ UNCHANGED <<prog, seen, memData>> /\ EndOfTurn
        /\ mem' = MemWith(call.dst, 4, Bytes(call.src, 4))
        /\ cells' = AfterWrite(AfterRead(cells, call.src, 4, memData), call.dst, 4,
                       ReadValue(AfterRead(cells, call.src, 4, memData), call.src, 4), memData)
    BY <1>10 DEF CopyWord
  <2>3. cells' \in Cells /\ mem' \in [Address -> Byte]
    BY <1>0, <1>4, <1>9, <2>1, <2>2
  <2> QED
    BY <2>1, <2>2, <2>3, TurnOK
<1>11. CASE SetWord
  <2>1. call # NoCall
    BY <1>11 DEF SetWord, Calling
  <2>2. /\ UNCHANGED <<prog, seen, memData>> /\ EndOfTurn
        /\ mem' = MemWith(call.dst, 4, [i \in 0 .. 3 |-> Constant(call.c)])
        /\ cells' = AfterWrite(cells, call.dst, 4,
                       [i \in 0 .. 3 |-> Constant(IF i = 0 THEN call.c ELSE 0)], memData)
    BY <1>11 DEF SetWord
  <2>3. cells' \in Cells /\ mem' \in [Address -> Byte]
    BY <1>0, <1>9, <2>1, <2>2, SetType, WriteType, MemWithType
  <2> QED
    BY <2>1, <2>2, <2>3, TurnOK
<1>12. CASE UNCHANGED vars
  BY <1>12 DEF vars, MemoryOK, TypeOK, SeenOK, CallOK, DataOK
<1> QED
  BY <1>1, <1>2, <1>3, <1>5, <1>6, <1>7, <1>8, <1>10, <1>11, <1>12 DEF Next

(* The symbolic memory keeps its types for every program, those it         *)
(* misreads included: cells are words of bytes, and a read has delivered   *)
(* as many bytes as it asked for (readMem, writeMem).                      *)
THEOREM MemoryTyped == Spec => []MemoryOK
BY MemoryInit, MemoryStep, PTL DEF Spec

-----------------------------------------------------------------------------
(* What a naturally aligned read delivers has the recorded values.         *)
LEMMA ReadHeals ==
  ASSUME mem \in [Address -> Byte], NEW cs \in Cells, NEW a \in Address, NEW n \in Sizes,
         Natural(a, n), NEW i \in 0 .. n - 1
  PROVE  ReadValue(AfterRead(cs, a, n, DataAt(a)), a, n)[i].v = mem[a + i].v
<1> DEFINE md      == DataAt(a)
           checked == SelfChecked(cs, a, n, md)
           after   == AfterRead(cs, a, n, md)
           lane    == FirstOf(a, n) + i
<1>1. /\ CellOf(a, n) = Base(a) /\ lane \in 0 .. 3 /\ ~ (n = 2 /\ Offset(a) \in {1, 3})
      /\ lane \in FirstOf(a, n) .. FirstOf(a, n) + n - 1
  BY NaturalLanes, Lanes DEF Sizes
<1>2. Base(a) + lane = a + i
  <2>1. FirstOf(a, n) \in Int /\ Base(a) \in Int /\ Base(a) + FirstOf(a, n) = a
    BY AlignType, Lanes, NaturalLanes DEF Address
  <2> QED
    BY <2>1
<1>3. md \in Word /\ md[lane].v = mem[a + i].v
  BY <1>1, <1>2, DataType
<1>4. /\ checked \in Cells /\ checked[Base(a)] =
           IF cs[Base(a)] = NoCell \/ Agrees(cs[Base(a)], a, n, md) THEN cs[Base(a)] ELSE md
  BY <1>3, SelfCheckedType
<1>5. after = Entered(checked, a, n, md)
  BY DEF AfterRead
<1> HIDE DEF checked, after, md
<1>6. after[Base(a)] = IF checked[Base(a)] = NoCell THEN md ELSE checked[Base(a)]
  BY <1>1, <1>3, <1>4, <1>5, EnteredType
<1>7. after[Base(a)][lane].v = md[lane].v
  <2>1. CASE cs[Base(a)] = NoCell
    BY <1>4, <1>6, <2>1
  <2>2. CASE ~ Agrees(cs[Base(a)], a, n, md)
    BY <1>4, <1>6, <2>2
  <2>3. CASE cs[Base(a)] # NoCell /\ Agrees(cs[Base(a)], a, n, md)
    <3>1. after[Base(a)] = cs[Base(a)]
      BY <1>4, <1>6, <2>3
    <3>2. \A j \in FirstOf(a, n) .. FirstOf(a, n) + n - 1 : cs[Base(a)][j].v = md[j].v
      BY <2>3 DEF Agrees
    <3> QED
      BY <1>1, <3>1, <3>2
  <2> QED
    BY <2>1, <2>2, <2>3
<1>8. ReadValue(after, a, n)[i] = after[Base(a)][lane]
  BY <1>1 DEF ReadValue
<1> QED
  BY <1>3, <1>7, <1>8 DEF after, md

(* A read shows what it sees, or the step shows nothing new.               *)
LEMMA HealStep == MemoryOK /\ NaturalReadsHeal /\ [Next]_vars => NaturalReadsHeal'
<1> SUFFICES ASSUME MemoryOK, NaturalReadsHeal, [Next]_vars PROVE NaturalReadsHeal'
  OBVIOUS
<1>0. /\ prog \in Programs /\ mem \in [Address -> Byte] /\ cells \in Cells
  BY DEF MemoryOK, TypeOK, Cells
<1>1. ASSUME NEW acc \in prog.accesses,
             See(AfterRead(cells, acc[1], acc[2], DataAt(acc[1])), acc[1], acc[2])
      PROVE  NaturalReadsHeal'
  <2>1. acc[1] \in Address /\ acc[2] \in Sizes /\ acc[1] + acc[2] - 1 \in Address
    BY <1>0, AccessType
  <2>2. /\ seen'.access = <<acc[1], acc[2]>>
        /\ seen'.got = ReadValue(AfterRead(cells, acc[1], acc[2], DataAt(acc[1])), acc[1], acc[2])
        /\ seen'.want = Bytes(acc[1], acc[2])
    BY <1>1 DEF See
  <2>3. ASSUME Natural(acc[1], acc[2]), NEW i \in 0 .. acc[2] - 1
        PROVE  seen'.got[i].v = seen'.want[i].v
    BY <1>0, <2>1, <2>2, <2>3, ReadHeals, BytesType
  <2>4. seen'.access[1] = acc[1] /\ seen'.access[2] = acc[2] /\ DOMAIN seen'.want = 0 .. acc[2] - 1
    BY <2>2 DEF Bytes
  <2> QED
    BY <2>3, <2>4 DEF NaturalReadsHeal
<1>2. ASSUME seen' = NothingSeen \/ seen' = seen PROVE NaturalReadsHeal'
  BY <1>2 DEF NaturalReadsHeal
<1>3. CASE Next
  BY <1>1, <1>2, <1>3 DEF Next, Load, Store, Update, Unmodelled, StoreLoaded, PushMemory, MoveWord,
     RegisterOnly, StartLibc, StartCall, CopyWord, SetWord
<1>4. CASE UNCHANGED vars
  BY <1>2, <1>4 DEF vars
<1> QED
  BY <1>3, <1>4

(* A naturally aligned read of QIF's symbolic memory has the trace's       *)
(* values, whatever was replayed before.                                   *)
THEOREM ReadsHeal == Spec => []NaturalReadsHeal
<1>1. Init => NaturalReadsHeal
  BY DEF Init, IdealInit, NaturalReadsHeal
<1> QED
  BY <1>1, HealStep, MemoryTyped, PTL DEF Spec

-----------------------------------------------------------------------------
(* Two agreements of the engine's bytes with the program's: the key is     *)
(* only where the program has it; and the bytes are the same.              *)
KeyOnly == { p \in Byte \X Byte : p[1].key => p[2].key }
Same    == { p \in Byte \X Byte : p[1] = p[2] }

SeenFollows(rel) ==
  seen # NothingSeen => \A i \in DOMAIN seen.want : <<seen.got[i], seen.want[i]>> \in rel

Followed(rel) == Follows(rel, cells, mem) /\ SeenFollows(rel)

(* The key is in no dword without a cell.                                  *)
Cover == \A a \in Address : (Aligned(a) /\ cells[a] = NoCell) => \A i \in 0 .. 3 : ~ mem[a + i].key

(* What is the same agrees, and constants agree with everything, or        *)
(* nothing the engine holds has become a constant.                         *)
Serves(rel) ==
  /\ \A x \in Byte : <<x, x>> \in rel
  /\ \/ \A x, y \in Byte : ~ x.key => <<x, y>> \in rel
     \/ Computed /\ rel = Same /\ Cover

(* Reads of equal memories are equal.                                      *)
LEMMA BytesEqual ==
  ASSUME NEW x \in Byte, NEW y \in Byte, x.v = y.v, x.key <=> y.key
  PROVE  x = y
BY DEF Byte

(* The recorded data agree with memory where they are used.                *)
LEMMA DataFollows ==
  ASSUME MemoryOK, NEW rel, Serves(rel), Followed(rel), NEW a \in Address, NEW n \in Sizes,
         Natural(a, n),
         cells[Base(a)] = NoCell \/ ~ Agrees(cells[Base(a)], a, n, DataAt(a)),
         NEW i \in 0 .. 3
  PROVE  <<DataAt(a)[i], mem[Base(a) + i]>> \in rel
<1>0. /\ mem \in [Address -> Byte] /\ Base(a) \in Address /\ Aligned(Base(a))
      /\ \A j \in 0 .. 3 : mem[Base(a) + j] \in Byte
  BY AlignType DEF MemoryOK, TypeOK
<1>1. /\ \A j \in 0 .. 3 : DataAt(a)[j] \in Byte
      /\ \A j \in 0 .. 3 : ~ DataAt(a)[j].key /\ DataAt(a)[j].v = mem[Base(a) + j].v
  BY <1>0, DataType DEF Word
<1>2. CASE \A x, y \in Byte : ~ x.key => <<x, y>> \in rel
  BY <1>0, <1>1, <1>2
<1>3. CASE rel = Same /\ Cover
  <2>1. CASE cells[Base(a)] = NoCell
    <3>1. ~ mem[Base(a) + i].key
      BY <1>0, <1>3, <2>1 DEF Cover
    <3>2. DataAt(a)[i] = mem[Base(a) + i]
      BY <1>0, <1>1, <3>1, BytesEqual
    <3> QED
      BY <1>0, <3>2 DEF Serves
  <2>2. CASE cells[Base(a)] # NoCell
    <3>1. \A j \in 0 .. 3 : <<cells[Base(a)][j], mem[Base(a) + j]>> \in Same
      BY <1>0, <1>3, <2>2 DEF Followed, Follows
    <3>2. \A j \in 0 .. 3 : cells[Base(a)][j] = mem[Base(a) + j]
      BY <3>1 DEF Same
    <3>3. \A j \in FirstOf(a, n) .. FirstOf(a, n) + n - 1 : j \in 0 .. 3
      <4>1. FirstOf(a, n) \in Int /\ n \in Int
        BY Lanes DEF Sizes
      <4> SUFFICES ASSUME NEW j \in FirstOf(a, n) .. FirstOf(a, n) + n - 1 PROVE j \in 0 .. 3
        OBVIOUS
      <4>2. j - FirstOf(a, n) \in 0 .. n - 1 /\ FirstOf(a, n) + (j - FirstOf(a, n)) = j
        BY <4>1
      <4> QED
        BY <4>2, Lanes
    <3>4. Agrees(cells[Base(a)], a, n, DataAt(a))
      BY <1>1, <3>2, <3>3, NaturalLanes DEF Agrees
    <3> QED
      BY <2>2, <3>4
  <2> QED
    BY <2>1, <2>2
<1> QED
  BY <1>2, <1>3 DEF Serves

(* A read that the engine follows.                                         *)
LEMMA ReadFollowed ==
  ASSUME MemoryOK, NEW rel, Serves(rel), Followed(rel), NEW a \in Address, NEW n \in Sizes,
         Natural(a, n), a + n - 1 \in Address
  PROVE  /\ Follows(rel, AfterRead(cells, a, n, DataAt(a)), mem)
         /\ \A i \in 0 .. n - 1 :
              <<ReadValue(AfterRead(cells, a, n, DataAt(a)), a, n)[i], Bytes(a, n)[i]>> \in rel
<1>0. mem \in [Address -> Byte] /\ cells \in Cells /\ DataAt(a) \in Word
  BY DataType DEF MemoryOK, TypeOK, Cells
<1>1. Follows(rel, cells, mem)
  BY DEF Followed
<1>2. (cells[Base(a)] = NoCell \/ ~ Agrees(cells[Base(a)], a, n, DataAt(a))) =>
         \A i \in 0 .. 3 : <<DataAt(a)[i], mem[Base(a) + i]>> \in rel
  BY DataFollows
<1>3. /\ Follows(rel, AfterRead(cells, a, n, DataAt(a)), mem)
      /\ \A i \in 0 .. n - 1 :
           <<ReadValue(AfterRead(cells, a, n, DataAt(a)), a, n)[i], mem[a + i]>> \in rel
  BY <1>0, <1>1, <1>2, ReadFollows
<1> QED
  BY <1>0, <1>3, BytesType

LEMMA FollowStep ==
  ASSUME MemoryOK, [Next]_vars, Understood, NEW rel, Serves(rel), Followed(rel)
  PROVE  Followed(rel)'
<1>0. /\ prog \in Programs /\ mem \in [Address -> Byte] /\ cells \in Cells /\ memData \in Word
      /\ call \in Call \cup {NoCall} /\ SeenOK /\ CallOK /\ DataOK
      /\ Follows(rel, cells, mem) /\ SeenFollows(rel)
  BY DEF MemoryOK, TypeOK, Cells, Followed
<1>r. \A n \in Sizes : \A d \in Data(n) : \A i \in 0 .. n - 1 : <<d[i], d[i]>> \in rel
  BY DEF Serves, Data
<1>1. ASSUME NEW acc \in prog.accesses
      PROVE  /\ acc[1] \in Address /\ acc[2] \in Sizes /\ acc[1] + acc[2] - 1 \in Address
             /\ Natural(acc[1], acc[2]) /\ CellOf(acc[1], acc[2]) = Base(acc[1])
             /\ DataAt(acc[1]) \in Word
  BY <1>0, AccessType, NaturalLanes, DataType
<1>2. ASSUME NEW acc \in prog.accesses, Load(acc[1], acc[2]) PROVE Followed(rel)'
  <2> DEFINE cs == AfterRead(cells, acc[1], acc[2], DataAt(acc[1]))
  <2>1. /\ Follows(rel, cs, mem)
        /\ \A i \in 0 .. acc[2] - 1 :
              <<ReadValue(cs, acc[1], acc[2])[i], Bytes(acc[1], acc[2])[i]>> \in rel
    BY <1>1, ReadFollowed
  <2>2. /\ mem' = mem /\ cells' = cs /\ seen'.want = Bytes(acc[1], acc[2])
        /\ seen'.got = ReadValue(cs, acc[1], acc[2])
    BY <1>2 DEF Load, See
  <2> HIDE DEF cs
  <2>3. DOMAIN seen'.want = 0 .. acc[2] - 1
    BY <2>2 DEF Bytes
  <2>4. SeenFollows(rel)'
    BY <2>1, <2>2, <2>3 DEF SeenFollows
  <2>5. Follows(rel, cells, mem)'
    BY <2>1, <2>2 DEF Follows
  <2> QED
    BY <2>4, <2>5 DEF Followed
<1>3. ASSUME NEW acc \in prog.accesses, NEW d \in prog.data, DOMAIN d = 0 .. acc[2] - 1
      PROVE  /\ Store(acc[1], acc[2], d) => Followed(rel)'
             /\ Update(acc[1], acc[2], d) => Followed(rel)'
             /\ ~ Unmodelled(acc[1], acc[2], d)
  <2>1. d \in Data(acc[2])
    BY <1>0, <1>1, <1>3, ProgramData
  <2>2. \A i \in 0 .. acc[2] - 1 : <<d[i], d[i]>> \in rel
    BY <1>1, <1>r, <2>1
  <2>3. ASSUME Store(acc[1], acc[2], d) PROVE Followed(rel)'
    <3>1. /\ mem' = MemWith(acc[1], acc[2], d) /\ seen' = NothingSeen
          /\ cells' = AfterWrite(cells, acc[1], acc[2], d, DataAt(acc[1]))
      BY <2>3 DEF Store
    <3>2. (acc[2] # 4 /\ cells[Base(acc[1])] = NoCell) =>
             \A i \in 0 .. 3 : <<DataAt(acc[1])[i], mem[Base(acc[1]) + i]>> \in rel
      BY <1>1, DataFollows
    <3>3. Follows(rel, AfterWrite(cells, acc[1], acc[2], d, DataAt(acc[1])),
                  MemWith(acc[1], acc[2], d))
      BY <1>0, <1>1, <2>1, <2>2, <3>2, WriteFollows
    <3> QED
      BY <3>1, <3>3 DEF Followed, Follows, SeenFollows
  <2>4. ASSUME Update(acc[1], acc[2], d) PROVE Followed(rel)'
    <3> DEFINE cs == AfterRead(cells, acc[1], acc[2], DataAt(acc[1]))
    <3>1. /\ Follows(rel, cs, mem)
          /\ \A i \in 0 .. acc[2] - 1 :
                <<ReadValue(cs, acc[1], acc[2])[i], Bytes(acc[1], acc[2])[i]>> \in rel
      BY <1>1, ReadFollowed
    <3>2. cs \in Cells /\ cs[Base(acc[1])] # NoCell
      BY <1>0, <1>1, ReadType, NoCellIsNoWord
    <3>3. /\ mem' = MemWith(acc[1], acc[2], d) /\ seen'.want = Bytes(acc[1], acc[2])
          /\ seen'.got = ReadValue(cs, acc[1], acc[2])
          /\ cells' = AfterWrite(cs, acc[1], acc[2], d, DataAt(acc[1]))
      BY <2>4 DEF Update, See
    <3> HIDE DEF cs
    <3>4. Follows(rel, AfterWrite(cs, acc[1], acc[2], d, DataAt(acc[1])),
                  MemWith(acc[1], acc[2], d))
      BY <1>0, <1>1, <2>1, <2>2, <3>1, <3>2, WriteFollows
    <3>5. DOMAIN seen'.want = 0 .. acc[2] - 1
      BY <3>3 DEF Bytes
    <3>6. SeenFollows(rel)'
      BY <3>1, <3>3, <3>5 DEF SeenFollows
    <3> QED
      BY <3>3, <3>4, <3>6 DEF Followed, Follows
  <2>5. ~ Unmodelled(acc[1], acc[2], d)
    BY DEF Unmodelled, Instruction, Understood
  <2> QED
    BY <2>3, <2>4, <2>5
<1>4. ASSUME NEW acc \in prog.accesses, StoreLoaded(acc[1], acc[2]) PROVE Followed(rel)'
  <2> DEFINE held == IF \A i \in 0 .. acc[2] - 1 : seen.got[i].v = seen.want[i].v
                     THEN seen.got
                     ELSE [i \in 0 .. acc[2] - 1 |-> Constant(seen.want[i].v)]
  <2>1. /\ mem' = MemWith(acc[1], acc[2], seen.want) /\ seen' = NothingSeen
        /\ cells' = AfterWrite(cells, acc[1], acc[2], held, DataAt(acc[1]))
        /\ DOMAIN seen.got = 0 .. acc[2] - 1
    BY <1>4 DEF StoreLoaded
  <2>2. seen # NothingSeen /\ seen.got \in Data(acc[2]) /\ seen.want \in Data(acc[2])
    BY <1>0, <1>1, <2>1, HeldType
  <2>3. \A i \in 0 .. acc[2] - 1 : <<seen.got[i], seen.want[i]>> \in rel
    BY <1>0, <2>2 DEF SeenFollows, Data
  <2>4. \A i \in 0 .. acc[2] - 1 :
          /\ seen.want[i] \in Byte /\ Constant(seen.want[i].v) \in Byte
          /\ ~ Constant(seen.want[i].v).key
    <3>1. \A i \in 0 .. acc[2] - 1 : seen.want[i] \in Byte
      BY <2>2 DEF Data
    <3>2. \A i \in 0 .. acc[2] - 1 : seen.want[i].v \in Values
      BY <3>1 DEF Byte
    <3> QED
      BY <3>1, <3>2, ConstantType
  <2>5. held \in Data(acc[2]) /\ \A i \in 0 .. acc[2] - 1 : <<held[i], seen.want[i]>> \in rel
    <3>1. CASE \A i \in 0 .. acc[2] - 1 : seen.got[i].v = seen.want[i].v
      BY <2>2, <2>3, <3>1
    <3>2. CASE ~ \A i \in 0 .. acc[2] - 1 : seen.got[i].v = seen.want[i].v
      <4>1. held = [i \in 0 .. acc[2] - 1 |-> Constant(seen.want[i].v)]
        BY <3>2
      <4>2. CASE \A x, y \in Byte : ~ x.key => <<x, y>> \in rel
        BY <2>4, <4>1, <4>2 DEF Data
      <4>3. CASE rel = Same
        <5>1. \A i \in 0 .. acc[2] - 1 : seen.got[i] = seen.want[i]
          BY <2>3, <4>3 DEF Same
        <5> QED
          BY <3>2, <5>1
      <4> QED
        BY <4>2, <4>3 DEF Serves
    <3> QED
      BY <3>1, <3>2
  <2> HIDE DEF held
  <2>6. (acc[2] # 4 /\ cells[Base(acc[1])] = NoCell) =>
           \A i \in 0 .. 3 : <<DataAt(acc[1])[i], mem[Base(acc[1]) + i]>> \in rel
    BY <1>1, DataFollows
  <2>7. Follows(rel, AfterWrite(cells, acc[1], acc[2], held, DataAt(acc[1])),
                MemWith(acc[1], acc[2], seen.want))
    BY <1>0, <1>1, <2>2, <2>5, <2>6, WriteFollows
  <2> QED
    BY <2>1, <2>7 DEF Followed, Follows, SeenFollows
<1>5. ASSUME NEW acc \in prog.accesses, NEW src \in prog.accesses, src[2] = acc[2], acc[2] = 4,
             PushMemory(acc[1], src[1])
      PROVE  Followed(rel)'
  <2> DEFINE cs == AfterRead(cells, src[1], 4, DataAt(src[1]))
             d  == ReadValue(cs, src[1], 4)
  <2>1. /\ Follows(rel, cs, mem)
        /\ \A i \in 0 .. 4 - 1 : <<d[i], Bytes(src[1], 4)[i]>> \in rel
    BY <1>1, <1>5, ReadFollowed
  <2>2. cs \in Cells /\ d \in Data(4)
    BY <1>0, <1>1, <1>5, ReadType
  <2>3. /\ mem' = MemWith(acc[1], 4, Bytes(src[1], 4)) /\ seen' = NothingSeen
        /\ cells' = AfterWrite(cs, acc[1], 4, d, DataAt(src[1]))
    BY <1>5 DEF PushMemory
  <2> HIDE DEF cs, d
  <2>4. Bytes(src[1], 4) \in Data(4)
    BY <1>0, <1>1, <1>5, BytesType
  <2>5. Follows(rel, AfterWrite(cs, acc[1], 4, d, DataAt(src[1])),
                MemWith(acc[1], 4, Bytes(src[1], 4)))
    BY <1>0, <1>1, <1>5, <2>1, <2>2, <2>4, WriteFollows
  <2> QED
    BY <2>3, <2>5 DEF Followed, Follows, SeenFollows
<1>6. ASSUME NEW dst, NEW src, MoveWord(dst, src) PROVE FALSE
  BY <1>6 DEF MoveWord, Instruction, Understood
<1>7. CASE RegisterOnly \/ StartLibc
  <2>1. mem' = mem /\ cells' = cells /\ seen' = NothingSeen
    BY <1>7 DEF RegisterOnly, StartLibc, StartCall
  <2> QED
    BY <1>0, <2>1 DEF Followed, Follows, SeenFollows
<1>8. ASSUME call # NoCall
      PROVE  /\ call \in Call /\ call.dst \in Address /\ call.src \in Address /\ 4 \in Sizes
             /\ call.src + 4 - 1 \in Address
             /\ Natural(call.dst, 4) /\ Natural(call.src, 4) /\ call.fun \in prog.kinds
             /\ call.fun = "calloc" => call.c = 0
  <2>1. call \in Call /\ call.left \in 1 .. Words /\ call.dst \in Int /\ call.src \in Int
    BY <1>0, <1>8 DEF Call, Address
  <2>2. 0 \in 0 .. call.left - 1 /\ call.dst + 4 * 0 = call.dst /\ call.src + 4 * 0 = call.src
    BY <2>1
  <2>3. <<call.dst, 4>> \in prog.accesses /\ <<call.src, 4>> \in prog.accesses
    BY <1>0, <1>8, <2>2 DEF CallOK
  <2> QED
    BY <1>0, <1>1, <1>8, <2>1, <2>3 DEF CallOK, Sizes
<1>9. CASE CopyWord
  <2> DEFINE cs == AfterRead(cells, call.src, 4, memData)
             d  == ReadValue(cs, call.src, 4)
  <2>1. call # NoCall /\ call.fun = "memcpy"
    BY <1>9 DEF CopyWord, Calling
  <2>2. \A x, y \in Byte : ~ x.key => <<x, y>> \in rel
    BY <1>8, <2>1 DEF Serves, Computed, OwnData
  <2>3. \A i \in 0 .. 3 : <<memData[i], mem[Base(call.src) + i]>> \in rel
    <3>1. \A i \in 0 .. 3 : memData[i] \in Byte /\ mem[Base(call.src) + i] \in Byte /\ ~ memData[i].key
      BY <1>0, <1>8, <2>1, AlignType DEF Word, DataOK
    <3> QED
      BY <2>2, <3>1
  <2>4. /\ Follows(rel, cs, mem) /\ \A i \in 0 .. 4 - 1 : <<d[i], mem[call.src + i]>> \in rel
    BY <1>0, <1>8, <2>1, <2>3, ReadFollows
  <2>5. cs \in Cells /\ d \in Data(4)
    BY <1>0, <1>8, <2>1, ReadType
  <2>6. /\ mem' = MemWith(call.dst, 4, Bytes(call.src, 4)) /\ seen' = seen
        /\ cells' = AfterWrite(cs, call.dst, 4, d, memData)
    BY <1>9 DEF CopyWord
  <2> HIDE DEF cs, d
  <2>7. /\ Bytes(call.src, 4) \in Data(4)
        /\ \A i \in 0 .. 4 - 1 : <<d[i], Bytes(call.src, 4)[i]>> \in rel
    BY <1>0, <1>8, <2>1, <2>4, BytesType
  <2>8. Follows(rel, AfterWrite(cs, call.dst, 4, d, memData),
                MemWith(call.dst, 4, Bytes(call.src, 4)))
    BY <1>0, <1>8, <2>1, <2>4, <2>5, <2>7, WriteFollows
  <2> QED
    BY <1>0, <2>6, <2>8 DEF Followed, Follows, SeenFollows
<1>10. CASE SetWord
  <2> DEFINE d == [i \in 0 .. 3 |-> Constant(IF i = 0 THEN call.c ELSE 0)]
             e == [i \in 0 .. 3 |-> Constant(call.c)]
  <2>1. call # NoCall /\ call.fun \in {"memset", "calloc"}
    BY <1>10 DEF SetWord, Calling
  <2>2. d \in Data(4) /\ e \in Data(4)
    BY <1>8, <2>1, SetType
  <2>3. \A i \in 0 .. 4 - 1 : <<d[i], e[i]>> \in rel
    <3>1. CASE \A x, y \in Byte : ~ x.key => <<x, y>> \in rel
      <4>1. \A i \in 0 .. 4 - 1 : d[i] \in Byte /\ e[i] \in Byte
        BY <2>2 DEF Data
      <4>2. \A i \in 0 .. 4 - 1 : ~ d[i].key
        BY DEF Constant
      <4> QED
        BY <3>1, <4>1, <4>2
    <3>2. CASE Computed
      <4>1. call.c = 0
        BY <1>8, <2>1, <3>2 DEF Computed, OwnData
      <4>2. d = e
        BY <4>1
      <4> HIDE DEF d, e
      <4> QED
        BY <1>8, <1>r, <2>1, <2>2, <4>2
    <3> QED
      BY <3>1, <3>2 DEF Serves
  <2>4. /\ mem' = MemWith(call.dst, 4, e) /\ seen' = seen
        /\ cells' = AfterWrite(cells, call.dst, 4, d, memData)
    BY <1>10 DEF SetWord
  <2> HIDE DEF d, e
  <2>5. Follows(rel, AfterWrite(cells, call.dst, 4, d, memData), MemWith(call.dst, 4, e))
    BY <1>0, <1>8, <2>1, <2>2, <2>3, WriteFollows
  <2> QED
    BY <1>0, <2>4, <2>5 DEF Followed, Follows, SeenFollows
<1>11. CASE UNCHANGED vars
  BY <1>0, <1>11 DEF vars, Followed, Follows, SeenFollows
<1> QED
  BY <1>2, <1>3, <1>4, <1>5, <1>6, <1>7, <1>9, <1>10, <1>11 DEF Next

LEMMA KeyOnlyServes == Serves(KeyOnly)
BY DEF Serves, KeyOnly

KeyInv == Understood => Followed(KeyOnly)

LEMMA KeyInit == Init => KeyInv
<1> SUFFICES ASSUME Init PROVE Followed(KeyOnly)
  BY DEF KeyInv
<1>1. /\ prog \in Programs /\ mem \in [Address -> Byte] /\ cells \in Cells /\ seen = NothingSeen
      /\ \A a \in Address : cells[a] # NoCell => cells[a] = KeyCell(a)
      /\ \A a \in Address : mem[a].key <=> a \in KeyAt
  <2>1. \A a \in Address : cells[a] # NoCell => cells[a] = KeyCell(a)
    BY DEF Init
  <2>2. \A a \in Address : mem[a].key <=> a \in KeyAt
    <3>1. PICK m \in Contents : mem = [a \in Address |-> [v |-> m[a], key |-> a \in KeyAt]]
      BY DEF Init, IdealInit
    <3> QED
      BY <3>1
  <2> QED
    BY <2>1, <2>2, MemoryInit DEF MemoryOK, TypeOK, Cells, Init, IdealInit
<1>2. ASSUME NEW a \in Address, Aligned(a), cells[a] # NoCell, NEW i \in 0 .. 3
      PROVE  <<cells[a][i], mem[a + i]>> \in KeyOnly
  <2>1. cells[a] = KeyCell(a) /\ KeyCell(a) \in Word /\ (KeyCell(a)[i].key <=> a + i \in KeyAt)
    BY <1>1, <1>2, KeyCellType
  <2>2. a + i \in Address /\ mem[a + i] \in Byte /\ cells[a][i] \in Byte
    BY <1>1, <1>2, <2>1, DwordIn DEF Word
  <2> QED
    BY <1>1, <2>1, <2>2 DEF KeyOnly
<1> QED
  BY <1>1, <1>2 DEF Followed, Follows, SeenFollows

(* The engine sees the key only where the program has it, in every         *)
(* program of naturally aligned accesses that it knows the instructions    *)
(* of, whatever libc calls do with stale data.                             *)
THEOREM KeyIsNotInvented == Spec => []KeyNotInvented
<1>1. MemoryOK /\ KeyInv /\ [Next]_vars => KeyInv'
  <2> SUFFICES ASSUME MemoryOK, KeyInv, [Next]_vars, Understood' PROVE Followed(KeyOnly)'
    BY DEF KeyInv
  <2>1. prog' = prog
    BY DEF Next, vars, Load, Store, Update, Unmodelled, StoreLoaded, PushMemory, MoveWord,
       RegisterOnly, Instruction, StartLibc, StartCall, CopyWord, SetWord
  <2>2. Understood
    BY <2>1 DEF Understood
  <2> QED
    BY <2>2, KeyOnlyServes, FollowStep DEF KeyInv
<1>2. MemoryOK /\ KeyInv => KeyNotInvented
  BY DEF KeyInv, Followed, Follows, KeyNotInvented, KeyOnly
<1> QED
  BY <1>1, <1>2, KeyInit, MemoryTyped, PTL DEF Spec

-----------------------------------------------------------------------------
(* For computed programs the cells are the program's memory, the key is    *)
(* all in cells, and a libc call starts from nothing seen.                 *)
ExactInv ==
  /\ Computed => Followed(Same) /\ Cover
  /\ call # NoCall => seen = NothingSeen

LEMMA ExactInit == Init => ExactInv
<1> SUFFICES ASSUME Init, Computed PROVE Followed(Same) /\ Cover
  BY DEF ExactInv, Init
<1>1. /\ prog \in Programs /\ mem \in [Address -> Byte] /\ cells \in Cells /\ seen = NothingSeen
      /\ \A a \in Address : mem[a].key <=> a \in KeyAt
  <2>1. \A a \in Address : mem[a].key <=> a \in KeyAt
    <3>1. PICK m \in Contents : mem = [a \in Address |-> [v |-> m[a], key |-> a \in KeyAt]]
      BY DEF Init, IdealInit
    <3> QED
      BY <3>1
  <2> QED
    BY <2>1, MemoryInit DEF MemoryOK, TypeOK, Cells, Init, IdealInit
<1>2. ASSUME NEW a \in Address, Aligned(a), NEW i \in 0 .. 3
      PROVE  a + i \in Address /\ Base(a + i) = a
  <2>1. a + i \in Address
    BY <1>2, DwordIn
  <2> QED
    BY <1>2, <2>1 DEF Aligned, Base, Offset, Address
<1>3. ASSUME NEW a \in Address, Aligned(a), cells[a] # NoCell, NEW i \in 0 .. 3
      PROVE  <<cells[a][i], mem[a + i]>> \in Same
  <2>1. PICK b \in KeyAt : Base(b) = a
    BY <1>3 DEF Init
  <2>2. cells[a] = KeyCell(a)
    BY <1>3 DEF Init
  <2>3. a + i \in KeyAt
    <3>1. a + i \in Base(b) .. Base(b) + 3
      BY <2>1 DEF Address
    <3> QED
      BY <2>1, <3>1 DEF Computed
  <2> DEFINE k == CHOOSE j \in 1 .. Len(prog.key) : prog.key[j].addr = a + i
  <2>4. k \in 1 .. Len(prog.key) /\ prog.key[k].addr = a + i
    BY <2>3 DEF KeyAt
  <2>5. KeyCell(a)[i] = [v |-> SeedValue(k), key |-> TRUE]
    BY <2>3 DEF KeyCell
  <2> HIDE DEF k
  <2>6. SeedValue(k) = mem[a + i].v
    <3>1. prog.key[k].offset + 1 = k
      <4>1. prog.key[k].offset = k - 1 /\ k \in Int
        BY <2>4 DEF Computed
      <4> QED
        BY <4>1
    <3> QED
      BY <2>4, <3>1 DEF SeedValue
  <2>7. mem[a + i] \in Byte /\ mem[a + i].key
    BY <1>1, <1>2, <1>3, <2>3
  <2>8. KeyCell(a)[i] = mem[a + i]
    <3>1. KeyCell(a)[i] \in Byte /\ KeyCell(a)[i].v = mem[a + i].v /\ KeyCell(a)[i].key
      BY <2>5, <2>6, <2>7 DEF Byte
    <3> QED
      BY <2>7, <3>1, BytesEqual
  <2> QED
    BY <2>2, <2>7, <2>8 DEF Same
<1>4. ASSUME NEW a \in Address, Aligned(a), cells[a] = NoCell, NEW i \in 0 .. 3
      PROVE  ~ mem[a + i].key
  <2>1. KeyCell(a) # NoCell
    BY <1>1, <1>4, KeyCellType, NoCellIsNoWord
  <2>2. \A b \in KeyAt : Base(b) # a
    BY <1>4, <2>1 DEF Init
  <2> QED
    BY <1>1, <1>2, <1>4, <2>2
<1> QED
  BY <1>1, <1>3, <1>4 DEF Followed, Follows, SeenFollows, Cover

(* The key stays in cells.                                                 *)
LEMMA WriteCovers ==
  ASSUME mem \in [Address -> Byte], NEW cs \in Cells, NEW a \in Address, NEW n \in Sizes,
         NEW d \in Data(n), NEW e \in Data(n), NEW md \in Word, Natural(a, n), Cover,
         \A b \in Address : cells[b] # NoCell => cs[b] # NoCell,
         cells' = AfterWrite(cs, a, n, d, md), mem' = MemWith(a, n, e)
  PROVE  Cover'
<1> SUFFICES ASSUME NEW b \in Address, Aligned(b), cells'[b] = NoCell, NEW i \in 0 .. 3
             PROVE  ~ mem'[b + i].key
  BY DEF Cover
<1>1. CellOf(a, n) = Base(a) /\ AfterWrite(cs, a, n, d, md)[Base(a)] \in Word
  BY NaturalLanes, WriteType
<1>2. b # Base(a)
  BY <1>1, NoCellIsNoWord
<1>3. cs[b] = NoCell
  BY <1>1, <1>2, WriteType
<1>4. cells[b] = NoCell
  BY <1>3
<1>5. mem'[b + i] = mem[b + i]
  BY <1>2, WriteElsewhere
<1> QED
  BY <1>4, <1>5 DEF Cover

(* The same bytes make the same data.                                      *)
LEMMA SameData ==
  ASSUME NEW n, NEW x \in Data(n), NEW y \in Data(n), \A i \in 0 .. n - 1 : <<x[i], y[i]>> \in Same
  PROVE  x = y
<1>1. \A i \in 0 .. n - 1 : x[i] = y[i]
  BY DEF Same
<1>2. x = [i \in 0 .. n - 1 |-> x[i]] /\ y = [i \in 0 .. n - 1 |-> y[i]]
  BY DEF Data
<1>3. [i \in 0 .. n - 1 |-> x[i]] = [i \in 0 .. n - 1 |-> y[i]]
  BY <1>1
<1> QED
  BY <1>2, <1>3

(* A step of a computed program is one of the ideal memory.                *)
LEMMA IdealMoves ==
  ASSUME MemoryOK, ExactInv, Computed, Next
  PROVE  /\ Cover'
         /\ call' # NoCall => seen' = NothingSeen
         /\ IdealStep \/ UNCHANGED <<prog, mem, seen>>
<1>0. /\ prog \in Programs /\ mem \in [Address -> Byte] /\ cells \in Cells
      /\ call \in Call \cup {NoCall} /\ SeenOK /\ CallOK /\ Cover /\ Followed(Same)
      /\ Understood /\ (call # NoCall => seen = NothingSeen)
  BY DEF MemoryOK, TypeOK, Cells, ExactInv, Computed
<1>s. Serves(Same)
  BY <1>0 DEF Serves, Same
<1>1. ASSUME NEW acc \in prog.accesses
      PROVE  /\ acc = <<acc[1], acc[2]>>
             /\ acc[1] \in Address /\ acc[2] \in Sizes /\ acc[1] + acc[2] - 1 \in Address
             /\ Natural(acc[1], acc[2]) /\ DataAt(acc[1]) \in Word
             /\ Bytes(acc[1], acc[2]) \in Data(acc[2])
  BY <1>0, AccessType, DataType, BytesType
<1>2. ASSUME NEW acc \in prog.accesses
      PROVE  /\ AfterRead(cells, acc[1], acc[2], DataAt(acc[1])) \in Cells
             /\ ReadValue(AfterRead(cells, acc[1], acc[2], DataAt(acc[1])), acc[1], acc[2])
                  = Bytes(acc[1], acc[2])
             /\ \A b \in Address :
                  cells[b] # NoCell =>
                    AfterRead(cells, acc[1], acc[2], DataAt(acc[1]))[b] # NoCell
  <2> DEFINE cs == AfterRead(cells, acc[1], acc[2], DataAt(acc[1]))
  <2>1. /\ cs \in Cells /\ ReadValue(cs, acc[1], acc[2]) \in Data(acc[2])
        /\ \A b \in Address : cells[b] # NoCell => cs[b] # NoCell
    BY <1>0, <1>1, ReadType
  <2>2. \A i \in 0 .. acc[2] - 1 :
           <<ReadValue(cs, acc[1], acc[2])[i], Bytes(acc[1], acc[2])[i]>> \in Same
    BY <1>0, <1>s, <1>1, ReadFollowed
  <2> HIDE DEF cs
  <2>3. ReadValue(cs, acc[1], acc[2]) = Bytes(acc[1], acc[2])
    BY <1>1, <2>1, <2>2, SameData
  <2> QED
    BY <2>1, <2>3 DEF cs
<1>3. ASSUME NEW acc \in prog.accesses, Load(acc[1], acc[2])
      PROVE  Cover' /\ call' = NoCall /\ IdealStep
  <2>1. /\ call = NoCall /\ call' = call /\ mem' = mem
        /\ cells' = AfterRead(cells, acc[1], acc[2], DataAt(acc[1]))
        /\ seen' = [access |-> <<acc[1], acc[2]>>,
                    got |-> ReadValue(AfterRead(cells, acc[1], acc[2], DataAt(acc[1])),
                                      acc[1], acc[2]),
                    want |-> Bytes(acc[1], acc[2])]
    BY <1>3 DEF Load, See, Instruction
  <2>2. seen' = Exactly(acc[1], acc[2])
    BY <1>2, <2>1 DEF Exactly
  <2>3. IdealStep
    BY <2>1, <2>2 DEF IdealStep
  <2>4. Cover'
    BY <1>0, <1>2, <2>1 DEF Cover
  <2> QED
    BY <2>1, <2>3, <2>4
<1>4. ASSUME NEW acc \in prog.accesses, NEW d \in prog.data, DOMAIN d = 0 .. acc[2] - 1
      PROVE  /\ Store(acc[1], acc[2], d) => Cover' /\ call' = NoCall /\ IdealStep
             /\ Update(acc[1], acc[2], d) => Cover' /\ call' = NoCall /\ IdealStep
             /\ ~ Unmodelled(acc[1], acc[2], d)
  <2>1. d \in Data(acc[2])
    BY <1>0, <1>1, <1>4, ProgramData
  <2>2. ASSUME Store(acc[1], acc[2], d) PROVE Cover' /\ call' = NoCall /\ IdealStep
    <3>1. /\ call' = NoCall /\ mem' = MemWith(acc[1], acc[2], d) /\ seen' = NothingSeen
          /\ cells' = AfterWrite(cells, acc[1], acc[2], d, DataAt(acc[1]))
      BY <2>2 DEF Store, Instruction
    <3>2. IdealStep
      BY <1>4, <3>1 DEF IdealStep
    <3>3. Cover'
      BY <1>0, <1>1, <2>1, <3>1, WriteCovers
    <3> QED
      BY <3>1, <3>2, <3>3
  <2>3. ASSUME Update(acc[1], acc[2], d) PROVE Cover' /\ call' = NoCall /\ IdealStep
    <3> DEFINE cs == AfterRead(cells, acc[1], acc[2], DataAt(acc[1]))
    <3>1. /\ call' = NoCall /\ mem' = MemWith(acc[1], acc[2], d)
          /\ cells' = AfterWrite(cs, acc[1], acc[2], d, DataAt(acc[1]))
          /\ seen' = [access |-> <<acc[1], acc[2]>>, got |-> ReadValue(cs, acc[1], acc[2]),
                      want |-> Bytes(acc[1], acc[2])]
      BY <2>3 DEF Update, See, Instruction
    <3>2. /\ cs \in Cells /\ ReadValue(cs, acc[1], acc[2]) = Bytes(acc[1], acc[2])
          /\ \A b \in Address : cells[b] # NoCell => cs[b] # NoCell
      BY <1>2
    <3> HIDE DEF cs
    <3>3. seen' = Exactly(acc[1], acc[2])
      BY <3>1, <3>2 DEF Exactly
    <3>4. IdealStep
      BY <1>4, <3>1, <3>3 DEF IdealStep
    <3>5. Cover'
      BY <1>0, <1>1, <2>1, <3>1, <3>2, WriteCovers
    <3> QED
      BY <3>1, <3>4, <3>5
  <2>4. ~ Unmodelled(acc[1], acc[2], d)
    BY <1>0 DEF Unmodelled, Instruction, Understood
  <2> QED
    BY <2>2, <2>3, <2>4
<1>5. ASSUME NEW acc \in prog.accesses, StoreLoaded(acc[1], acc[2])
      PROVE  Cover' /\ call' = NoCall /\ IdealStep
  <2>1. DOMAIN seen.got = 0 .. acc[2] - 1
    BY <1>5 DEF StoreLoaded
  <2>2. seen # NothingSeen /\ seen.got \in Data(acc[2]) /\ seen.want \in Data(acc[2])
    BY <1>0, <1>1, <2>1, HeldType
  <2>3. \A i \in 0 .. acc[2] - 1 : <<seen.got[i], seen.want[i]>> \in Same
    BY <1>0, <2>2 DEF Followed, SeenFollows, Data
  <2>4. seen.got = seen.want
    BY <2>2, <2>3, SameData
  <2>5. /\ call' = NoCall /\ mem' = MemWith(acc[1], acc[2], seen.got) /\ seen' = NothingSeen
        /\ cells' = AfterWrite(cells, acc[1], acc[2], seen.got, DataAt(acc[1]))
    BY <1>5, <2>4 DEF StoreLoaded, Instruction
  <2>6. IdealStep
    BY <2>1, <2>5 DEF IdealStep
  <2>7. Cover'
    BY <1>0, <1>1, <2>2, <2>5, WriteCovers
  <2> QED
    BY <2>5, <2>6, <2>7
<1>6. ASSUME NEW acc \in prog.accesses, NEW src \in prog.accesses, src[2] = acc[2], acc[2] = 4,
             PushMemory(acc[1], src[1])
      PROVE  Cover' /\ call' = NoCall /\ IdealStep
  <2> DEFINE cs == AfterRead(cells, src[1], 4, DataAt(src[1]))
  <2>1. /\ call' = NoCall /\ mem' = MemWith(acc[1], 4, Bytes(src[1], 4)) /\ seen' = NothingSeen
        /\ cells' = AfterWrite(cs, acc[1], 4, ReadValue(cs, src[1], 4), DataAt(src[1]))
    BY <1>6 DEF PushMemory, Instruction
  <2>2. /\ cs \in Cells /\ ReadValue(cs, src[1], 4) = Bytes(src[1], 4)
        /\ \A b \in Address : cells[b] # NoCell => cs[b] # NoCell
    BY <1>2, <1>6
  <2> HIDE DEF cs
  <2>3. /\ acc[1] \in Address /\ 4 \in Sizes /\ Natural(acc[1], 4) /\ DataAt(src[1]) \in Word
        /\ Bytes(src[1], 4) \in Data(4)
    BY <1>1, <1>6
  <2>4. IdealStep
    BY <1>6, <2>1 DEF IdealStep
  <2>5. Cover'
    BY <1>0, <2>1, <2>2, <2>3, WriteCovers
  <2> QED
    BY <2>1, <2>4, <2>5
<1>7. ASSUME NEW dst, NEW src, MoveWord(dst, src) PROVE FALSE
  BY <1>0, <1>7 DEF MoveWord, Instruction, Understood
<1>8. CASE RegisterOnly
  <2>1. call' = NoCall /\ mem' = mem /\ cells' = cells /\ seen' = NothingSeen /\ prog' = prog
    BY <1>8 DEF RegisterOnly, Instruction
  <2>2. Cover'
    BY <1>0, <2>1 DEF Cover
  <2>3. CASE prog.accesses = {}
    <3>1. seen = NothingSeen
      BY <1>0, <2>3 DEF SeenOK
    <3> QED
      BY <2>1, <2>2, <3>1
  <2>4. CASE prog.accesses # {}
    <3>1. IdealStep
      BY <2>1, <2>4 DEF IdealStep
    <3> QED
      BY <2>1, <2>2, <3>1
  <2> QED
    BY <2>3, <2>4
<1>9. CASE StartLibc
  <2>1. mem' = mem /\ cells' = cells /\ seen' = NothingSeen
    BY <1>9 DEF StartLibc, StartCall
  <2>2. PICK dst \in Blocks : TRUE
    BY <1>9 DEF StartLibc
  <2>3. prog.accesses # {}
    <3>1. dst[2] \in 1 .. Words /\ \A i \in 0 .. dst[2] - 1 : dst[1] + 4 * i \in Dwords
      BY DEF Blocks
    <3>2. 0 \in 0 .. dst[2] - 1
      BY <3>1
    <3> QED
      BY <3>1, <3>2 DEF Dwords
  <2>4. IdealStep
    BY <2>1, <2>3 DEF IdealStep
  <2> QED
    BY <1>0, <2>1, <2>4 DEF Cover
<1>10. ~ CopyWord
  <2> SUFFICES ASSUME CopyWord PROVE FALSE
    OBVIOUS
  <2>1. call # NoCall /\ call.fun = "memcpy"
    BY DEF CopyWord, Calling
  <2> QED
    BY <1>0, <2>1 DEF CallOK, Computed, OwnData
<1>11. CASE SetWord
  <2>1. call # NoCall /\ call.fun \in {"memset", "calloc"}
    BY <1>11 DEF SetWord, Calling
  <2>2. /\ call \in Call /\ call.fun = "calloc" /\ call.fun \in prog.kinds /\ call.c = 0
        /\ <<call.dst, 4>> \in prog.accesses
    <3>1. call \in Call /\ call.left \in 1 .. Words /\ call.dst \in Int
      BY <1>0, <2>1 DEF Call, Address
    <3>2. 0 \in 0 .. call.left - 1 /\ call.dst + 4 * 0 = call.dst
      BY <3>1
    <3> QED
      BY <1>0, <2>1, <3>1, <3>2 DEF CallOK, Computed, OwnData
  <2>3. call.dst \in Address /\ 4 \in Sizes /\ Natural(call.dst, 4)
    BY <1>1, <2>2 DEF Sizes
  <2> DEFINE d == [i \in 0 .. 3 |-> Constant(IF i = 0 THEN call.c ELSE 0)]
             e == [i \in 0 .. 3 |-> Constant(call.c)]
  <2>4. d \in Data(4) /\ e \in Data(4)
    BY <2>2, SetType
  <2>5. /\ mem' = MemWith(call.dst, 4, e) /\ seen' = NothingSeen
        /\ cells' = AfterWrite(cells, call.dst, 4, d, memData)
    BY <1>0, <1>11, <2>1 DEF SetWord
  <2>6. e = Zeros(4)
    <3>1. 0 .. 3 = 0 .. 4 - 1
      OBVIOUS
    <3> QED
      BY <2>2, <3>1 DEF Zeros, Constant
  <2> HIDE DEF d, e
  <2>7. memData \in Word
    BY DEF MemoryOK, TypeOK
  <2>8. Cover'
    BY <1>0, <2>3, <2>4, <2>5, <2>7, WriteCovers
  <2>9. IdealStep
    BY <2>2, <2>5, <2>6 DEF IdealStep
  <2> QED
    BY <2>5, <2>8, <2>9
<1> QED
  BY <1>3, <1>4, <1>5, <1>6, <1>7, <1>8, <1>9, <1>10, <1>11 DEF Next

(* QIF's symbolic memory implements the ideal one for the programs it      *)
(* computes: what it delivers has the program's values, and depends on the *)
(* key where the program's memory does.                                    *)
THEOREM MemoryRefines == Spec => Exact
<1>1. MemoryOK /\ ExactInv /\ [Next]_vars => ExactInv'
  <2> SUFFICES ASSUME MemoryOK, ExactInv, [Next]_vars PROVE ExactInv'
    OBVIOUS
  <2>1. CASE UNCHANGED vars
    <3>1. Computed' <=> Computed
      BY <2>1 DEF vars, Computed, Understood, KeyAt
    <3>2. Cover' <=> Cover
      BY <2>1 DEF vars, Cover
    <3>3. Followed(Same) => Followed(Same)'
      BY <2>1 DEF vars, Followed, Follows, SeenFollows
    <3>4. call' # NoCall => seen' = NothingSeen
      BY <2>1 DEF vars, ExactInv
    <3> QED
      BY <3>1, <3>2, <3>3, <3>4 DEF ExactInv
  <2>2. CASE Next
    <3>1. prog' = prog
      BY <2>2 DEF Next, Load, Store, Update, Unmodelled, StoreLoaded, PushMemory, MoveWord,
         RegisterOnly, Instruction, StartLibc, StartCall, CopyWord, SetWord
    <3>2. Computed' => Computed /\ Understood
      BY <3>1, SMTT(20) DEF Computed, Understood, KeyAt
    <3>3. Computed => Serves(Same)
      BY DEF Serves, Same, ExactInv
    <3>4. Computed' => Followed(Same)' /\ Cover'
      BY <2>2, <3>2, <3>3, FollowStep, IdealMoves DEF ExactInv
    <3>5. call' # NoCall => seen' = NothingSeen
      BY <2>2 DEF ExactInv, Next, Load, Store, Update, Unmodelled, StoreLoaded, PushMemory,
         MoveWord, RegisterOnly, Instruction, StartLibc, StartCall, CopyWord, SetWord, EndOfTurn,
         Calling
    <3> QED
      BY <3>4, <3>5 DEF ExactInv
  <2> QED
    BY <2>1, <2>2
<1>2. MemoryOK /\ ExactInv /\ [Next]_vars => [Computed => IdealStep]_<<prog, mem, seen>>
  BY IdealMoves DEF vars
<1>3. Init => IdealInit
  BY DEF Init
<1> QED
  BY <1>1, <1>2, <1>3, ExactInit, MemoryTyped, PTL DEF Spec, Exact

-----------------------------------------------------------------------------
(* Beside the other engines, QIF's memory is what it is by itself.         *)
LEMMA EnginesImplementSpec == EnginesSpec => Spec
<1>1. EnginesInit => Init
  BY DEF EnginesInit
<1>2. EnginesNext => [Next]_vars
  <2>1. Both => Next \/ UNCHANGED vars
    BY DEF Both, BothLoad, BothStore, BothUpdate, BothStoreLoaded, BothPush, BothMoveWord, BothDie,
       BothRegisterOnly, Next
  <2>2. QifOnly => Next
    BY DEF QifOnly
  <2>3. Ended => UNCHANGED vars
    BY DEF Ended, engineVars
  <2> QED
    BY <2>1, <2>2, <2>3 DEF EnginesNext
<1>3. UNCHANGED engineVars => UNCHANGED vars
  BY DEF engineVars
<1> QED
  BY <1>1, <1>2, <1>3, PTL DEF EnginesSpec, Spec

(* The program is chosen once.                                             *)
LEMMA EnginesKeepProgram == [EnginesNext]_engineVars => prog' = prog
<1>1. Next => prog' = prog
  BY DEF Next, Load, Store, Update, Unmodelled, StoreLoaded, PushMemory, MoveWord,
     RegisterOnly, Instruction, StartLibc, StartCall, CopyWord, SetWord
<1>2. Both => Next \/ UNCHANGED vars
  BY DEF Both, BothLoad, BothStore, BothUpdate, BothStoreLoaded, BothPush, BothMoveWord, BothDie,
     BothRegisterOnly, Next
<1> QED
  BY <1>1, <1>2 DEF EnginesNext, QifOnly, Ended, engineVars, vars

(* Next to the other engines: a natural read of QIF delivers the program's *)
(* value, as readMem compares it with the trace.                           *)
THEOREM EnginesReadsHeal == EnginesSpec => []NaturalReadsHeal
BY EnginesImplementSpec, ReadsHeal, PTL

(* Next to the other engines: no key byte of QIF stands where the program  *)
(* has none (writeMem, memory_find and the libc models).                   *)
THEOREM EnginesKeyIsNotInvented == EnginesSpec => []KeyNotInvented
BY EnginesImplementSpec, KeyIsNotInvented, PTL

(* Next to the other engines: for computed programs QIF implements the     *)
(* ideal memory.                                                           *)
THEOREM EnginesMemoryRefines == EnginesSpec => Exact
BY EnginesImplementSpec, MemoryRefines, PTL

-----------------------------------------------------------------------------
(* CryptoHunt's cells cs hold what the bytes of memory came from.          *)
Holds(cs, from) ==
  \A a \in Address : Aligned(a) =>
    [i \in 0 .. 3 |-> from[a + i]] =
      IF cs[a] = NoDyn THEN [i \in 0 .. 3 |-> Input(a + i)] ELSE cs[a]

(* A function on a set, whatever its values.                               *)
Function(f, S) == f = [x \in S |-> f[x]]

(* An address and its dword as numbers.                                    *)
LEMMA DynBaseIs ==
  ASSUME NEW a \in Address
  PROVE  /\ DynBase(a) = Base(a) /\ Base(a) \in Address /\ Aligned(Base(a))
         /\ a \in Int /\ Base(a) \in Int /\ a % 4 \in 0 .. 3 /\ Base(a) + (a % 4) = a
         /\ a % 4 = 0 => Base(a) = a
<1>1. a \in Int /\ a % 4 \in 0 .. 3
  BY DEF Address
<1>2. DynBase(a) = a - (a % 4) /\ Base(a) = a - (a % 4)
  BY DEF DynBase, Base, Offset
<1>3. Base(a) \in Int /\ Base(a) + (a % 4) = a /\ (a % 4 = 0 => Base(a) = a)
  BY <1>1, <1>2
<1> QED
  BY <1>1, <1>2, <1>3, AlignType

(* A dword that is met has a cell, with its bytes.                         *)
LEMMA DynMetHolds ==
  ASSUME NEW cs, Function(cs, Address), NEW from, Holds(cs, from), NEW a \in Address
  PROVE  /\ Function(DynMet(cs, a), Address) /\ Holds(DynMet(cs, a), from)
         /\ DynMet(cs, a)[Base(a)] = [i \in 0 .. 3 |-> from[Base(a) + i]]
<1>1. DynBase(a) = Base(a) /\ Base(a) \in Address /\ Aligned(Base(a))
  BY DynBaseIs
<1> DEFINE inputs == [i \in 0 .. 3 |-> Input(Base(a) + i)]
           now    == [i \in 0 .. 3 |-> from[Base(a) + i]]
<1>2. now = IF cs[Base(a)] = NoDyn THEN inputs ELSE cs[Base(a)]
  BY <1>1 DEF Holds
<1>3. CASE cs[Base(a)] # NoDyn
  BY <1>1, <1>2, <1>3 DEF DynMet
<1>4. CASE cs[Base(a)] = NoDyn
  <2>1. DynMet(cs, a) = [cs EXCEPT ![Base(a)] = inputs] /\ inputs = now
    BY <1>1, <1>2, <1>4 DEF DynMet
  <2> HIDE DEF inputs
  <2>2. /\ Function(DynMet(cs, a), Address) /\ DynMet(cs, a)[Base(a)] = now
        /\ \A b \in Address : b # Base(a) => DynMet(cs, a)[b] = cs[b]
    BY <1>1, <2>1 DEF Function
  <2>3. ASSUME NEW b \in Address, Aligned(b)
        PROVE  [i \in 0 .. 3 |-> from[b + i]] =
                 IF DynMet(cs, a)[b] = NoDyn THEN [i \in 0 .. 3 |-> Input(b + i)]
                 ELSE DynMet(cs, a)[b]
    <3>1. CASE b = Base(a)
      <4>1. now # NoDyn
        BY DEF NoDyn
      <4> QED
        BY <2>2, <3>1, <4>1
    <3>2. CASE b # Base(a)
      BY <2>2, <2>3, <3>2 DEF Holds
    <3> QED
      BY <3>1, <3>2
  <2> QED
    BY <2>2, <2>3 DEF Holds
<1> QED
  BY <1>3, <1>4

(* Bytes and aligned dwords are read as they are.                          *)
LEMMA DynReadHolds ==
  ASSUME NEW cs, Function(cs, Address), NEW from, Holds(cs, from), NEW a \in Address,
         NEW n \in {1, 4}, Asserted(a, n)
  PROVE  DynReadValue(cs, a, n) = [i \in 0 .. n - 1 |-> from[a + i]]
<1>1. /\ DynBase(a) = Base(a) /\ Base(a) \in Int /\ a \in Int
      /\ a % 4 \in 0 .. 3 /\ Base(a) + (a % 4) = a
  BY DynBaseIs
<1>2. DynMet(cs, a)[Base(a)] = [i \in 0 .. 3 |-> from[Base(a) + i]]
  BY DynMetHolds
<1>3. Base(a) + DynFirst(a, n) = a /\ DynFirst(a, n) \in 0 .. 3
      /\ \A i \in 0 .. n - 1 : DynFirst(a, n) + i \in 0 .. 3
  <2>1. CASE n = 1
    <3>1. DynFirst(a, n) = a % 4
      BY <2>1 DEF DynFirst
    <3> QED
      BY <1>1, <2>1, <3>1
  <2>2. CASE n = 4
    <3>1. DynFirst(a, n) = 0 /\ a % 4 = 0
      BY <2>2 DEF DynFirst, Asserted
    <3> QED
      BY <1>1, <2>2, <3>1
  <2> QED
    BY <2>1, <2>2
<1>4. \A i \in 0 .. n - 1 : DynMet(cs, a)[Base(a)][DynFirst(a, n) + i] = from[a + i]
  <2> TAKE i \in 0 .. n - 1
  <2>1. DynFirst(a, n) + i \in 0 .. 3 /\ Base(a) + (DynFirst(a, n) + i) = a + i
    BY <1>1, <1>3
  <2> QED
    BY <1>2, <2>1
<1> QED
  BY <1>1, <1>4 DEF DynReadValue

(* A write changes what its bytes came from, and nothing else.             *)
LEMMA DynWriteHolds ==
  ASSUME NEW cs, Function(cs, Address), Holds(cs, origin), NEW a \in Address,
         NEW n \in {1, 4}, Asserted(a, n), a + n - 1 \in Address,
         NEW d, Function(d, 0 .. n - 1)
  PROVE  /\ Function(DynAfterWrite(cs, a, n, d), Address)
         /\ Holds(DynAfterWrite(cs, a, n, d), OriginWith(a, n, d))
<1> DEFINE from  == OriginWith(a, n, d)
           after == DynAfterWrite(cs, a, n, d)
<1>1. /\ DynBase(a) = Base(a) /\ Base(a) \in Address /\ Aligned(Base(a))
      /\ a \in Int /\ Base(a) \in Int /\ a % 4 \in 0 .. 3 /\ Base(a) + (a % 4) = a
      /\ a % 4 = 0 => Base(a) = a
  BY DynBaseIs
<1>2. \A b \in Address : from[b] = IF b \in a .. a + n - 1 THEN d[b - a] ELSE origin[b]
  BY DEF OriginWith
<1> HIDE DEF from
<1>3. ASSUME NEW b \in Address, Aligned(b), b # Base(a), NEW i \in 0 .. 3
      PROVE  from[b + i] = origin[b + i]
  <2>1. b + i \in Address /\ b \in Int
    BY <1>3, DwordIn DEF Address
  <2>2. b + i \notin a .. a + n - 1
    <3> SUFFICES ASSUME b + i \in a .. a + n - 1 PROVE FALSE
      OBVIOUS
    <3> DEFINE k == b + i - Base(a)
    <3>1. k \in 0 .. 3 /\ b + i = Base(a) + k
      <4>1. CASE n = 1
        <5>1. b + i = a
          BY <1>1, <2>1, <4>1
        <5>2. k = a - Base(a) /\ a - Base(a) = a % 4
          BY <1>1, <5>1
        <5>3. a = Base(a) + (a % 4)
          BY <1>1
        <5> QED
          BY <1>1, <5>1, <5>2, <5>3
      <4>2. CASE n = 4
        <5>1. a % 4 = 0
          BY <4>2 DEF Asserted
        <5>2. Base(a) = a
          BY <1>1, <5>1
        <5> QED
          BY <1>1, <2>1, <4>2, <5>2
      <4> QED
        BY <4>1, <4>2
    <3> HIDE DEF k
    <3> QED
      BY <1>1, <1>3, <3>1, DwordsApart
  <2> QED
    BY <1>2, <2>1, <2>2
<1>4. /\ Function(after, Address)
      /\ \A b \in Address : Aligned(b) /\ b # Base(a) =>
           [i \in 0 .. 3 |-> origin[b + i]] =
             IF after[b] = NoDyn THEN [i \in 0 .. 3 |-> Input(b + i)] ELSE after[b]
      /\ after[Base(a)] = [i \in 0 .. 3 |-> from[Base(a) + i]]
  <2>1. CASE n = 4
    <3>1. Base(a) = a
      <4>1. a % 4 = 0
        BY <2>1 DEF Asserted
      <4> QED
        BY <1>1, <4>1
    <3>2. after = [cs EXCEPT ![a] = d]
      BY <2>1 DEF DynAfterWrite
    <3> HIDE DEF after
    <3>3. /\ Function(after, Address) /\ after[a] = d
          /\ \A b \in Address : b # a => after[b] = cs[b]
      BY <3>2 DEF Function
    <3>4. d = [i \in 0 .. 3 |-> from[a + i]]
      <4>1. d = [i \in 0 .. 3 |-> d[i]]
        <5>1. 0 .. n - 1 = 0 .. 3
          BY <2>1
        <5> QED
          BY <5>1 DEF Function
      <4>2. ASSUME NEW i \in 0 .. 3 PROVE from[a + i] = d[i]
        <5>1. a + i \in Address
          BY <1>1, <3>1, DwordIn
        <5>2. a + i \in a .. a + n - 1 /\ (a + i) - a = i
          BY <1>1, <2>1
        <5>3. from[a + i] = d[(a + i) - a]
          BY <1>2, <5>1, <5>2
        <5> QED
          BY <5>2, <5>3
      <4>3. [i \in 0 .. 3 |-> d[i]] = [i \in 0 .. 3 |-> from[a + i]]
        BY <4>2
      <4> QED
        BY <4>1, <4>3
    <3> QED
      BY <3>1, <3>3, <3>4 DEF Holds
  <2>2. CASE n = 1
    <3> DEFINE met  == DynMet(cs, a)
               cell == [met[Base(a)] EXCEPT ![a % 4] = d[0]]
    <3>1. /\ Function(met, Address) /\ Holds(met, origin)
          /\ met[Base(a)] = [i \in 0 .. 3 |-> origin[Base(a) + i]]
      BY DynMetHolds
    <3>2. after = [met EXCEPT ![Base(a)] = cell]
      BY <1>1, <2>2 DEF DynAfterWrite
    <3> HIDE DEF after, met
    <3>3. cell = [i \in 0 .. 3 |-> from[Base(a) + i]]
      <4>1. cell = [i \in 0 .. 3 |-> IF i = a % 4 THEN d[0] ELSE origin[Base(a) + i]]
        BY <3>1
      <4>2. ASSUME NEW i \in 0 .. 3
            PROVE  from[Base(a) + i] = IF i = a % 4 THEN d[0] ELSE origin[Base(a) + i]
        <5>1. Base(a) + i \in Address
          BY <1>1, DwordIn
        <5>2. CASE i = a % 4
          <6>1. a \in a .. a + n - 1 /\ a - a = 0
            BY <1>1, <2>2
          <6>2. from[a] = d[a - a]
            BY <1>2, <6>1
          <6> QED
            BY <1>1, <5>2, <6>1, <6>2
        <5>3. CASE i # a % 4
          <6>1. Base(a) + i # a
            BY <1>1, <5>1, <5>3
          <6>2. Base(a) + i \notin a .. a + n - 1
            BY <1>1, <2>2, <5>1, <6>1
          <6> QED
            BY <1>2, <5>1, <5>3, <6>2
        <5> QED
          BY <5>2, <5>3
      <4> QED
        BY <4>1, <4>2
    <3> HIDE DEF cell
    <3>4. /\ Function(after, Address) /\ after[Base(a)] = cell
          /\ \A b \in Address : b # Base(a) => after[b] = met[b]
      BY <1>1, <3>1, <3>2 DEF Function
    <3> QED
      BY <3>1, <3>3, <3>4 DEF Holds
  <2> QED
    BY <2>1, <2>2
<1> HIDE DEF after
<1>5. ASSUME NEW b \in Address, Aligned(b)
      PROVE  [i \in 0 .. 3 |-> from[b + i]] =
               IF after[b] = NoDyn THEN [i \in 0 .. 3 |-> Input(b + i)] ELSE after[b]
  <2>1. CASE b = Base(a)
    <3>1. [i \in 0 .. 3 |-> from[Base(a) + i]] # NoDyn
      BY DEF NoDyn
    <3> QED
      BY <1>4, <2>1, <3>1
  <2>2. CASE b # Base(a)
    <3>1. [i \in 0 .. 3 |-> from[b + i]] = [i \in 0 .. 3 |-> origin[b + i]]
      BY <1>3, <1>5, <2>2
    <3> QED
      BY <1>4, <1>5, <2>2, <3>1
  <2> QED
    BY <2>1, <2>2
<1> QED
  BY <1>4, <1>5 DEF Holds, from, after

(* Programs of bytes and dwords, which CryptoHunt's engine is exact for;   *)
(* what its register holds is what was read last.                          *)
WithoutWords == CryptoHunt /\ \A acc \in prog.accesses : acc[2] # 2

HeldIsRead ==
  dynHeld # NoDyn =>
    /\ seen.access \in prog.accesses
    /\ dynHeld = [i \in 0 .. seen.access[2] - 1 |-> origin[seen.access[1] + i]]

DynInv ==
  WithoutWords => Function(dynCells, Address) /\ Holds(dynCells, origin) /\ HeldIsRead

LEMMA DynStep ==
  ASSUME MemoryOK, DynInv, WithoutWords, Both
  PROVE  Function(dynCells', Address) /\ Holds(dynCells', origin') /\ HeldIsRead'
<1>0. /\ prog \in Programs /\ SeenOK
      /\ Function(dynCells, Address) /\ Holds(dynCells, origin) /\ HeldIsRead
  BY DEF MemoryOK, TypeOK, DynInv
<1>1. ASSUME NEW acc \in prog.accesses
      PROVE  /\ acc = <<acc[1], acc[2]>> /\ acc[1] \in Address /\ acc[2] \in {1, 4}
             /\ acc[2] \in Sizes /\ acc[1] + acc[2] - 1 \in Address
  BY <1>0, AccessType DEF WithoutWords, Sizes
<1>2. ASSUME NEW cs, Function(cs, Address), Holds(cs, origin), NEW acc \in prog.accesses,
             Asserted(acc[1], acc[2]), NEW d, Function(d, 0 .. acc[2] - 1),
             dynCells' = DynAfterWrite(cs, acc[1], acc[2], d), dynHeld' = NoDyn,
             origin' = OriginWith(acc[1], acc[2], d)
      PROVE  Function(dynCells', Address) /\ Holds(dynCells', origin') /\ HeldIsRead'
  <2>1. /\ Function(DynAfterWrite(cs, acc[1], acc[2], d), Address)
        /\ Holds(DynAfterWrite(cs, acc[1], acc[2], d), OriginWith(acc[1], acc[2], d))
    BY <1>1, <1>2, DynWriteHolds
  <2> QED
    BY <1>2, <2>1 DEF HeldIsRead
<1>3. ASSUME NEW acc \in prog.accesses, BothLoad(acc[1], acc[2])
      PROVE  Function(dynCells', Address) /\ Holds(dynCells', origin') /\ HeldIsRead'
  <2>1. /\ dynCells' = DynMet(dynCells, acc[1]) /\ origin' = origin /\ prog' = prog
        /\ dynHeld' = DynReadValue(dynCells, acc[1], acc[2]) /\ Asserted(acc[1], acc[2])
        /\ seen'.access = <<acc[1], acc[2]>>
    BY <1>3 DEF BothLoad, DynLoad, Load, Instruction, See
  <2>2. dynHeld' = [i \in 0 .. acc[2] - 1 |-> origin[acc[1] + i]]
    BY <1>0, <1>1, <2>1, DynReadHolds
  <2>3. seen'.access = acc
    BY <1>1, <2>1
  <2>4. HeldIsRead'
    BY <2>1, <2>2, <2>3 DEF HeldIsRead
  <2> QED
    BY <1>0, <1>1, <2>1, <2>4, DynMetHolds
<1>4. ASSUME NEW acc \in prog.accesses, NEW d \in prog.data, DOMAIN d = 0 .. acc[2] - 1,
             BothStore(acc[1], acc[2], d) \/ BothUpdate(acc[1], acc[2], d)
      PROVE  Function(dynCells', Address) /\ Holds(dynCells', origin') /\ HeldIsRead'
  <2>1. Function(Sources(d), 0 .. acc[2] - 1)
    BY <1>4 DEF Function, Sources
  <2>2. CASE BothStore(acc[1], acc[2], d)
    BY <1>0, <1>2, <2>1, <2>2 DEF BothStore, DynStore
  <2>3. CASE BothUpdate(acc[1], acc[2], d)
    <3>1. Function(DynMet(dynCells, acc[1]), Address) /\ Holds(DynMet(dynCells, acc[1]), origin)
      BY <1>0, <1>1, DynMetHolds
    <3> QED
      BY <1>2, <2>1, <2>3, <3>1 DEF BothUpdate, DynUpdate
  <2> QED
    BY <1>4, <2>2, <2>3
<1>5. ASSUME NEW acc \in prog.accesses, BothStoreLoaded(acc[1], acc[2])
      PROVE  Function(dynCells', Address) /\ Holds(dynCells', origin') /\ HeldIsRead'
  <2> DEFINE n == acc[2]
             d == [i \in 0 .. n - 1 |-> origin[seen.access[1] + i]]
  <2>1. /\ DOMAIN dynHeld = 0 .. n - 1 /\ ~ died /\ Asserted(acc[1], n)
        /\ dynCells' = DynAfterWrite(dynCells, acc[1], n, dynHeld) /\ dynHeld' = NoDyn
        /\ origin' = OriginWith(acc[1], n, d)
    BY <1>5 DEF BothStoreLoaded, DynStore
  <2>2. dynHeld # NoDyn
    <3>1. 0 \in 0 .. n - 1
      BY <1>1 DEF Sizes
    <3>2. DOMAIN NoDyn = {}
      BY DEF NoDyn
    <3> QED
      BY <2>1, <3>1, <3>2
  <2>3. /\ seen.access \in prog.accesses
        /\ dynHeld = [i \in 0 .. seen.access[2] - 1 |-> origin[seen.access[1] + i]]
    BY <1>0, <2>2 DEF HeldIsRead
  <2>4. 0 .. seen.access[2] - 1 = 0 .. n - 1
    BY <2>1, <2>3
  <2>5. dynHeld = d /\ Function(d, 0 .. n - 1)
    BY <2>3, <2>4 DEF Function
  <2> HIDE DEF d
  <2> QED
    BY <1>0, <1>2, <2>1, <2>5
<1>6. ASSUME NEW acc \in prog.accesses, NEW src \in prog.accesses, src[2] = acc[2], acc[2] = 4,
             BothPush(acc[1], src[1])
      PROVE  Function(dynCells', Address) /\ Holds(dynCells', origin') /\ HeldIsRead'
  <2> DEFINE d == [i \in 0 .. 3 |-> origin[src[1] + i]]
  <2>1. /\ Asserted(acc[1], 4) /\ Asserted(src[1], 4) /\ dynHeld' = NoDyn
        /\ dynCells' = DynAfterWrite(DynMet(dynCells, src[1]), acc[1], 4,
                                     DynReadValue(dynCells, src[1], 4))
        /\ origin' = OriginWith(acc[1], 4, d)
    BY <1>6 DEF BothPush, DynMove
  <2>2. DynReadValue(dynCells, src[1], 4) = [i \in 0 .. 4 - 1 |-> origin[src[1] + i]]
    BY <1>0, <1>1, <2>1, DynReadHolds
  <2>3. d = [i \in 0 .. 4 - 1 |-> origin[src[1] + i]] /\ Function(d, 0 .. 4 - 1)
    <3>1. 0 .. 3 = 0 .. 4 - 1
      OBVIOUS
    <3> QED
      BY <3>1 DEF Function
  <2> HIDE DEF d
  <2>4. /\ Function(DynMet(dynCells, src[1]), Address)
        /\ Holds(DynMet(dynCells, src[1]), origin)
    BY <1>0, <1>1, DynMetHolds
  <2> QED
    BY <1>2, <1>6, <2>1, <2>2, <2>3, <2>4
<1>7. ASSUME NEW acc \in prog.accesses, acc[2] = 2 PROVE FALSE
  BY <1>7 DEF WithoutWords
<1>8. ASSUME NEW a, NEW n, BothDie(a, n)
      PROVE  Function(dynCells', Address) /\ Holds(dynCells', origin') /\ HeldIsRead'
  <2>1. dynCells' = dynCells /\ dynHeld' = dynHeld /\ origin' = origin /\ seen' = seen /\ prog' = prog
    BY <1>8 DEF BothDie, DynDies, vars
  <2> QED
    BY <1>0, <2>1 DEF HeldIsRead
<1>9. CASE BothRegisterOnly
  <2>1. dynCells' = dynCells /\ dynHeld' = NoDyn /\ origin' = origin
    BY <1>9 DEF BothRegisterOnly, DynRegisterOnly
  <2> QED
    BY <1>0, <2>1 DEF HeldIsRead
<1> QED
  BY <1>3, <1>4, <1>5, <1>6, <1>7, <1>8, <1>9 DEF Both

(* For programs of bytes and dwords, CryptoHunt's memory has every byte    *)
(* where the program has it: a dword without a cell is the program's       *)
(* input, and no symbol stands for a byte written before it was met.       *)
THEOREM DynIsExact == EnginesSpec => []DynExact
<1>1. EnginesInit => DynInv
  <2> SUFFICES ASSUME EnginesInit PROVE DynInv
    OBVIOUS
  <2>1. /\ dynCells = [a \in Address |-> NoDyn] /\ dynHeld = NoDyn
        /\ origin = [a \in Address |-> Input(a)]
    BY DynSpaceAssumption DEF EnginesInit, DynInit, DynAddress, Address
  <2>2. Function(dynCells, Address)
    BY <2>1 DEF Function
  <2>3. ASSUME NEW a \in Address, Aligned(a)
        PROVE  [i \in 0 .. 3 |-> origin[a + i]] = [i \in 0 .. 3 |-> Input(a + i)]
    <3>1. \A i \in 0 .. 3 : origin[a + i] = Input(a + i)
      BY <2>1, <2>3, DwordIn
    <3> QED
      BY <3>1
  <2> QED
    BY <2>1, <2>2, <2>3 DEF DynInv, Holds, HeldIsRead
<1>2. MemoryOK /\ DynInv /\ [EnginesNext]_engineVars => DynInv'
  <2> SUFFICES ASSUME MemoryOK, DynInv, [EnginesNext]_engineVars, WithoutWords' PROVE DynInv'
    BY DEF DynInv
  <2>1. prog' = prog
    BY EnginesKeepProgram
  <2>2. WithoutWords
    BY <2>1 DEF WithoutWords, CryptoHunt
  <2>3. CASE CryptoHunt /\ Both
    BY <2>2, <2>3, DynStep DEF DynInv
  <2>4. CASE ~ CryptoHunt \/ Disassembled
    BY <2>2, <2>4 DEF WithoutWords, CryptoHunt, Disassembled
  <2>5. CASE UNCHANGED engineVars
    BY <2>5 DEF engineVars, vars, dynVars, DynInv, Holds, HeldIsRead, WithoutWords, CryptoHunt
  <2> QED
    BY <2>3, <2>4, <2>5 DEF EnginesNext, Ended
<1>3. MemoryOK /\ DynInv => DynExact
  <2> SUFFICES ASSUME DynInv, WithoutWords, NEW a \in Address, Aligned(a)
               PROVE  [i \in 0 .. 3 |-> origin[a + i]] =
                        IF dynCells[a] = NoDyn THEN [i \in 0 .. 3 |-> Input(a + i)]
                        ELSE dynCells[a]
    BY DEF DynExact, WithoutWords
  <2> QED
    BY DEF DynInv, Holds
<1> QED
  BY <1>1, <1>2, <1>3, EnginesImplementSpec, MemoryTyped, PTL DEF EnginesSpec

-----------------------------------------------------------------------------
(* The disassembled programs: those of StaticEngine, or no file at all.    *)
NotDisassembled == ~ Disassembled /\ current = 0 /\ inst_list = <<>>

LEMMA StaticPart ==
  EnginesSpec => Static!StaticSpec \/ []NotDisassembled
<1>1. EnginesInit /\ Disassembled => Static!StaticInit
  BY DEF EnginesInit
<1>2. EnginesInit /\ ~ Disassembled => NotDisassembled
  BY DEF EnginesInit, NotDisassembled, Static!NoFile, Static!NotStarted
<1>3. Disassembled /\ [EnginesNext]_engineVars => Disassembled' /\ [Static!StaticNext]_Static!staticVars
  <2> SUFFICES ASSUME Disassembled, [EnginesNext]_engineVars
               PROVE  Disassembled' /\ [Static!StaticNext]_Static!staticVars
    OBVIOUS
  <2>1. prog' = prog
    BY EnginesKeepProgram
  <2>2. Static!staticVars' = Static!staticVars <=> staticVars' = staticVars
    BY DEF Static!staticVars, Static!blockVars, staticVars
  <2>3. QED
    BY <2>1, <2>2 DEF EnginesNext, Ended, engineVars, Disassembled
<1>4. NotDisassembled /\ [EnginesNext]_engineVars => NotDisassembled'
  <2> SUFFICES ASSUME NotDisassembled, [EnginesNext]_engineVars
               PROVE  NotDisassembled'
    OBVIOUS
  <2>1. prog' = prog
    BY EnginesKeepProgram
  <2>2. QED
    BY <2>1 DEF EnginesNext, Ended, engineVars, staticVars, Disassembled, NotDisassembled
<1>5. QED
  BY <1>1, <1>2, <1>3, <1>4, PTL DEF EnginesSpec, Static!StaticSpec

LEMMA StaticProgramsOK == Static!ProgramsOK /\ StaticSpace \in Nat
BY StaticProgramAssumption, StaticSpaceAssumption DEF Static!ProgramsOK

(* The engine that has no addresses is the processor, in each block of     *)
(* each disassembled program, while texts and addresses are one to one.    *)
THEOREM EnginesStaticExact == EnginesSpec => []StaticExact
<1>1. Static!StaticSpec => []Static!StaticExact
  BY StaticProgramsOK, Static!StaticIsExact
<1>2. NotDisassembled => StaticExact
  BY DEF NotDisassembled, StaticExact, Static!StaticExact, Static!Running
<1>3. StaticExact <=> Static!StaticExact
  BY DEF StaticExact
<1>4. QED
  BY <1>1, <1>2, <1>3, StaticPart, PTL

(* Blocks that divide a disassembled program get their instructions.       *)
THEOREM EnginesBlocksExact == EnginesSpec => []BlocksExact
<1>1. Static!StaticSpec => []Static!BlocksExact
  BY StaticProgramsOK, Static!BlocksAreExact
<1>2. NotDisassembled => BlocksExact
  BY DEF NotDisassembled, BlocksExact, Static!BlocksExact
<1>3. BlocksExact <=> Static!BlocksExact
  BY DEF BlocksExact
<1>4. QED
  BY <1>1, <1>2, <1>3, StaticPart, PTL
=============================================================================
