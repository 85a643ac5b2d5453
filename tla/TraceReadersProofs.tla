-------------------------- MODULE TraceReadersProofs --------------------------
(***************************************************************************)
(* Theorems about the two readers of a trace file, each by itself on any   *)
(* file; then about the Pin tools that write it: what they record, and     *)
(* what the readers get of it.                                             *)
(***************************************************************************)
EXTENDS TraceReaders, FiniteSets, FiniteSetTheorems, TLAPS

-----------------------------------------------------------------------------
(* TraceLoading, for every batch size and every width of the ids: its type *)
(* invariant; what the vector holds is what has been read of the file, in  *)
(* its order; the ids follow the positions while they have room.           *)

(* What is at hand after a getline, and how far the stream has got.        *)
LEMMA GetLineFacts ==
  ASSUME NEW f \in File, NEW s \in Stream, s.pos <= Len(f.lines)
  PROVE  /\ GetLine(f, s) \in Stream
         /\ Len(f.lines) \in Nat
         /\ GetLine(f, s).pos <= Len(f.lines)
         /\ s.good /\ s.pos < Len(f.lines)
              => GetLine(f, s).pos = s.pos + 1 /\ GetLine(f, s).line = s.pos + 1
         /\ s.good /\ s.pos = Len(f.lines)
              => GetLine(f, s).pos = s.pos /\ GetLine(f, s).line = 0
         /\ ~ s.good => GetLine(f, s) = s
         /\ s.good /\ ~ GetLine(f, s).good => GetLine(f, s).pos = Len(f.lines)
BY DEF GetLine, Stream, File

-----------------------------------------------------------------------------
(* The stream stays in the file, and never stops between a header and its  *)
(* key's line, unless the file does.                                       *)
InFile ==
  /\ in.pos <= Len(file.lines)
  /\ in.pos < Len(file.lines) => ~ Heads(in.pos + 1)

Numbers == { list[i].line : i \in 1 .. Len(list) }

Inv == TypeOK /\ InFile /\ LoadedInOrder

(* Nothing between one position and the next was an instruction.           *)
LEMMA NothingLoaded ==
  ASSUME Inv, UNCHANGED <<file, list>>, in'.pos \in Nat, in.pos <= in'.pos,
         \A n \in Loadable : n <= in'.pos => n <= in.pos
  PROVE  LoadedInOrder'
<1>1. in.pos \in Nat /\ Loadable \subseteq Nat
  BY DEF Inv, TypeOK, Stream, Loadable, Lines
<1>2. { n \in Loadable : n <= in'.pos } = { n \in Loadable : n <= in.pos }
  <2>1. ASSUME NEW n \in Loadable
        PROVE  n <= in'.pos <=> n <= in.pos
    BY <1>1
  <2> QED
    BY <2>1
<1>3. Loadable' = Loadable
  BY DEF Loadable, Lines, Heads
<1> QED
  BY <1>2, <1>3 DEF Inv, LoadedInOrder

(* Nor was anything when neither the stream nor the vector moved.          *)
LEMMA NothingRead ==
  ASSUME Inv, UNCHANGED <<file, in, list>>
  PROVE  InFile' /\ LoadedInOrder'
<1>1. Loadable' = Loadable
  BY DEF Loadable, Lines, Heads
<1>2. InFile'
  BY DEF Inv, InFile, Heads
<1>3. LoadedInOrder'
  BY <1>1 DEF Inv, LoadedInOrder
<1> QED
  BY <1>2, <1>3

LEMMA InitInv == Init => Inv
<1> SUFFICES ASSUME Init PROVE Inv
  OBVIOUS
<1>1. file \in Files /\ file \in File /\ Len(file.lines) \in Nat
  BY FilesAssumption DEF Init, File
<1>2. driver \in Driver
  BY DriversAssumption DEF Init
<1>3. TypeOK
  BY <1>1, <1>2 DEF Init, TypeOK, Opened, Stream, Driver
<1>4. InFile
  BY <1>1 DEF Init, InFile, Opened, Heads
<1>5. Loadable \subseteq Nat \ {0}
  BY <1>1 DEF Loadable, Lines
<1>6. LoadedInOrder
  <2>1. list = <<>> /\ Len(list) = 0 /\ in.pos = 0
    BY DEF Init, Opened
  <2>2. { list[i].line : i \in 1 .. Len(list) } = {}
    BY <2>1
  <2>3. { n \in Loadable : n <= in.pos } = {}
    <3>1. ASSUME NEW n \in Loadable
          PROVE  ~ (n <= in.pos)
      BY <1>5, <2>1
    <3> QED
      BY <3>1
  <2> QED
    BY <2>1, <2>2, <2>3 DEF LoadedInOrder
<1> QED
  BY <1>3, <1>4, <1>6 DEF Inv

LEMMA NextInv == Inv /\ [Next]_vars => Inv'
<1> SUFFICES ASSUME Inv, [Next]_vars PROVE Inv'
  OBVIOUS
<1>0. /\ file \in Files /\ file \in File /\ driver \in Driver
      /\ in \in Stream /\ in.pos \in Nat /\ in.line \in Nat /\ Len(file.lines) \in Nat
      /\ in.pos <= Len(file.lines)
  BY FilesAssumption, DriversAssumption DEF Inv, TypeOK, InFile, File, Stream
<1>1. CASE CallAgain
  <2>1. (id + driver.batch) % IdSpace \in Nat
    BY <1>0, IdAssumption DEF Inv, TypeOK, Driver
  <2>2. TypeOK'
    BY <1>0, <1>1, <2>1 DEF CallAgain, Inv, TypeOK, Driver
  <2> QED
    BY <1>1, <2>2, NothingRead DEF CallAgain, Inv
<1>2. CASE Header
  <2> DEFINE s == GetLine(file, in)
  <2>1. /\ s \in Stream /\ s.pos <= Len(file.lines) /\ s.line = in.pos + 1
        /\ s.pos = in.pos + 1 /\ file.lines[s.pos] = "start"
        /\ ~ s.good => s.pos = Len(file.lines)
    BY <1>0, <1>2, GetLineFacts DEF Header, Parsing, Kind
  <2>2. /\ in' \in Stream /\ in'.pos \in Nat /\ in'.pos <= Len(file.lines)
        /\ \/ in'.pos = s.pos /\ s.pos = Len(file.lines)
           \/ in'.pos = s.pos + 1
    <3>1. in' = GetLine(file, s)
      BY <1>2 DEF Header
    <3>2. in' \in Stream /\ in'.pos <= Len(file.lines)
      BY <1>0, <2>1, <3>1, GetLineFacts
    <3>3. CASE ~ s.good
      BY <1>0, <2>1, <3>1, <3>2, <3>3, GetLineFacts DEF Stream
    <3>4. CASE s.good /\ s.pos < Len(file.lines)
      BY <1>0, <2>1, <3>1, <3>2, <3>4, GetLineFacts DEF Stream
    <3>5. CASE s.good /\ s.pos = Len(file.lines)
      BY <1>0, <2>1, <3>1, <3>2, <3>5, GetLineFacts DEF Stream
    <3> QED
      BY <1>0, <2>1, <3>3, <3>4, <3>5
  <2>3. TypeOK'
    BY <1>2, <2>2 DEF Header, Inv, TypeOK
  <2>4. InFile'
    BY <1>0, <1>2, <2>1, <2>2, HeaderAssumption DEF Header, InFile, Heads
  <2>5. \A n \in Loadable : n <= in'.pos => n <= in.pos
    BY <1>0, <2>1, <2>2 DEF Loadable, Lines, Heads
  <2>6. LoadedInOrder'
    BY <1>0, <1>2, <2>1, <2>2, <2>5, NothingLoaded DEF Header
  <2> QED
    BY <2>3, <2>4, <2>6 DEF Inv
<1>3. ASSUME Parsing, in' = GetLine(file, in), Kind(file, in'.line) \in {"empty", "end"},
             UNCHANGED <<driver, file, list, id, call>>,
             at' \in {"stop", "full", "caller"}
      PROVE  Inv'
  <2>1. /\ in' \in Stream /\ in'.pos \in Nat /\ in'.pos <= Len(file.lines)
        /\ \/ in'.pos = in.pos
           \/ in'.pos = in.pos + 1 /\ in'.line = in.pos + 1
    <3>1. in' \in Stream /\ in'.pos <= Len(file.lines)
      BY <1>0, <1>3, GetLineFacts
    <3>2. CASE in.pos < Len(file.lines)
      BY <1>0, <1>3, <3>1, <3>2, GetLineFacts DEF Parsing, Stream
    <3>3. CASE in.pos = Len(file.lines)
      BY <1>0, <1>3, <3>1, <3>3, GetLineFacts DEF Parsing, Stream
    <3> QED
      BY <1>0, <3>2, <3>3
  <2>2. TypeOK'
    BY <1>3, <2>1 DEF Inv, TypeOK
  <2>3. in'.pos = in.pos + 1 => file.lines[in'.pos] \in {"empty", "end"}
    BY <1>0, <1>3, <2>1 DEF Kind
  <2>4. InFile'
    <3>1. CASE in'.pos = in.pos
      BY <1>3, <2>1, <3>1 DEF Inv, InFile, Heads
    <3>2. CASE in'.pos = in.pos + 1
      BY <1>0, <1>3, <2>1, <2>3, <3>2 DEF InFile, Heads
    <3> QED
      BY <2>1, <3>1, <3>2
  <2>5. \A n \in Loadable : n <= in'.pos => n <= in.pos
    BY <1>0, <2>1, <2>3 DEF Loadable, Lines
  <2>6. LoadedInOrder'
    BY <1>0, <1>3, <2>1, <2>5, NothingLoaded
  <2> QED
    BY <2>2, <2>4, <2>6 DEF Inv
<1>4. CASE EmptyLine
  BY <1>3, <1>4 DEF EmptyLine
<1>5. CASE EndLine
  BY <1>3, <1>5 DEF EndLine
<1>6. CASE Instruction
  <2> DEFINE p == in.pos + 1
             new == [line |-> p, id |-> call.num]
  <2>1. /\ in' \in Stream /\ in'.pos = p /\ in'.line = p /\ p <= Len(file.lines)
        /\ file.lines[p] \notin {"start", "empty", "end"}
    BY <1>0, <1>6, GetLineFacts DEF Instruction, Parsing, Kind
  <2>2. p \in Loadable
    BY <1>0, <2>1 DEF Inv, InFile, Loadable, Lines
  <2>3. list' = Append(list, new)
    BY <1>6, <2>1 DEF Instruction
  <2>4. /\ call.num \in Nat /\ (call.num + 1) % IdSpace \in Nat
        /\ call.max \in Nat /\ call.count \in Nat
    <3>1. call.num \in Nat /\ call.count \in 1 .. call.max + 1
      BY DEF Inv, TypeOK
    <3>2. (call.num + 1) % IdSpace \in Nat
      BY <3>1, IdAssumption
    <3>3. call.max \in {driver.first, driver.batch}
      BY DEF Inv, TypeOK
    <3>4. call.max \in Nat
      BY <1>0, <3>3 DEF Driver
    <3> QED
      BY <3>1, <3>2, <3>4
  <2>5. list \in Seq([line : Nat, id : Nat]) /\ new \in [line : Nat, id : Nat]
    BY <1>0, <2>4 DEF Inv, TypeOK
  <2>6. /\ list' \in Seq([line : Nat, id : Nat])
        /\ Len(list) \in Nat /\ Len(list') = Len(list) + 1
        /\ \A i \in 1 .. Len(list) : list'[i] = list[i]
        /\ list'[Len(list) + 1] = new
    BY <2>3, <2>5
  <2>7. TypeOK'
    <3>1. /\ call'.max = call.max
          /\ call'.num \in Nat
          /\ call'.count \in 1 .. call'.max + 1
      <4>1. /\ call'.max = call.max /\ call'.num = (call.num + 1) % IdSpace
            /\ call'.count = call.count + 1 /\ call.count <= call.max
        BY <1>6 DEF Instruction, Parsing, Inv, TypeOK
      <4> QED
        BY <2>4, <4>1
    <3> QED
      BY <1>6, <2>1, <2>6, <3>1 DEF Instruction, Inv, TypeOK
  <2>8. InFile'
    BY <1>0, <1>6, <2>1 DEF Instruction, InFile, Heads
  <2>9. Loadable' = Loadable
    BY <1>6 DEF Instruction, Loadable, Lines, Heads
  <2>10. Numbers' = Numbers \cup {p}
    <3>1. 1 .. Len(list') = (1 .. Len(list)) \cup {Len(list) + 1}
      BY <2>6
    <3>2. \A i \in 1 .. Len(list) : list'[i].line = list[i].line
      BY <2>6
    <3>3. list'[Len(list) + 1].line = p
      BY <2>6
    <3> QED
      BY <3>1, <3>2, <3>3 DEF Numbers
  <2>11. { n \in Loadable : n <= p } = { n \in Loadable : n <= in.pos } \cup {p}
    BY <1>0, <2>2 DEF Loadable, Lines
  <2>12. Numbers' = { n \in Loadable : n <= in.pos }' 
    BY <2>1, <2>9, <2>10, <2>11 DEF Inv, LoadedInOrder, Numbers
  <2>13. \A i \in 1 .. Len(list) : list[i].line < p
    <3> TAKE i \in 1 .. Len(list)
    <3>1. list[i].line \in { n \in Loadable : n <= in.pos }
      BY DEF Inv, LoadedInOrder
    <3> QED
      BY <1>0, <3>1 DEF Loadable, Lines
  <2>14. \A i, j \in 1 .. Len(list) : i < j => list[i].line < list[j].line
    BY DEF Inv, LoadedInOrder
  <2>15. ASSUME NEW i \in 1 .. Len(list'), NEW j \in 1 .. Len(list'), i < j
         PROVE  list'[i].line < list'[j].line
    <3>0. Len(list) \in Nat /\ Len(list') = Len(list) + 1
      BY <2>6
    <3>1. CASE j = Len(list) + 1
      <4>1. i \in 1 .. Len(list)
        BY <2>15, <3>0, <3>1
      <4>2. list'[i].line < p /\ list'[j].line = p
        BY <2>6, <2>13, <3>1, <4>1
      <4> QED
        BY <4>2
    <3>2. CASE j # Len(list) + 1
      <4>1. i \in 1 .. Len(list) /\ j \in 1 .. Len(list)
        BY <2>15, <3>0, <3>2
      <4>2. list'[i] = list[i] /\ list'[j] = list[j]
        BY <2>6, <4>1
      <4>3. list[i].line < list[j].line
        BY <2>15, <2>14, <4>1
      <4> QED
        BY <4>2, <4>3
    <3> QED
      BY <3>1, <3>2
  <2>16. LoadedInOrder'
    BY <2>12, <2>15 DEF LoadedInOrder, Numbers
  <2> QED
    BY <2>7, <2>8, <2>16 DEF Inv
<1>7. CASE CallReturns
  <2>1. TypeOK'
    BY <1>7 DEF CallReturns, Inv, TypeOK
  <2> QED
    BY <1>7, <2>1, NothingRead DEF CallReturns, Inv
<1>8. CASE UNCHANGED vars
  <2>1. TypeOK'
    BY <1>8 DEF vars, Inv, TypeOK
  <2> QED
    BY <1>8, <2>1, NothingRead DEF vars, Inv
<1> QED
  BY <1>1, <1>2, <1>4, <1>5, <1>6, <1>7, <1>8 DEF Next, Step, Terminated

LEMMA Invariance == Spec => []Inv
BY InitInv, NextInv, PTL DEF Spec

(* The stream, the vector and the counters of a call keep their types,     *)
(* whichever loop calls parse_trace.                                       *)
THEOREM TypeCorrect == Spec => []TypeOK
<1>1. Inv => TypeOK
  BY DEF Inv
<1> QED
  BY <1>1, Invariance, PTL

(* However the calls of parse_trace cut the file, the vector holds exactly *)
(* the instructions read so far, once each and in order.                   *)
THEOREM NothingLost == Spec => []LoadedInOrder
<1>1. Inv => LoadedInOrder
  BY DEF Inv
<1> QED
  BY <1>1, Invariance, PTL
-----------------------------------------------------------------------------
(* The ids.  A call starts where the caller's id points, an earlier call   *)
(* has got no further, and the caller steps over a whole batch for each    *)
(* header, of which there is one for each call: while the stream is good   *)
(* every call but the last was ended by a header.                          *)
Headers(f, p) == { n \in 1 .. Len(f.lines) : n <= p /\ f.lines[n] = "start" }

Reach(f, d, p) == d.batch * Cardinality(Headers(f, p)) + 1

Reached == Reach(file, driver, in.pos)

(* A loop whose first call is no longer than the later ones, and is a      *)
(* single instruction when its id lags behind: the code has these only.    *)
KeepsUp(d) == d.first <= d.batch /\ (d.idFirst \/ d.first = 1)

(* The ids of a batch for every header, and of two more, fit their width.  *)
IdRoom(f, d) ==
  d.batch * (Cardinality({ n \in 1 .. Len(f.lines) : f.lines[n] = "start" }) + 2) < IdSpace

Increasing == \A i, j \in 1 .. Len(list) : i < j => list[i].id < list[j].id

Positions == ~ HeaderMet => \A i \in 1 .. Len(list) : list[i].id = i

(* The number the next instruction gets, from the caller's id.             *)
CallNumber ==
  IF driver.idFirst THEN call.num = id + call.count - 1
  ELSE \/ id = 1 /\ call.num = call.count /\ call.max = driver.first
       \/ call.num + driver.batch = id + call.count - 1 /\ call.max = driver.batch

Ahead ==
  /\ id >= 1 /\ call.num >= 1 /\ id <= Reached
  /\ at = "caller" => HeaderMet /\ call.count <= call.max /\ id + driver.batch <= Reached
  /\ \A i \in 1 .. Len(list) : 1 <= list[i].id /\ list[i].id < call.num
  /\ CallNumber
  /\ ~ HeaderMet => call.num = Len(list) + 1

IdsOK == Increasing /\ Positions /\ (in.good => Ahead)

LEMMA Monotone ==
  ASSUME NEW b \in Nat, NEW m \in Nat, NEW n \in Nat, m <= n
  PROVE  b * m \in Nat /\ b * m <= b * n
<1>1. PICK k \in Nat : n = m + k
  <2>1. n - m \in Nat /\ n = m + (n - m)
    OBVIOUS
  <2> QED
    BY <2>1
<1>2. b * n = b * m + b * k
  BY <1>1
<1>3. b * m \in Nat /\ b * k \in Nat
  OBVIOUS
<1> QED
  BY <1>2, <1>3

LEMMA Small ==
  ASSUME NEW n \in Nat, NEW w \in Nat, n < w
  PROVE  n % w = n
OBVIOUS

(* How far the numbers may be, and that they have room for a batch more.   *)
LEMMA ReachFacts ==
  ASSUME NEW f \in File, NEW d \in Driver, NEW p \in Nat, IdRoom(f, d)
  PROVE  /\ IsFiniteSet(Headers(f, p)) /\ Cardinality(Headers(f, p)) \in Nat
         /\ Reach(f, d, p) \in Nat /\ Reach(f, d, p) >= 1
         /\ Reach(f, d, p) + d.batch < IdSpace
<1> DEFINE H == { n \in 1 .. Len(f.lines) : f.lines[n] = "start" }
           b == d.batch
           r == Cardinality(Headers(f, p))
           h == Cardinality(H)
<1>1. b \in Nat \ {0} /\ Len(f.lines) \in Nat
  BY DEF Driver, File
<1>3. IsFiniteSet(1 .. Len(f.lines))
  BY <1>1, FS_Interval
<1>4. IsFiniteSet(H)
  BY <1>3, FS_Subset
<1>5. Headers(f, p) \subseteq H
  BY DEF Headers
<1>6. IsFiniteSet(Headers(f, p)) /\ r \in Nat /\ h \in Nat /\ r <= h
  BY <1>4, <1>5, FS_Subset, FS_CardinalityType
<1>7. b * r \in Nat /\ b * r <= b * h /\ b * h \in Nat
  BY <1>1, <1>6, Monotone
<1>8. b * (h + 2) < IdSpace
  BY DEF IdRoom
<1>9. b * (h + 2) = b * h + b + b
  BY <1>1, <1>6
<1>10. Reach(f, d, p) = b * r + 1
  BY DEF Reach
<1> HIDE DEF b, r, h
<1>11. /\ Reach(f, d, p) \in Nat /\ Reach(f, d, p) >= 1
       /\ Reach(f, d, p) + b < IdSpace
  BY <1>1, <1>7, <1>8, <1>9, <1>10, IdAssumption
<1> QED
  BY <1>6, <1>11 DEF b, r

(* Reading on loses no header.                                             *)
LEMMA ReachGrows ==
  ASSUME NEW f \in File, NEW d \in Driver, NEW p \in Nat, NEW q \in Nat, p <= q, IdRoom(f, d)
  PROVE  Reach(f, d, p) <= Reach(f, d, q)
<1>1. Headers(f, p) \subseteq Headers(f, q)
  BY DEF Headers, File
<1>2. Cardinality(Headers(f, p)) <= Cardinality(Headers(f, q))
  BY <1>1, ReachFacts, FS_Subset
<1>3. d.batch \in Nat
  BY DEF Driver
<1>4. /\ Cardinality(Headers(f, p)) \in Nat /\ Cardinality(Headers(f, q)) \in Nat
      /\ Reach(f, d, p) \in Nat /\ Reach(f, d, q) \in Nat
  BY ReachFacts
<1>5. /\ d.batch * Cardinality(Headers(f, p)) <= d.batch * Cardinality(Headers(f, q))
      /\ d.batch * Cardinality(Headers(f, p)) \in Nat
      /\ d.batch * Cardinality(Headers(f, q)) \in Nat
  BY <1>2, <1>3, <1>4, Monotone
<1> QED
  BY <1>5 DEF Reach

(* A header leaves room for the ids of a batch.                            *)
LEMMA HeaderReaches ==
  ASSUME NEW f \in File, NEW d \in Driver, NEW p \in Nat, NEW q \in Nat, p < q, IdRoom(f, d),
         p + 1 <= Len(f.lines), f.lines[p + 1] = "start"
  PROVE  Reach(f, d, p) + d.batch <= Reach(f, d, q)
<1> DEFINE r == Cardinality(Headers(f, p))
           s == Cardinality(Headers(f, q))
           b == d.batch
<1>1. /\ p + 1 \notin Headers(f, p) /\ p + 1 \in Headers(f, q)
      /\ Headers(f, p) \subseteq Headers(f, q)
  BY DEF Headers, File
<1>2. /\ IsFiniteSet(Headers(f, p)) /\ IsFiniteSet(Headers(f, q))
      /\ r \in Nat /\ s \in Nat /\ b \in Nat
  BY ReachFacts DEF Driver
<1>3. Cardinality(Headers(f, p) \cup {p + 1}) = r + 1
  BY <1>1, <1>2, FS_AddElement
<1>4. r + 1 <= s
  BY <1>1, <1>2, <1>3, FS_Subset
<1>5. Reach(f, d, p) = b * r + 1 /\ Reach(f, d, q) = b * s + 1
  BY DEF Reach
<1> HIDE DEF r, s, b
<1>6. b * (r + 1) <= b * s /\ b * (r + 1) \in Nat /\ b * r \in Nat /\ b * s \in Nat
  BY <1>2, <1>4, Monotone
<1>7. b * (r + 1) = b * r + b
  BY <1>2
<1>8. Reach(f, d, p) + b <= Reach(f, d, q)
  BY <1>2, <1>5, <1>6, <1>7
<1> QED
  BY <1>8 DEF b

LEMMA Typed ==
  Inv => /\ file \in File /\ driver \in Driver /\ in \in Stream /\ in.pos \in Nat
         /\ Len(file.lines) \in Nat /\ in.pos <= Len(file.lines)
         /\ id \in Nat /\ call.num \in Nat /\ Len(list) \in Nat
         /\ \A i \in 1 .. Len(list) : list[i].id \in Nat
<1> SUFFICES ASSUME Inv
             PROVE  /\ file \in File /\ driver \in Driver /\ in \in Stream /\ in.pos \in Nat
                    /\ Len(file.lines) \in Nat /\ in.pos <= Len(file.lines)
                    /\ id \in Nat /\ call.num \in Nat /\ Len(list) \in Nat
                    /\ \A i \in 1 .. Len(list) : list[i].id \in Nat
  OBVIOUS
<1>1. file \in File /\ driver \in Driver
  BY FilesAssumption, DriversAssumption DEF Inv, TypeOK
<1> DEFINE T == [line : Nat, id : Nat]
<1>2. list \in Seq(T)
  BY DEF Inv, TypeOK
<1>3. \A i \in 1 .. Len(list) : list[i] \in T
  <2> HIDE DEF T
  <2> QED
    BY <1>2
<1>4. \A i \in 1 .. Len(list) : list[i].id \in Nat
  BY <1>3
<1> QED
  BY <1>1, <1>2, <1>4 DEF Inv, TypeOK, InFile, Stream, File

(* Reading on loses no header, and has met those it had met.               *)
LEMMA HeadersKept ==
  ASSUME Inv, Inv', IdRoom(file, driver), UNCHANGED <<driver, file>>, in.pos <= in'.pos
  PROVE  /\ Reached <= Reached' /\ Reached \in Nat /\ Reached' \in Nat
         /\ HeaderMet => HeaderMet'
<1>1. file \in File /\ driver \in Driver /\ in.pos \in Nat /\ in'.pos \in Nat /\ Len(file.lines) \in Nat
  BY Typed DEF Inv, TypeOK, Stream
<1>2. HeaderMet => HeaderMet'
  BY <1>1 DEF HeaderMet, Lines
<1>3. Reached' = Reach(file, driver, in'.pos)
  BY DEF Reached
<1> QED
  BY <1>1, <1>2, <1>3, ReachFacts, ReachGrows DEF Reached

LEMMA IdsInit ==
  ASSUME Init, KeepsUp(driver), IdRoom(file, driver)
  PROVE  IdsOK
<1>1. Inv
  BY InitInv
<1>2. list = <<>> /\ Len(list) = 0 /\ 1 .. Len(list) = {}
  BY DEF Init
<1>3. Reached \in Nat /\ Reached >= 1
  BY <1>1, Typed, ReachFacts DEF Reached
<1>4. CallNumber
  BY DEF Init, CallNumber
<1>5. Ahead
  BY <1>2, <1>3, <1>4 DEF Init, Ahead
<1> QED
  BY <1>2, <1>5 DEF IdsOK, Increasing, Positions

(* A step that makes no id and leaves the caller waiting.                  *)
LEMMA NoIdMade ==
  ASSUME Inv, Inv', IdsOK, IdRoom(file, driver),
         UNCHANGED <<driver, file, list, id, call>>,
         in.pos <= in'.pos, in'.good => in.good,
         in'.good => at' # "caller"
  PROVE  IdsOK'
<1>1. /\ Reached <= Reached' /\ (~ HeaderMet' => ~ HeaderMet)
  BY HeadersKept
<1>2. Reached \in Nat /\ Reached' \in Nat /\ id \in Nat
  BY HeadersKept, Typed
<1>3. Increasing'
  BY DEF IdsOK, Increasing
<1>4. Positions'
  BY <1>1 DEF IdsOK, Positions
<1>5. ASSUME in'.good PROVE Ahead'
  <2>1. Ahead /\ CallNumber
    BY <1>5 DEF IdsOK, Ahead
  <2>2. CallNumber'
    BY <2>1 DEF CallNumber
  <2>3. (id >= 1)' /\ (call.num >= 1)' /\ (id <= Reached)'
    BY <1>1, <1>2, <2>1 DEF Ahead
  <2>4. (\A i \in 1 .. Len(list) : 1 <= list[i].id /\ list[i].id < call.num)'
    BY <2>1 DEF Ahead
  <2>5. (~ HeaderMet => call.num = Len(list) + 1)'
    BY <1>1, <2>1 DEF Ahead
  <2> QED
    BY <1>5, <2>2, <2>3, <2>4, <2>5 DEF Ahead
<1> QED
  BY <1>3, <1>4, <1>5 DEF IdsOK

LEMMA IdsNext ==
  ASSUME Inv, IdsOK, KeepsUp(driver), IdRoom(file, driver), [Next]_vars
  PROVE  IdsOK' /\ KeepsUp(driver)' /\ IdRoom(file, driver)'
<1>0. UNCHANGED <<driver, file>>
  BY DEF Next, Step, CallAgain, Header, EmptyLine, EndLine, Instruction, CallReturns, Terminated, vars
<1>1. KeepsUp(driver)' /\ IdRoom(file, driver)'
  BY <1>0
<1>2. Inv'
  BY NextInv
<1>3. /\ call.count \in Nat /\ call.max \in Nat /\ call.max <= driver.batch /\ call.count >= 1
      /\ driver.batch \in Nat \ {0}
  <2>1. driver.batch \in Nat \ {0} /\ driver.first \in Nat \ {0}
    BY Typed DEF Driver
  <2>2. call.max \in {driver.first, driver.batch} /\ call.count \in 1 .. call.max + 1
    BY DEF Inv, TypeOK
  <2> QED
    BY <2>1, <2>2 DEF KeepsUp
<1>4. Reached \in Nat /\ Reached >= 1 /\ Reached + driver.batch < IdSpace /\ IdSpace \in Nat
  BY Typed, ReachFacts, IdAssumption DEF Reached
<1>5. CASE CallAgain
  <2>1. in' = in /\ list' = list /\ at' = "parse" /\ call'.count = 1 /\ call'.max = driver.batch
    BY <1>5 DEF CallAgain
  <2>2. Reached' = Reached /\ (HeaderMet' <=> HeaderMet)
    BY <1>0, <2>1 DEF Reached, HeaderMet, Lines
  <2>3. Increasing' /\ Positions'
    BY <2>1, <2>2 DEF IdsOK, Increasing, Positions
  <2>4. ASSUME in'.good PROVE Ahead'
    <3>1. /\ HeaderMet /\ call.count <= call.max /\ id + driver.batch <= Reached /\ id >= 1
          /\ \A i \in 1 .. Len(list) : 1 <= list[i].id /\ list[i].id < call.num
          /\ CallNumber
      BY <1>5, <2>1, <2>4 DEF CallAgain, IdsOK, Ahead
    <3>2. id' = id + driver.batch
      <4>1. id + driver.batch \in Nat /\ id + driver.batch < IdSpace
        BY <1>3, <1>4, <3>1, Typed
      <4>2. id' = (id + driver.batch) % IdSpace
        BY <1>5 DEF CallAgain
      <4> QED
        BY <1>4, <4>1, <4>2, Small
    <3>3. call'.num = IF driver.idFirst THEN id' ELSE id
      BY <1>5 DEF CallAgain
    <3>4. CallNumber'
      BY <1>0, <1>3, <2>1, <3>2, <3>3, Typed DEF CallNumber
    <3>5. call.num <= call'.num /\ call'.num >= 1
      <4>1. CASE driver.idFirst
        BY <1>3, <3>1, <3>2, <3>3, <4>1, Typed DEF CallNumber
      <4>2. CASE ~ driver.idFirst
        <5>1. driver.first = 1
          BY <4>2 DEF KeepsUp
        <5>2. call'.num = id
          BY <3>3, <4>2
        <5> QED
          BY <1>3, <3>1, <4>2, <5>1, <5>2, Typed DEF CallNumber
      <4> QED
        BY <4>1, <4>2
    <3>6. (\A i \in 1 .. Len(list) : list[i].id \in Nat) /\ id \in Nat /\ call.num \in Nat
      BY Typed
    <3>7. (\A i \in 1 .. Len(list) : 1 <= list[i].id /\ list[i].id < call.num)'
      <4>1. call'.num \in Nat
        BY <1>3, <3>2, <3>3, Typed
      <4>2. \A i \in 1 .. Len(list) : list[i].id < call'.num
        BY <1>3, <3>1, <3>5, <3>6, <4>1
      <4> QED
        BY <2>1, <3>1, <4>2
    <3>8. (id >= 1)' /\ (id <= Reached)'
      BY <1>3, <1>4, <2>2, <3>1, <3>2, Typed
    <3> QED
      BY <2>1, <2>2, <3>1, <3>4, <3>5, <3>7, <3>8 DEF Ahead
  <2> QED
    BY <1>1, <2>3, <2>4 DEF IdsOK
<1>6. CASE Header
  <2> DEFINE p == in.pos + 1
  <2>1. /\ GetLine(file, in) \in Stream /\ GetLine(file, in).pos = p /\ p <= Len(file.lines)
        /\ file.lines[p] = "start"
    BY <1>6, Typed, GetLineFacts DEF Header, Parsing, Kind
  <2>2. in'.pos \in Nat /\ in'.pos >= p
    <3>1. in' = GetLine(file, GetLine(file, in))
      BY <1>6 DEF Header
    <3>2. in' \in Stream
      BY <1>2 DEF Inv, TypeOK
    <3> DEFINE s == GetLine(file, in)
    <3>3. s \in Stream /\ s.pos = p /\ p <= Len(file.lines) /\ p \in Nat /\ file \in File
      BY <2>1, Typed
    <3> HIDE DEF s, p
    <3>4. CASE ~ s.good
      BY <3>1, <3>2, <3>3, <3>4, GetLineFacts, SMTT(20) DEF s, Stream
    <3>5. CASE s.good /\ s.pos < Len(file.lines)
      <4>1. GetLine(file, s).pos = s.pos + 1
        BY <3>3, <3>5, GetLineFacts
      <4> QED
        BY <3>1, <3>2, <3>3, <4>1 DEF s, Stream
    <3>6. CASE s.good /\ s.pos = Len(file.lines)
      <4>1. GetLine(file, s).pos = s.pos
        BY <3>3, <3>6, GetLineFacts
      <4> QED
        BY <3>1, <3>2, <3>3, <4>1 DEF s, Stream
    <3>7. Len(file.lines) \in Nat
      BY Typed
    <3> QED
      BY <3>3, <3>4, <3>5, <3>6, <3>7
  <2>3. UNCHANGED <<list, id, call>> /\ at' = "caller" /\ in.good /\ call.count <= call.max
    BY <1>6 DEF Header, Parsing
  <2>4. Ahead
    BY <2>3 DEF IdsOK
  <2>5. HeaderMet'
    BY <1>0, <2>1, <2>2, Typed DEF HeaderMet, Lines
  <2>6. Reached + driver.batch <= Reached' /\ Reached' \in Nat
    <3>1. Reached' = Reach(file, driver, in'.pos)
      BY <1>0 DEF Reached
    <3>2. in.pos < in'.pos /\ in'.pos \in Nat
      BY <2>2, Typed
    <3> QED
      BY <2>1, <3>1, <3>2, Typed, ReachFacts, HeaderReaches DEF Reached
  <2>7. Ahead'
    <3>1. CallNumber'
      BY <1>0, <2>3, <2>4 DEF Ahead, CallNumber
    <3>2. /\ (id >= 1)' /\ (call.num >= 1)' /\ (id <= Reached)'
          /\ (call.count <= call.max)' /\ (id + driver.batch <= Reached)'
      BY <1>0, <1>3, <1>4, <2>3, <2>4, <2>6, Typed DEF Ahead
    <3>3. (\A i \in 1 .. Len(list) : 1 <= list[i].id /\ list[i].id < call.num)'
      BY <2>3, <2>4 DEF Ahead
    <3> QED
      BY <2>5, <3>1, <3>2, <3>3 DEF Ahead
  <2>8. Increasing' /\ Positions'
    BY <2>3, <2>5 DEF IdsOK, Increasing, Positions
  <2> QED
    BY <1>1, <2>7, <2>8 DEF IdsOK
<1>7. ASSUME Parsing, in' = GetLine(file, in), UNCHANGED <<list, id, call>>,
             in'.good => at' # "caller"
      PROVE  IdsOK'
  <2>1. in.pos <= in'.pos
    <3>1. in' \in Stream /\ in'.pos \in Nat
      BY <1>2 DEF Inv, TypeOK, Stream
    <3> QED
      BY <1>7, <3>1, Typed, GetLineFacts DEF Parsing
  <2>2. in.good
    BY <1>7 DEF Parsing
  <2> QED
    BY <1>0, <1>2, <1>7, <2>1, <2>2, NoIdMade
<1>8. CASE EmptyLine
  BY <1>7, <1>8 DEF EmptyLine
<1>9. CASE EndLine
  BY <1>7, <1>9 DEF EndLine
<1>10. CASE Instruction
  <2> DEFINE new == [line |-> in'.line, id |-> call.num]
  <2>1. /\ in.good /\ call.count <= call.max /\ at' = "parse" /\ id' = id /\ at = "parse"
        /\ call'.max = call.max /\ call'.count = call.count + 1
        /\ call'.num = (call.num + 1) % IdSpace
        /\ list' = Append(list, new)
    BY <1>10 DEF Instruction, Parsing
  <2>2. Ahead /\ CallNumber /\ id >= 1 /\ id <= Reached /\ id \in Nat /\ call.num \in Nat
    BY <2>1, Typed DEF IdsOK, Ahead
  <2>3. in.pos <= in'.pos
    <3>1. in' = GetLine(file, in) /\ in' \in Stream /\ in'.pos \in Nat
      BY <1>2, <1>10 DEF Instruction, Inv, TypeOK, Stream
    <3> QED
      BY <2>1, <3>1, Typed, GetLineFacts
  <2>4. Reached <= Reached' /\ Reached' \in Nat /\ (~ HeaderMet' => ~ HeaderMet)
    BY <1>0, <1>1, <1>2, <2>3, HeadersKept
  <2>5. call'.num = call.num + 1
    <3>1. call.num + 1 < IdSpace
      <4>1. CASE driver.idFirst
        BY <1>3, <1>4, <2>1, <2>2, <4>1, SMTT(20) DEF CallNumber
      <4>2. CASE ~ driver.idFirst
        <5>1. driver.first = 1
          BY <4>2 DEF KeepsUp
        <5> QED
          BY <1>3, <1>4, <2>1, <2>2, <4>2, <5>1, SMTT(20) DEF CallNumber
      <4> QED
        BY <4>1, <4>2
    <3>2. call.num + 1 \in Nat
      BY Typed
    <3> QED
      BY <1>4, <2>1, <3>1, <3>2, Small
  <2>6. /\ Len(list) \in Nat /\ Len(list') = Len(list) + 1
        /\ \A i \in 1 .. Len(list) : list'[i] = list[i]
        /\ list'[Len(list) + 1].id = call.num
        /\ \A i \in 1 .. Len(list) : list[i].id \in Nat
    <3>1. list \in Seq([line : Nat, id : Nat])
      BY DEF Inv, TypeOK
    <3>2. new \in [line : Nat, id : Nat]
      <4>1. in' \in Stream
        BY <1>2 DEF Inv, TypeOK
      <4> QED
        BY <4>1, Typed DEF Stream
    <3>3. new.id = call.num
      OBVIOUS
    <3> HIDE DEF new
    <3>4. /\ Len(list) \in Nat /\ Len(list') = Len(list) + 1
          /\ \A i \in 1 .. Len(list) : list'[i] = list[i]
          /\ list'[Len(list) + 1] = new
      BY <2>1, <3>1, <3>2
    <3> QED
      BY <3>3, <3>4, Typed
  <2>7. Increasing'
    <3> SUFFICES ASSUME NEW i \in 1 .. Len(list'), NEW j \in 1 .. Len(list'), i < j
                 PROVE  list'[i].id < list'[j].id
      BY DEF Increasing
    <3>1. CASE j = Len(list) + 1
      <4>1. i \in 1 .. Len(list)
        BY <2>6, <3>1
      <4>2. list[i].id < call.num
        BY <2>2, <4>1 DEF Ahead
      <4> QED
        BY <2>6, <3>1, <4>1, <4>2
    <3>2. CASE j # Len(list) + 1
      <4>1. i \in 1 .. Len(list) /\ j \in 1 .. Len(list)
        BY <2>6, <3>2
      <4>2. list[i].id < list[j].id
        BY <4>1 DEF IdsOK, Increasing
      <4> QED
        BY <2>6, <4>1, <4>2
    <3> QED
      BY <3>1, <3>2
  <2>8. Positions'
    <3> SUFFICES ASSUME ~ HeaderMet', NEW i \in 1 .. Len(list')
                 PROVE  list'[i].id = i
      BY DEF Positions
    <3>1. CASE i = Len(list) + 1
      BY <2>2, <2>4, <2>6, <3>1 DEF Ahead
    <3>2. CASE i # Len(list) + 1
      <4>1. i \in 1 .. Len(list)
        BY <2>6, <3>2
      <4> QED
        BY <2>4, <2>6, <4>1 DEF IdsOK, Positions
    <3> QED
      BY <3>1, <3>2
  <2>9. Ahead'
    <3>1. CallNumber'
      <4>1. CASE driver.idFirst
        BY <1>0, <1>3, <2>1, <2>2, <2>5, <4>1 DEF CallNumber
      <4>2. CASE ~ driver.idFirst /\ id = 1 /\ call.num = call.count /\ call.max = driver.first
        BY <1>0, <1>3, <2>1, <2>2, <2>5, <4>2 DEF CallNumber
      <4>3. CASE /\ ~ driver.idFirst
                 /\ call.num + driver.batch = id + call.count - 1 /\ call.max = driver.batch
        <5>1. call'.num + driver.batch = id + call'.count - 1
          <6>1. call'.num = call.num + 1 /\ call'.count = call.count + 1
            BY <2>1, <2>5
          <6>2. call.num \in Nat /\ call.count \in Nat /\ driver.batch \in Nat /\ id \in Nat
            BY <1>3, <2>2
          <6>3. (call.num + 1) + driver.batch = (call.num + driver.batch) + 1
            BY <6>2
          <6>4. (id + call.count - 1) + 1 = id + (call.count + 1) - 1
            BY <6>2
          <6> QED
            BY <4>3, <6>1, <6>3, <6>4
        <5> QED
          BY <1>0, <2>1, <4>3, <5>1 DEF CallNumber
      <4> QED
        BY <2>2, <4>1, <4>2, <4>3 DEF CallNumber
    <3>2. (\A i \in 1 .. Len(list) : 1 <= list[i].id /\ list[i].id < call.num)'
      <4> SUFFICES ASSUME NEW i \in 1 .. Len(list')
                   PROVE  1 <= list'[i].id /\ list'[i].id < call'.num
        OBVIOUS
      <4>1. CASE i = Len(list) + 1
        BY <2>2, <2>5, <2>6, <4>1, Typed DEF Ahead
      <4>2. CASE i # Len(list) + 1
        <5>1. i \in 1 .. Len(list)
          BY <2>6, <4>2
        <5>2. 1 <= list[i].id /\ list[i].id < call.num /\ list[i].id \in Nat
          BY <2>2, <2>6, <5>1 DEF Ahead
        <5> QED
          BY <2>5, <2>6, <5>1, <5>2, Typed
      <4> QED
        BY <4>1, <4>2
    <3>3. (id >= 1)' /\ (call.num >= 1)' /\ (id <= Reached)'
      BY <1>4, <2>1, <2>2, <2>4, <2>5, Typed DEF Ahead
    <3>4. (~ HeaderMet => call.num = Len(list) + 1)'
      BY <2>2, <2>4, <2>5, <2>6 DEF Ahead
    <3> QED
      BY <2>1, <3>1, <3>2, <3>3, <3>4 DEF Ahead
  <2> QED
    BY <1>1, <2>7, <2>8, <2>9 DEF IdsOK
<1>11. CASE CallReturns \/ UNCHANGED vars
  <2>1. CASE CallReturns
    <3>1. UNCHANGED <<in, list, id, call>> /\ (in'.good => at' # "caller")
      BY <2>1 DEF CallReturns
    <3> QED
      BY <1>0, <1>2, <3>1, Typed, NoIdMade
  <2>2. CASE UNCHANGED vars
    <3>1. (HeaderMet' <=> HeaderMet) /\ Reached' = Reached
      BY <2>2 DEF vars, HeaderMet, Reached, Lines
    <3> QED
      BY <2>2, <3>1 DEF vars, IdsOK, Increasing, Positions, Ahead, CallNumber
  <2> QED
    BY <1>11, <2>1, <2>2
<1>12. IdsOK'
  BY <1>5, <1>6, <1>8, <1>9, <1>10, <1>11 DEF Next, Step, Terminated
<1> QED
  BY <1>1, <1>12

(* Ids rise along the vector across every batch boundary and header, and   *)
(* are the positions in it until a header is met: for every file and every *)
(* caller that keeps up, while the ids of its batches fit their width.     *)
THEOREM IdsArePositions ==
  ASSUME \A d \in Drivers : KeepsUp(d),
         \A f \in Files, d \in Drivers : IdRoom(f, d)
  PROVE  Spec => []IdsFollowPositions
<1> DEFINE All == Inv /\ IdsOK /\ KeepsUp(driver) /\ IdRoom(file, driver)
<1>1. Init => All
  <2> SUFFICES ASSUME Init PROVE All
    OBVIOUS
  <2>1. KeepsUp(driver) /\ IdRoom(file, driver)
    BY DEF Init
  <2> QED
    BY <2>1, InitInv, IdsInit
<1>2. All /\ [Next]_vars => All'
  BY NextInv, IdsNext
<1>3. All => IdsFollowPositions
  BY DEF IdsOK, Increasing, Positions, IdsFollowPositions
<1> QED
  BY <1>1, <1>2, <1>3, PTL DEF Spec

-----------------------------------------------------------------------------
(* QifLoading, for every growing list of limits: its type invariant; no    *)
(* reading goes beyond its limit; the keys are those of the headers in     *)
(* order; a reading holds the instructions of a well-formed file once each *)
(* and in order.                                                           *)

(* getline leaves a stream.                                                *)
LEMMA GetLineType ==
  ASSUME NEW f \in File, NEW s \in Stream
  PROVE  GetLine(f, s) \in Stream
BY DEF GetLine, Stream, File

(* A reading in progress has not reached its limit: an earlier reading     *)
(* leaves at most as many instructions as this one may have.               *)
BelowLimit ==
  Limit # NoLimit =>
    /\ Len(qifList) <= Limit + 1
    /\ qifAt \in {"headers", "body"} => Len(qifList) <= Limit

QifInv == QifTypeOK /\ BelowLimit

LEMMA LimitType ==
  ASSUME QifTypeOK
  PROVE  Limit \in Nat \cup {NoLimit}
<1>1. pass \in 1 .. Len(limits) /\ limits \in LimitLists
  BY DEF QifTypeOK
<1>2. CASE limits = <<NoLimit>>
  <2>1. Len(limits) = 1 /\ limits[1] = NoLimit
    BY <1>2
  <2> QED
    BY <1>1, <2>1 DEF Limit
<1>3. CASE limits \in Seq(Nat)
  BY <1>1, <1>3 DEF Limit
<1> QED
  BY <1>1, <1>2, <1>3, LimitsAssumption

LEMMA QifInitInv == QifInit => QifInv
<1> SUFFICES ASSUME QifInit PROVE QifInv
  OBVIOUS
<1>1. file \in File
  BY FilesAssumption DEF QifInit
<1>2. Opened \in Stream
  BY DEF Opened, Stream
<1>3. qifIn \in Stream
  BY <1>1, <1>2, GetLineType DEF QifInit
<1>4. Len(limits) \in Nat /\ Len(limits) >= 1
  <2>1. CASE limits = <<NoLimit>>
    <3>1. Len(limits) = 1
      BY <2>1
    <3> QED
      BY <3>1
  <2>2. CASE limits \in Seq(Nat) \ {<<>>}
    BY <2>2
  <2> QED
    BY <2>1, <2>2, LimitsAssumption DEF QifInit
<1>5. QifTypeOK
  BY <1>1, <1>3, <1>4 DEF QifInit, QifTypeOK
<1>6. BelowLimit
  BY <1>5, LimitType DEF QifInit, BelowLimit, NoLimit
<1> QED
  BY <1>5, <1>6 DEF QifInv

(* What follows a push keeps the invariant.                                *)
LEMMA PushInv ==
  ASSUME QifInv, NEW s \in Stream, qifAt = "body",
         qifList' = Append(qifList, qifIn.line), AfterPush(s),
         UNCHANGED <<limits, file, symbols, values, pass>>
  PROVE  QifInv'
<1>1. qifIn.line \in Nat
  BY DEF QifInv, QifTypeOK, Stream
<1>2. qifList' \in Seq(Nat) /\ Len(qifList') = Len(qifList) + 1 /\ Len(qifList) \in Nat
  BY <1>1 DEF QifInv, QifTypeOK
<1>3. qifIn' \in Stream /\ qifAt' \in {"body", "done"}
  BY GetLineType DEF AfterPush, QifInv, QifTypeOK
<1>4. QifTypeOK'
  BY <1>2, <1>3 DEF QifInv, QifTypeOK
<1>5. Limit' = Limit /\ Limit \in Nat \cup {NoLimit}
  BY LimitType DEF Limit, QifInv
<1>6. BelowLimit'
  <2> SUFFICES ASSUME Limit # NoLimit
               PROVE  /\ Len(qifList') <= Limit + 1
                      /\ qifAt' \in {"headers", "body"} => Len(qifList') <= Limit
    BY <1>5 DEF BelowLimit
  <2>1. Len(qifList) <= Limit
    BY DEF QifInv, BelowLimit
  <2>2. qifAt' # "done" => Len(qifList') <= Limit
    BY <1>2, <1>5 DEF AfterPush
  <2> QED
    BY <1>2, <1>5, <2>1, <2>2
<1> QED
  BY <1>4, <1>6 DEF QifInv

LEMMA QifNextInv == QifInv /\ [QifNext]_qifVars => QifInv'
<1> SUFFICES ASSUME QifInv, [QifNext]_qifVars PROVE QifInv'
  OBVIOUS
<1> USE DEF QifInv
<1>0. /\ GetLine(file, qifIn) \in Stream
      /\ GetLine(file, GetLine(file, qifIn)) \in Stream
      /\ GetLine(file, Opened) \in Stream
  BY GetLineType DEF QifTypeOK, Opened, Stream
<1>1. CASE QifHeader
  <2>1. qifIn.line \in Nat
    BY DEF QifTypeOK, Stream
  <2>2. symbols' \in Seq(Nat)
    BY <1>1, <2>1 DEF QifHeader, QifTypeOK
  <2> DEFINE new == [i \in 1 .. KeyBytes |-> [header |-> qifIn.line, index |-> i]]
  <2>3. new \in Seq([header : Nat, index : 1 .. KeyBytes])
    BY <2>1, KeyAssumption
  <2>4. values' \in Seq([header : Nat, index : 1 .. KeyBytes])
    BY <1>1, <2>3 DEF QifHeader, QifTypeOK
  <2>5. QifTypeOK'
    BY <1>0, <1>1, <2>2, <2>4 DEF QifHeader, QifTypeOK
  <2> QED
    BY <1>1, <2>5 DEF QifHeader, BelowLimit, Limit
<1>2. CASE HeadersEnd
  BY <1>2 DEF HeadersEnd, QifTypeOK, BelowLimit, Limit
<1>3. CASE BodyEnds
  BY <1>3 DEF BodyEnds, QifTypeOK, BelowLimit, Limit
<1>4. CASE QifInstruction
  <2>1. qifIn \in Stream
    BY DEF QifTypeOK
  <2> QED
    BY <1>4, <2>1, PushInv DEF QifInstruction, InBody
<1>5. CASE LibcCall
  BY <1>0, <1>5, PushInv DEF LibcCall, InBody
<1>6. CASE Malloc
  BY <1>0, <1>6 DEF Malloc, QifTypeOK, BelowLimit, Limit
<1>7. CASE ReadAgain
  <2>1. pass \in Nat /\ pass >= 1 /\ pass + 1 <= Len(limits) /\ Len(limits) \in Nat
    BY <1>7, LimitsAssumption DEF ReadAgain, QifTypeOK
  <2>2. limits # <<NoLimit>>
    <3> SUFFICES ASSUME limits = <<NoLimit>> PROVE FALSE
      OBVIOUS
    <3>1. Len(limits) = 1
      OBVIOUS
    <3> QED
      BY <2>1, <3>1
  <2>3. limits \in Seq(Nat) /\ limits[pass] < limits[pass + 1]
    BY <2>1, <2>2, LimitsAssumption DEF QifTypeOK
  <2>4. QifTypeOK'
    BY <1>0, <1>7, <2>1 DEF ReadAgain, QifTypeOK
  <2>5. Limit \in Nat /\ Limit' \in Nat /\ Limit < Limit'
    BY <1>7, <2>1, <2>3 DEF ReadAgain, Limit
  <2>6. Len(qifList) <= Limit + 1 /\ Len(qifList) \in Nat
    BY <2>5 DEF BelowLimit, QifTypeOK, NoLimit
  <2>7. BelowLimit'
    BY <1>7, <2>5, <2>6 DEF ReadAgain, BelowLimit
  <2> QED
    BY <2>4, <2>7
<1>8. CASE KeyUnreadable
  BY <1>8 DEF KeyUnreadable, QifTypeOK, BelowLimit, Limit
<1>9. CASE UNCHANGED qifVars
  BY <1>9 DEF qifVars, QifTypeOK, BelowLimit, Limit
<1> QED
  BY <1>1, <1>2, <1>3, <1>4, <1>5, <1>6, <1>7, <1>8, <1>9 DEF QifNext, QifStep, QifTerminated

LEMMA QifInvariance == QifSpec => []QifInv
BY QifInitInv, QifNextInv, PTL DEF QifSpec

(* Streams, vectors and the number of the reading keep their types,        *)
(* whatever the file holds (parse_trace_qif).                              *)
THEOREM QifTypeCorrect == QifSpec => []QifTypeOK
<1>1. QifInv => QifTypeOK
  BY DEF QifInv
<1> QED
  BY <1>1, QifInvariance, PTL

(* QIF_EXP never clears its vectors, and no reading replays more than one  *)
(* instruction beyond its limit, as long as the limits grow.               *)
THEOREM LimitsRespected == QifSpec => []LimitRespected
<1>1. QifInv => LimitRespected
  BY DEF QifInv, BelowLimit, LimitRespected
<1> QED
  BY <1>1, QifInvariance, PTL

-----------------------------------------------------------------------------
(* The stream is at a line of the file, or at its end.                     *)
QifInFile(f, s) ==
  /\ s.pos <= Len(f.lines)
  /\ \/ /\ s.line = s.pos /\ s.pos >= 1
        /\ s.good <=> (s.pos < Len(f.lines) \/ f.newline)
     \/ /\ s.line = 0 /\ ~ s.good /\ s.pos = Len(f.lines)
        /\ f.newline \/ Len(f.lines) = 0

(* After h headers: the values of their keys, range by range.              *)
ValuesOK ==
  /\ Len(values) = KeyBytes * Len(symbols)
  /\ \A h \in 1 .. Len(symbols), i \in 1 .. KeyBytes :
       values[(h - 1) * KeyBytes + i] = [header |-> symbols[h], index |-> i]

SymbolsOK ==
  \A h \in 1 .. Len(symbols) :
    symbols[h] = 2 * h - 1 /\ 2 * h - 1 \in Lines /\ file.lines[2 * h - 1] = "start"

(* Headers are read line by line and key by key.  A last line that is a    *)
(* header and is not terminated is read again and again: the stream has    *)
(* failed, and the function's line keeps its text.                         *)
AtHeader ==
  \/ qifIn.line = 2 * Len(symbols) + 1
  \/ ~ qifIn.good /\ qifIn.line = 0 /\ Len(file.lines) <= 2 * Len(symbols)
  \/ ~ qifIn.good /\ qifIn.line = 2 * Len(symbols) /\ Len(file.lines) = qifIn.line

Spins == ~ qifIn.good /\ qifIn.line \in Lines /\ file.lines[qifIn.line] = "start"

HeadersOK ==
  pass = 1 =>
    /\ qifAt = "headers" => Spins \/ (SymbolsOK /\ ValuesOK /\ AtHeader)
    /\ qifAt \in {"body", "done"} =>
         SymbolsOK /\ ValuesOK /\ TopHeaders = { 2 * h - 1 : h \in 1 .. Len(symbols) }

(* What is in the vector when the line at hand is about to be looked at.   *)
Here == IF qifIn.line = 0 THEN Len(file.lines) + 1 ELSE qifIn.line

BodyLines(k) == { n \in Lines \ KeyLines : file.lines[n] \in {"inst", "libc"} /\ n < k }

BodyOK ==
  (pass = 1 /\ Limit = NoLimit) =>
    /\ qifAt = "headers" => qifList = <<>>
    /\ qifAt = "body" =>
         /\ Ordered(qifList) /\ Elements(qifList) = BodyLines(Here)
         /\ \A n \in Stops : Here <= n
         /\ qifIn.good =>
              /\ \A n \in TopHeaders \cup KeyLines : n < Here
              /\ Here \in Lines => file.lines[Here] # "ret"
    /\ qifAt = "done" =>
         Ordered(qifList) /\ Elements(qifList) = Instructions \ Unterminated

ReadingInv == QifInv /\ QifInFile(file, qifIn) /\ HeadersOK

(* A trace as the tracers write it: headers, each with its key's line, at  *)
(* the top, and after them instructions and libc calls of two lines.       *)
HeaderPart(f) ==
  { n \in 1 .. Len(f.lines) :
      \A m \in 1 .. n : m % 2 = 1 => f.lines[m] = "start" }

WellFormed(f) ==
  \A n \in (1 .. Len(f.lines)) \ HeaderPart(f) :
    /\ f.lines[n] \notin {"start", "key"}
    /\ f.lines[n] = "ret" => n > 1 /\ n - 1 \notin HeaderPart(f) /\ f.lines[n - 1] = "libc"
    /\ (f.lines[n] = "libc" /\ n < Len(f.lines)) => f.lines[n + 1] = "ret"

-----------------------------------------------------------------------------
LEMMA GetLineReads ==
  ASSUME NEW f \in File, NEW s \in Stream, s.good, s.pos <= Len(f.lines),
         s.pos = Len(f.lines) => f.newline \/ Len(f.lines) = 0
  PROVE  /\ QifInFile(f, GetLine(f, s)) /\ GetLine(f, s) \in Stream /\ Len(f.lines) \in Nat
         /\ s.pos < Len(f.lines) =>
              GetLine(f, s).line = s.pos + 1 /\ GetLine(f, s).pos = s.pos + 1
         /\ s.pos = Len(f.lines) => GetLine(f, s).line = 0 /\ ~ GetLine(f, s).good
BY DEF GetLine, QifInFile, Stream, File

LEMMA GetLineMoves ==
  ASSUME NEW f \in File, NEW s \in Stream, QifInFile(f, s)
  PROVE  /\ QifInFile(f, GetLine(f, s)) /\ GetLine(f, s) \in Stream /\ Len(f.lines) \in Nat
         /\ ~ s.good => GetLine(f, s) = s
         /\ s.good /\ s.pos < Len(f.lines) =>
              GetLine(f, s).line = s.line + 1 /\ GetLine(f, s).pos = s.pos + 1
         /\ s.good /\ s.pos = Len(f.lines) =>
              GetLine(f, s).line = 0 /\ ~ GetLine(f, s).good
BY DEF GetLine, QifInFile, Stream, File

LEMMA OpenedInFile ==
  ASSUME NEW f \in File
  PROVE  /\ QifInFile(f, GetLine(f, Opened))
         /\ GetLine(f, Opened).line = IF Len(f.lines) = 0 THEN 0 ELSE 1
<1>1. Len(f.lines) \in Nat
  BY DEF File
<1>2. Opened \in Stream /\ Opened.good /\ Opened.pos = 0
  BY DEF Opened, Stream
<1> QED
  BY <1>1, <1>2, GetLineReads

(* A product of a number of headers and the length of their keys.          *)
LEMMA RangeIndex ==
  ASSUME NEW k \in Nat, NEW h \in Nat, NEW j \in 1 .. h, NEW i \in 1 .. k
  PROVE  /\ k * h \in Nat /\ (j - 1) * k + i \in 1 .. k * h
         /\ k * (h + 1) = k * h + k /\ h * k = k * h
OBVIOUS

(* The odd numbers up to one that is odd.                                  *)
LEMMA OddNumbers ==
  ASSUME NEW h \in Nat, NEW m \in Nat, m % 2 = 1, m < 2 * h + 1
  PROVE  \E j \in 1 .. h : m = 2 * j - 1
<1>1. m = 2 * (m \div 2 + 1) - 1 /\ m \div 2 + 1 \in 1 .. h
  OBVIOUS
<1> QED
  BY <1>1

LEMMA TopHeadersAre ==
  ASSUME QifInv, SymbolsOK,
         2 * Len(symbols) + 1 \in Lines => file.lines[2 * Len(symbols) + 1] # "start"
  PROVE  TopHeaders = { 2 * h - 1 : h \in 1 .. Len(symbols) }
<1> DEFINE k == Len(symbols)
<1>0. k \in Nat /\ file \in File /\ Len(file.lines) \in Nat
  BY DEF QifInv, QifTypeOK, File
<1>1. ASSUME NEW n \in TopHeaders
      PROVE  \E h \in 1 .. k : n = 2 * h - 1
  <2>1. n \in Nat /\ n % 2 = 1 /\ n \in Lines /\ n >= 1
    BY <1>0 DEF TopHeaders, Lines
  <2>2. n < 2 * k + 1
    <3> SUFFICES ASSUME n >= 2 * k + 1 PROVE FALSE
      BY <1>0, <2>1
    <3>1. 2 * k + 1 \in 1 .. n /\ (2 * k + 1) % 2 = 1 /\ 2 * k + 1 \in Lines
      BY <1>0, <2>1 DEF Lines
    <3> QED
      BY <3>1 DEF TopHeaders
  <2> QED
    BY <1>0, <2>1, <2>2, OddNumbers
<1>2. ASSUME NEW h \in 1 .. k
      PROVE  2 * h - 1 \in TopHeaders
  <2>1. 2 * h - 1 \in Lines /\ (2 * h - 1) % 2 = 1
    BY <1>0 DEF SymbolsOK
  <2>2. ASSUME NEW m \in 1 .. 2 * h - 1, m % 2 = 1
        PROVE  file.lines[m] = "start"
    <3>1. m \in Nat /\ m < 2 * k + 1
      BY <1>0
    <3>2. PICK j \in 1 .. k : m = 2 * j - 1
      BY <1>0, <2>2, <3>1, OddNumbers
    <3> QED
      BY <3>2 DEF SymbolsOK
  <2> QED
    BY <2>1, <2>2 DEF TopHeaders
<1> QED
  BY <1>1, <1>2

LEMMA ReadingInit == QifInit => ReadingInv
<1> SUFFICES ASSUME QifInit PROVE ReadingInv
  OBVIOUS
<1>1. QifInv
  BY QifInitInv
<1>2. QifInFile(file, qifIn)
  BY <1>1, OpenedInFile DEF QifInit, QifInv, QifTypeOK
<1>3. SymbolsOK /\ ValuesOK
  BY KeyAssumption DEF QifInit, SymbolsOK, ValuesOK
<1>4. AtHeader
  BY <1>1, <1>2, OpenedInFile DEF QifInit, AtHeader, QifInv, QifTypeOK, QifInFile, File
<1> QED
  BY <1>1, <1>2, <1>3, <1>4 DEF ReadingInv, HeadersOK, QifInit

(* One more header, read from a stream that has not failed.                *)
LEMMA HeaderRead ==
  ASSUME ReadingInv, pass = 1, qifAt = "headers", QifHeader, qifIn.good
  PROVE  SymbolsOK' /\ ValuesOK' /\ AtHeader'
<1> DEFINE h == Len(symbols)
           s == GetLine(file, qifIn)
           n == Len(file.lines)
<1>1. /\ file \in File /\ qifIn \in Stream /\ QifInFile(file, qifIn)
      /\ symbols \in Seq(Nat) /\ h \in Nat /\ n \in Nat
      /\ values \in Seq([header : Nat, index : 1 .. KeyBytes])
  BY DEF ReadingInv, QifInv, QifTypeOK, File
<1>2. SymbolsOK /\ ValuesOK /\ qifIn.line = 2 * h + 1
  BY DEF ReadingInv, HeadersOK, Spins, AtHeader
<1>3. /\ qifIn.line \in Lines /\ file.lines[qifIn.line] = "start"
      /\ symbols' = Append(symbols, qifIn.line)
      /\ values' = values \o [i \in 1 .. KeyBytes |-> [header |-> qifIn.line, index |-> i]]
      /\ qifIn' = GetLine(file, s) /\ file' = file
  BY <1>1, <1>2 DEF QifHeader, Kind, QifInFile, Lines, Stream
<1>4. /\ Len(symbols') = h + 1 /\ symbols'[h + 1] = 2 * h + 1
      /\ \A j \in 1 .. h : symbols'[j] = symbols[j]
  BY <1>1, <1>2, <1>3
<1>5. SymbolsOK'
  <2> SUFFICES ASSUME NEW j \in 1 .. h + 1
               PROVE  /\ symbols'[j] = 2 * j - 1 /\ 2 * j - 1 \in Lines
                      /\ file.lines[2 * j - 1] = "start"
    BY <1>3, <1>4 DEF SymbolsOK, Lines
  <2>1. CASE j = h + 1
    BY <1>1, <1>2, <1>3, <1>4, <2>1
  <2>2. CASE j \in 1 .. h
    BY <1>2, <1>4, <2>2 DEF SymbolsOK
  <2> QED
    BY <1>1, <2>1, <2>2
<1>6. AtHeader'
  <2>0. qifIn.pos = 2 * h + 1
    BY <1>1, <1>2 DEF QifInFile
  <2>1. /\ QifInFile(file, s) /\ s \in Stream
        /\ qifIn.pos < n => s.line = 2 * h + 2 /\ s.pos = 2 * h + 2
        /\ qifIn.pos = n => s.line = 0 /\ ~ s.good
    BY <1>1, <1>2, <2>0, GetLineMoves
  <2>2. /\ ~ s.good => qifIn' = s
        /\ s.good /\ s.pos < n => qifIn'.line = s.line + 1
        /\ s.good /\ s.pos = n => qifIn'.line = 0 /\ ~ qifIn'.good
    BY <1>1, <1>3, <2>1, GetLineMoves
  <2> QED
    BY <1>1, <1>2, <1>3, <1>4, <2>1, <2>2 DEF AtHeader, QifInFile, Stream
<1>7. ValuesOK'
  <2> DEFINE new == [i \in 1 .. KeyBytes |-> [header |-> qifIn.line, index |-> i]]
  <2>1. new \in Seq([header : Nat, index : 1 .. KeyBytes]) /\ Len(new) = KeyBytes
    BY <1>1, KeyAssumption DEF Stream
  <2>2. KeyBytes * (h + 1) = KeyBytes * h + KeyBytes /\ KeyBytes * h \in Nat /\ h * KeyBytes = KeyBytes * h
    BY <1>1, KeyAssumption
  <2>3. Len(values) = KeyBytes * h
    BY <1>2 DEF ValuesOK
  <2>4. values' = values \o new
    BY <1>3
  <2> HIDE DEF new
  <2>6. /\ Len(values') = Len(values) + KeyBytes
        /\ \A i \in 1 .. Len(values) : values'[i] = values[i]
        /\ \A i \in 1 .. KeyBytes : values'[Len(values) + i] = new[i]
    <3> DEFINE T == [header : Nat, index : 1 .. KeyBytes]
    <3> HIDE DEF T
    <3>1. values \in Seq(T) /\ new \in Seq(T) /\ Len(new) = KeyBytes /\ Len(values) \in Nat
      BY <1>1, <2>1 DEF T
    <3>2. Len(values') = Len(values) + KeyBytes
      <4>1. Len(values \o new) = Len(values) + Len(new)
        BY <3>1
      <4> QED
        BY <2>4, <3>1, <4>1
    <3>3. \A i \in 1 .. Len(values) + Len(new) :
            values'[i] = IF i <= Len(values) THEN values[i] ELSE new[i - Len(values)]
      BY <2>4, <3>1
    <3>4. ASSUME NEW i \in 1 .. KeyBytes PROVE values'[Len(values) + i] = new[i]
      <4>1. /\ Len(values) + i \in 1 .. Len(values) + Len(new)
            /\ ~ (Len(values) + i <= Len(values)) /\ Len(values) + i - Len(values) = i
        BY <3>1, KeyAssumption
      <4> QED
        BY <3>3, <4>1
    <3> QED
      BY <3>1, <3>2, <3>3, <3>4, KeyAssumption
  <2>7. Len(values') = KeyBytes * (h + 1)
    BY <2>2, <2>3, <2>6
  <2>5. ASSUME NEW j \in 1 .. h + 1, NEW i \in 1 .. KeyBytes
        PROVE  values'[(j - 1) * KeyBytes + i] = [header |-> symbols'[j], index |-> i]
    <3>1. CASE j \in 1 .. h
      <4>1. (j - 1) * KeyBytes + i \in 1 .. Len(values)
        BY <1>1, <2>3, <3>1, KeyAssumption, RangeIndex
      <4>2. values'[(j - 1) * KeyBytes + i] = values[(j - 1) * KeyBytes + i]
        BY <2>6, <4>1
      <4> QED
        BY <1>2, <1>4, <3>1, <4>2 DEF ValuesOK
    <3>2. CASE j = h + 1
      <4>1. (j - 1) * KeyBytes + i = Len(values) + i
        BY <1>1, <2>2, <2>3, <3>2
      <4>2. values'[Len(values) + i] = new[i]
        BY <2>6
      <4> QED
        BY <1>2, <1>4, <3>2, <4>1, <4>2 DEF new
    <3> QED
      BY <1>1, <3>1, <3>2
  <2> QED
    BY <1>4, <2>5, <2>7 DEF ValuesOK
<1> QED
  BY <1>5, <1>6, <1>7

(* Steps in the body read on, but leave symbols, values and the file.      *)
LEMMA BodyStep ==
  ASSUME ReadingInv, QifInv', QifInFile(file, qifIn)', UNCHANGED <<file, symbols, values, pass>>,
         qifAt \in {"body", "done"}, qifAt' # "headers"
  PROVE  ReadingInv'
BY DEF ReadingInv, HeadersOK, SymbolsOK, ValuesOK, TopHeaders, Lines

LEMMA ReadingNext == ReadingInv /\ [QifNext]_qifVars => ReadingInv'
<1> SUFFICES ASSUME ReadingInv, [QifNext]_qifVars PROVE ReadingInv'
  OBVIOUS
<1>0. /\ QifInv' /\ file \in File /\ qifIn \in Stream
      /\ QifInFile(file, GetLine(file, qifIn)) /\ GetLine(file, qifIn) \in Stream
      /\ QifInFile(file, GetLine(file, GetLine(file, qifIn)))
      /\ QifInFile(file, qifIn) /\ QifInFile(file, GetLine(file, Opened))
  BY QifNextInv, GetLineMoves, OpenedInFile DEF ReadingInv, QifInv, QifTypeOK
<1>1. CASE QifHeader
  <2>1. QifInFile(file, qifIn)'
    BY <1>0, <1>1 DEF QifHeader
  <2>2. CASE qifIn.good
    BY <1>0, <1>1, <2>1, <2>2, HeaderRead DEF QifHeader, ReadingInv, HeadersOK
  <2>3. CASE ~ qifIn.good
    <3>1. qifIn' = qifIn
      BY <1>0, <1>1, <2>3, GetLineMoves DEF QifHeader
    <3>2. Spins'
      BY <1>0, <1>1, <2>3, <3>1 DEF QifHeader, Spins, Kind, QifInFile, Lines, Stream
    <3> QED
      BY <1>0, <1>1, <2>1, <3>2 DEF QifHeader, ReadingInv, HeadersOK
  <2> QED
    BY <2>2, <2>3
<1>2. CASE HeadersEnd
  <2>1. QifInFile(file, qifIn)'
    BY <1>0, <1>2 DEF HeadersEnd
  <2>2. CASE pass = 1
    <3>1. ~ Spins
      BY <1>0, <1>2 DEF HeadersEnd, Spins, Kind, Lines, File
    <3>2. SymbolsOK /\ ValuesOK /\ AtHeader
      BY <1>2, <2>2, <3>1 DEF HeadersEnd, ReadingInv, HeadersOK
    <3>3. 2 * Len(symbols) + 1 \in Lines => file.lines[2 * Len(symbols) + 1] # "start"
      BY <1>0, <1>2, <3>2 DEF HeadersEnd, AtHeader, Kind, Lines, ReadingInv, QifInv, QifTypeOK, File
    <3>4. TopHeaders = { 2 * h - 1 : h \in 1 .. Len(symbols) }
      BY <3>2, <3>3, TopHeadersAre DEF ReadingInv
    <3> QED
      BY <1>0, <1>2, <2>1, <3>2, <3>4
      DEF HeadersEnd, ReadingInv, HeadersOK, SymbolsOK, ValuesOK, TopHeaders, Lines
  <2>3. CASE pass # 1
    BY <1>0, <1>2, <2>1, <2>3 DEF HeadersEnd, ReadingInv, HeadersOK
  <2> QED
    BY <2>2, <2>3
<1>3. CASE BodyEnds
  BY <1>0, <1>3, BodyStep DEF BodyEnds
<1>4. ASSUME NEW s, s \in Stream, QifInFile(file, s), QifInFile(file, GetLine(file, s)), InBody, AfterPush(s),
             UNCHANGED <<file, symbols, values, pass>>
      PROVE  ReadingInv'
  BY <1>0, <1>4, BodyStep DEF AfterPush, InBody
<1>5. CASE QifInstruction
  BY <1>0, <1>4, <1>5 DEF QifInstruction
<1>6. CASE LibcCall
  BY <1>0, <1>4, <1>6 DEF LibcCall
<1>7. CASE Malloc
  BY <1>0, <1>7, BodyStep DEF Malloc, InBody
<1>8. CASE ReadAgain
  <2>1. pass' # 1
    BY <1>8, LimitsAssumption DEF ReadAgain, ReadingInv, QifInv, QifTypeOK
  <2> QED
    BY <1>0, <1>8, <2>1 DEF ReadAgain, ReadingInv, HeadersOK
<1>9. CASE KeyUnreadable
  BY <1>0, <1>9 DEF KeyUnreadable, ReadingInv, HeadersOK
<1>10. CASE UNCHANGED qifVars
  BY <1>0, <1>10
  DEF qifVars, ReadingInv, HeadersOK, SymbolsOK, ValuesOK, TopHeaders, Lines, AtHeader, Spins
<1> QED
  BY <1>1, <1>2, <1>3, <1>5, <1>6, <1>7, <1>8, <1>9, <1>10 DEF QifNext, QifStep, QifTerminated

LEMMA ReadingInvariance == QifSpec => []ReadingInv
BY ReadingInit, ReadingNext, PTL DEF QifSpec

(* Every header is read, none twice, and every value of a key stands where *)
(* init will look for it: whatever the file holds below its headers.       *)
THEOREM KeysAreInOrder == QifSpec => []KeysInOrder
<1>1. ReadingInv => KeysInOrder
  <2> SUFFICES ASSUME ReadingInv, qifAt \in {"body", "done"}, pass = 1
               PROVE  /\ Elements(symbols) = TopHeaders /\ Ordered(symbols)
                      /\ ValuesOK
    BY DEF KeysInOrder, ValuesOK
  <2>1. SymbolsOK /\ ValuesOK /\ TopHeaders = { 2 * h - 1 : h \in 1 .. Len(symbols) }
    BY DEF ReadingInv, HeadersOK
  <2>2. Elements(symbols) = TopHeaders
    BY <2>1 DEF Elements, SymbolsOK
  <2>3. Ordered(symbols)
    BY <2>1 DEF Ordered, SymbolsOK, ReadingInv, QifInv, QifTypeOK
  <2> QED
    BY <2>1, <2>2, <2>3
<1> QED
  BY <1>1, ReadingInvariance, PTL

-----------------------------------------------------------------------------
(* The lines of the headers are those that TopHeaders and KeyLines name.   *)
LEMMA HeaderLinesAre ==
  ASSUME ReadingInv, NEW n \in Lines
  PROVE  n \in HeaderPart(file) <=> n \in TopHeaders \cup KeyLines
<1>0. Len(file.lines) \in Nat /\ n \in Nat /\ n >= 1 /\ Lines = 1 .. Len(file.lines)
  BY DEF ReadingInv, QifInv, QifTypeOK, File, Lines
<1>1. CASE n % 2 = 1
  <2>1. n \notin KeyLines
    <3>1. ASSUME NEW m \in TopHeaders PROVE n # m + 1
      BY <1>0, <1>1 DEF TopHeaders, Lines
    <3> QED
      BY <3>1 DEF KeyLines
  <2> QED
    BY <1>0, <1>1, <2>1 DEF HeaderPart, TopHeaders
<1>2. CASE n % 2 # 1
  <2>1. n \notin TopHeaders /\ n - 1 \in Lines /\ (n - 1) % 2 = 1
    BY <1>0, <1>2 DEF TopHeaders
  <2>2. n \in KeyLines <=> n - 1 \in TopHeaders
    <3>1. ASSUME NEW m \in TopHeaders, n = m + 1 PROVE m = n - 1
      BY <1>0, <3>1 DEF TopHeaders, Lines
    <3>2. n = (n - 1) + 1
      BY <1>0
    <3> QED
      BY <3>1, <3>2 DEF KeyLines
  <2>3. n \in HeaderPart(file) <=> n - 1 \in TopHeaders
    <3>1. \A m \in 1 .. n : m % 2 = 1 => m \in 1 .. n - 1
      BY <1>0, <1>2
    <3> QED
      BY <1>0, <2>1, <3>1 DEF HeaderPart, TopHeaders
  <2> QED
    BY <2>1, <2>2, <2>3
<1> QED
  BY <1>1, <1>2

(* What the lines below the headers hold.                                  *)
LEMMA BelowHeaders ==
  ASSUME ReadingInv, WellFormed(file), NEW n \in Lines, n \notin TopHeaders \cup KeyLines
  PROVE  /\ file.lines[n] \in {"inst", "libc", "malloc", "ret", "empty", "end"}
         /\ file.lines[n] = "ret" =>
              n - 1 \in Lines /\ n - 1 \notin TopHeaders \cup KeyLines /\ file.lines[n - 1] = "libc"
         /\ file.lines[n] = "libc" /\ n + 1 \in Lines => file.lines[n + 1] = "ret"
<1>0. /\ file \in File /\ Len(file.lines) \in Nat /\ Lines = 1 .. Len(file.lines)
      /\ file.lines[n] \in LineKinds
  BY DEF ReadingInv, QifInv, QifTypeOK, File, Lines
<1>1. n \in (1 .. Len(file.lines)) \ HeaderPart(file)
  BY <1>0, HeaderLinesAre
<1>2. /\ file.lines[n] \notin {"start", "key"}
      /\ file.lines[n] = "ret" =>
           n > 1 /\ n - 1 \notin HeaderPart(file) /\ file.lines[n - 1] = "libc"
      /\ (file.lines[n] = "libc" /\ n < Len(file.lines)) => file.lines[n + 1] = "ret"
  BY <1>1 DEF WellFormed
<1>3. file.lines[n] = "ret" => n - 1 \in Lines /\ n - 1 \notin TopHeaders \cup KeyLines
  BY <1>0, <1>2, HeaderLinesAre
<1> QED
  BY <1>0, <1>2, <1>3 DEF LineKinds

(* The body begins below the headers.                                      *)
LEMMA BodyBegins ==
  ASSUME ReadingInv, WellFormed(file), pass = 1, qifAt = "headers", HeadersEnd, qifList = <<>>
  PROVE  /\ Ordered(qifList) /\ Elements(qifList) = BodyLines(Here)
         /\ \A n \in Stops : Here <= n
         /\ qifIn.good =>
              /\ \A n \in TopHeaders \cup KeyLines : n < Here
              /\ Here \in Lines => file.lines[Here] # "ret"
<1> DEFINE k == Len(symbols)
<1>0. /\ file \in File /\ Len(file.lines) \in Nat /\ Lines = 1 .. Len(file.lines)
      /\ k \in Nat /\ qifIn \in Stream /\ QifInFile(file, qifIn)
  BY DEF ReadingInv, QifInv, QifTypeOK, File, Lines
<1>1. ~ Spins
  BY <1>0 DEF HeadersEnd, Spins, Kind
<1>2. SymbolsOK /\ AtHeader
  BY <1>1 DEF ReadingInv, HeadersOK
<1>3. TopHeaders = { 2 * h - 1 : h \in 1 .. k }
  <2>1. 2 * k + 1 \in Lines => file.lines[2 * k + 1] # "start"
    BY <1>0, <1>2 DEF HeadersEnd, AtHeader, Kind
  <2> QED
    BY <1>2, <2>1, TopHeadersAre DEF ReadingInv
<1>4. ASSUME NEW n \in TopHeaders \cup KeyLines PROVE n \in Nat /\ n <= 2 * k
  BY <1>0, <1>3 DEF KeyLines
<1>5. Here \in Nat /\ Here <= 2 * k + 1 /\ (qifIn.good => Here = 2 * k + 1)
  BY <1>0, <1>2 DEF Here, AtHeader, QifInFile, Stream
<1>6. ASSUME NEW n \in Lines, n < Here PROVE n \in TopHeaders \cup KeyLines
  <2>1. CASE n % 2 = 1
    <3>0. n \in Nat /\ n < 2 * k + 1
      BY <1>0, <1>5, <1>6
    <3>1. \E j \in 1 .. k : n = 2 * j - 1
      BY <1>0, <2>1, <3>0, OddNumbers
    <3> QED
      BY <1>3, <3>1
  <2>2. CASE n % 2 # 1
    <3>1. n - 1 \in Nat /\ (n - 1) % 2 = 1 /\ n - 1 < 2 * k + 1
      BY <1>0, <1>5, <1>6, <2>2
    <3>2. n - 1 \in TopHeaders
      BY <1>0, <1>3, <3>1, OddNumbers
    <3> QED
      BY <1>0, <3>2 DEF KeyLines
  <2> QED
    BY <2>1, <2>2
<1>7. \A n \in TopHeaders : file.lines[n] = "start"
  BY <1>2, <1>3 DEF SymbolsOK
<1>8. Ordered(qifList) /\ Elements(qifList) = BodyLines(Here)
  <2>1. BodyLines(Here) = {}
    BY <1>6, <1>7 DEF BodyLines
  <2> QED
    BY <2>1 DEF Ordered, Elements
<1>9. \A n \in Stops : Here <= n
  <2>1. \A n \in Stops : n \in Lines /\ n \notin TopHeaders \cup KeyLines
    BY <1>7 DEF Stops
  <2> QED
    BY <1>0, <1>5, <1>6, <2>1
<1>10. ASSUME qifIn.good
       PROVE  /\ \A n \in TopHeaders \cup KeyLines : n < Here
              /\ Here \in Lines => file.lines[Here] # "ret"
  <2>1. \A n \in TopHeaders \cup KeyLines : n < Here
    BY <1>0, <1>4, <1>5, <1>10
  <2>2. ASSUME Here \in Lines, file.lines[Here] = "ret" PROVE FALSE
    <3>1. Here \notin TopHeaders \cup KeyLines
      BY <1>5, <2>1
    <3>2. Here - 1 \in Lines /\ Here - 1 \notin TopHeaders \cup KeyLines
      BY <2>2, <3>1, BelowHeaders
    <3> QED
      BY <1>0, <1>5, <1>6, <3>2
  <2> QED
    BY <2>1, <2>2
<1> QED
  BY <1>8, <1>9, <1>10

(* The line at hand is pushed, and reading goes on at line k: whatever     *)
(* lies between is the second line of a call.                              *)
LEMMA PushBody ==
  ASSUME ReadingInv, WellFormed(file), BodyOK, pass = 1, Limit = NoLimit, InBody,
         qifIn.line \in Lines, file.lines[qifIn.line] \in {"inst", "libc"},
         qifList' = Append(qifList, qifIn.line), qifAt' = "body",
         UNCHANGED <<limits, file, pass>>, NEW k \in Nat, Here' = k,
         k > qifIn.line,
         \A n \in Lines : qifIn.line < n /\ n < k => file.lines[n] = "ret",
         qifIn'.good /\ k \in Lines => file.lines[k] # "ret"
  PROVE  BodyOK'
<1> DEFINE l == qifIn.line
<1>0. /\ Len(file.lines) \in Nat /\ Lines = 1 .. Len(file.lines)
      /\ l \in Nat /\ qifList \in Seq(Nat) /\ Len(qifList) \in Nat
      /\ Lines' = Lines /\ KeyLines' = KeyLines /\ TopHeaders' = TopHeaders /\ Stops' = Stops
  BY DEF ReadingInv, QifInv, QifTypeOK, File, Lines, KeyLines, TopHeaders, Stops
<1>1. /\ Here = l
      /\ Ordered(qifList) /\ Elements(qifList) = BodyLines(l)
      /\ \A n \in Stops : l <= n
      /\ \A n \in TopHeaders \cup KeyLines : n < l
  BY <1>0 DEF BodyOK, InBody, Here
<1>2. /\ Len(qifList') = Len(qifList) + 1 /\ qifList'[Len(qifList) + 1] = l
      /\ \A i \in 1 .. Len(qifList) : qifList'[i] = qifList[i]
  BY <1>0
<1>3. \A i \in 1 .. Len(qifList) : qifList[i] < l
  BY <1>1 DEF Elements, BodyLines
<1>4. Ordered(qifList')
  BY <1>0, <1>1, <1>2, <1>3 DEF Ordered
<1>5. Elements(qifList') = Elements(qifList) \cup {l}
  BY <1>0, <1>2 DEF Elements
<1>6. BodyLines(k)' = BodyLines(l) \cup {l}
  <2>1. l \notin KeyLines
    BY <1>0, <1>1
  <2>2. ASSUME NEW n \in Lines
        PROVE  (n \notin KeyLines /\ file.lines[n] \in {"inst", "libc"} /\ n < k) <=>
               (n = l \/ (n \notin KeyLines /\ file.lines[n] \in {"inst", "libc"} /\ n < l))
    <3>1. n \in Nat /\ l \in Nat /\ k \in Nat /\ l < k
      BY <1>0
    <3>2. CASE n < l \/ n = l
      BY <2>1, <3>1, <3>2
    <3>3. CASE l < n
      BY <3>1, <3>3
    <3> QED
      BY <3>1, <3>2, <3>3
  <2> QED
    BY <1>0, <2>2 DEF BodyLines
<1>7. \A n \in Stops : k <= n
  <2> SUFFICES ASSUME NEW n \in Stops, n < k PROVE FALSE
    BY <1>0 DEF Stops
  <2> QED
    BY <1>0, <1>1 DEF Stops
<1>8. \A n \in TopHeaders \cup KeyLines : n < k
  <2>1. TopHeaders \cup KeyLines \subseteq Nat
    BY <1>0 DEF TopHeaders, KeyLines
  <2> QED
    BY <1>0, <1>1, <2>1
<1> QED
  BY <1>0, <1>1, <1>4, <1>5, <1>6, <1>7, <1>8 DEF BodyOK

(* Where the stream is after the line at hand.                             *)
LEMMA AfterLine ==
  ASSUME NEW f \in File, NEW s \in Stream, QifInFile(f, s), s.good
  PROVE  LET t == GetLine(f, s)
         IN  /\ s.line \in 1 .. Len(f.lines)
             /\ t.line \in {0, s.line + 1}
             /\ t.line = 0 => s.line = Len(f.lines) /\ ~ t.good
             /\ t.line # 0 => s.line + 1 \in 1 .. Len(f.lines)
BY DEF GetLine, QifInFile, Stream, File

LEMMA BodyNext == ReadingInv /\ WellFormed(file) /\ BodyOK /\ [QifNext]_qifVars => BodyOK'
<1> SUFFICES ASSUME ReadingInv, WellFormed(file), BodyOK, [QifNext]_qifVars PROVE BodyOK'
  OBVIOUS
<1>0. /\ file \in File /\ qifIn \in Stream /\ QifInFile(file, qifIn)
      /\ Len(file.lines) \in Nat /\ Lines = 1 .. Len(file.lines)
      /\ GetLine(file, qifIn) \in Stream /\ QifInFile(file, GetLine(file, qifIn))
  BY GetLineMoves DEF ReadingInv, QifInv, QifTypeOK, File, Lines
<1>1. ASSUME UNCHANGED <<limits, file, pass>>
      PROVE  /\ Limit' = Limit /\ Lines' = Lines /\ KeyLines' = KeyLines
             /\ TopHeaders' = TopHeaders /\ Stops' = Stops
             /\ Instructions' = Instructions /\ Unterminated' = Unterminated
  BY <1>1 DEF Limit, Lines, KeyLines, TopHeaders, Stops, Instructions, Unterminated
<1>2. CASE QifHeader
  BY <1>1, <1>2 DEF QifHeader, BodyOK
<1>3. CASE KeyUnreadable
  BY <1>3 DEF KeyUnreadable, BodyOK
<1>4. CASE HeadersEnd
  <2>1. UNCHANGED <<limits, file, pass, qifIn, qifList>> /\ qifAt = "headers" /\ qifAt' = "body"
    BY <1>4 DEF HeadersEnd
  <2> SUFFICES ASSUME pass = 1, Limit = NoLimit
               PROVE  /\ Ordered(qifList) /\ Elements(qifList) = BodyLines(Here)
                      /\ \A n \in Stops : Here <= n
                      /\ qifIn.good =>
                           /\ \A n \in TopHeaders \cup KeyLines : n < Here
                           /\ Here \in Lines => file.lines[Here] # "ret"
    BY <1>1, <2>1 DEF BodyOK, BodyLines, Here
  <2>2. qifList = <<>>
    BY <2>1 DEF BodyOK
  <2> QED
    BY <1>4, <2>1, <2>2, BodyBegins
<1>5. CASE BodyEnds
  <2>1. UNCHANGED <<limits, file, pass, qifList>> /\ qifAt = "body" /\ qifAt' = "done"
    BY <1>5 DEF BodyEnds
  <2> SUFFICES ASSUME pass = 1, Limit = NoLimit
               PROVE  Ordered(qifList) /\ Elements(qifList) = Instructions \ Unterminated
    BY <1>1, <2>1 DEF BodyOK
  <2>2. /\ Ordered(qifList) /\ Elements(qifList) = BodyLines(Here)
        /\ \A n \in Stops : Here <= n
        /\ qifIn.good => \A n \in TopHeaders \cup KeyLines : n < Here
    BY <2>1 DEF BodyOK
  <2>3. Here \in Nat
    BY <1>0 DEF Here, Stream
  <2>4. CASE ~ qifIn.good
    <3>1. Here = IF file.newline THEN Len(file.lines) + 1
                 ELSE IF Len(file.lines) = 0 THEN 1 ELSE Len(file.lines)
      BY <1>0, <2>4 DEF Here, QifInFile, Stream
    <3>2. ASSUME NEW n \in Lines \ KeyLines, file.lines[n] \in {"inst", "libc"}
          PROVE  n < Here <=> (\A m \in Stops : n < m) /\ n \notin Unterminated
      BY <1>0, <2>2, <2>3, <3>1, <3>2 DEF Unterminated, Stops
    <3> QED
      BY <2>2, <3>2 DEF BodyLines, Instructions
  <2>5. CASE qifIn.good
    <3>1. qifIn.line \in Lines /\ Here = qifIn.line /\ file.lines[Here] \in {"empty", "end"}
      BY <1>0, <1>5, <2>5, AfterLine DEF BodyEnds, Here, Kind
    <3>2. Here \in Stops
      BY <2>2, <2>3, <2>5, <3>1 DEF Stops
    <3>3. ASSUME NEW n \in Lines \ KeyLines, file.lines[n] \in {"inst", "libc"}
          PROVE  n < Here <=> (\A m \in Stops : n < m) /\ n \notin Unterminated
      <4>1. n < Here => \A m \in Stops : n < m
        BY <1>0, <2>2, <2>3 DEF Stops
      <4>2. n < Here => n \notin Unterminated
        BY <1>0, <3>1 DEF Unterminated
      <4> QED
        BY <3>2, <4>1, <4>2
    <3> QED
      BY <2>2, <3>3 DEF BodyLines, Instructions
  <2> QED
    BY <2>4, <2>5
<1>6. CASE QifInstruction
  <2>1. /\ InBody /\ qifList' = Append(qifList, qifIn.line) /\ AfterPush(qifIn)
        /\ UNCHANGED <<limits, file, pass>>
    BY <1>6 DEF QifInstruction
  <2> SUFFICES ASSUME pass = 1, Limit = NoLimit PROVE BodyOK'
    BY <1>1, <2>1 DEF BodyOK
  <2>2. qifAt' = "body" /\ qifIn' = GetLine(file, qifIn)
    BY <2>1 DEF AfterPush, InBody
  <2> DEFINE l == qifIn.line
  <2>3. l \in Lines /\ Here = l /\ l \notin TopHeaders \cup KeyLines /\ file.lines[l] # "ret"
    <3>1. l \in Lines /\ Here = l
      BY <1>0, <2>1, AfterLine DEF InBody, Here
    <3> QED
      BY <1>0, <2>1, <3>1 DEF InBody, BodyOK
  <2>4. file.lines[l] = "inst"
    BY <1>0, <1>6, <2>3, BelowHeaders DEF QifInstruction, Kind
  <2>5. Here' = l + 1
    BY <1>0, <2>1, <2>2, AfterLine DEF Here, InBody
  <2>6. l + 1 \in Lines => file.lines[l + 1] # "ret"
    <3> SUFFICES ASSUME l + 1 \in Lines, file.lines[l + 1] = "ret" PROVE FALSE
      OBVIOUS
    <3>1. \A n \in TopHeaders \cup KeyLines : n < l
      BY <2>1, <2>3 DEF BodyOK, InBody
    <3>2. l + 1 \notin TopHeaders \cup KeyLines
      BY <1>0, <2>3, <3>1
    <3>3. file.lines[(l + 1) - 1] = "libc" /\ (l + 1) - 1 = l
      BY <1>0, <2>3, <3>2, BelowHeaders
    <3> QED
      BY <2>4, <3>3
  <2> QED
    BY <1>0, <2>1, <2>2, <2>3, <2>4, <2>5, <2>6, PushBody
<1>7. CASE LibcCall
  <2> DEFINE l == qifIn.line
             s == GetLine(file, qifIn)
  <2>1. /\ InBody /\ qifList' = Append(qifList, l) /\ AfterPush(s)
        /\ UNCHANGED <<limits, file, pass>>
    BY <1>7 DEF LibcCall
  <2> SUFFICES ASSUME pass = 1, Limit = NoLimit PROVE BodyOK'
    BY <1>1, <2>1 DEF BodyOK
  <2>2. qifAt' = "body" /\ qifIn' = GetLine(file, s)
    BY <2>1 DEF AfterPush, InBody
  <2>3. l \in Lines /\ Here = l /\ file.lines[l] = "libc" /\ l \in Nat
        /\ \A n \in TopHeaders \cup KeyLines : n < l
    <3>1. l \in Lines /\ Here = l
      BY <1>0, <2>1, AfterLine DEF InBody, Here
    <3> QED
      BY <1>0, <1>7, <2>1, <3>1 DEF InBody, BodyOK, LibcCall, Kind
  <2>4. l + 1 \in Lines => file.lines[l + 1] = "ret"
    BY <1>0, <2>3, BelowHeaders
  <2>5. CASE s.good
    <3>1. s.line = l + 1 /\ l + 1 \in Lines
      BY <1>0, <2>1, <2>5, AfterLine DEF InBody
    <3>2. Here' = l + 2
      BY <1>0, <2>1, <2>2, <2>3, <2>5, <3>1, AfterLine, SMTT(20) DEF Here
    <3>3. l + 2 \in Lines => file.lines[l + 2] # "ret"
      <4> SUFFICES ASSUME l + 2 \in Lines, file.lines[l + 2] = "ret" PROVE FALSE
        OBVIOUS
      <4>1. l + 2 \notin TopHeaders \cup KeyLines
        BY <1>0, <2>3
      <4>2. file.lines[(l + 2) - 1] = "libc" /\ (l + 2) - 1 = l + 1
        BY <2>3, <4>1, BelowHeaders
      <4> QED
        BY <2>4, <3>1, <4>2
    <3>4. \A n \in Lines : l < n /\ n < l + 2 => n = l + 1
      BY <1>0, <2>3
    <3> QED
      BY <2>1, <2>2, <2>3, <2>4, <3>2, <3>3, <3>4, PushBody
  <2>6. CASE ~ s.good
    <3>1. qifIn' = s
      BY <1>0, <2>2, <2>6, GetLineMoves
    <3>2. Here' = l + 1
      BY <1>0, <2>1, <2>3, <3>1, AfterLine DEF Here, InBody
    <3> QED
      BY <1>0, <2>1, <2>2, <2>3, <2>6, <3>1, <3>2, PushBody
  <2> QED
    BY <2>5, <2>6
<1>8. CASE Malloc
  BY <1>8 DEF Malloc, BodyOK
<1>9. CASE ReadAgain
  <2>1. pass' # 1
    BY <1>9, LimitsAssumption DEF ReadAgain, ReadingInv, QifInv, QifTypeOK
  <2> QED
    BY <2>1 DEF BodyOK
<1>10. CASE UNCHANGED qifVars
  BY <1>1, <1>10 DEF qifVars, BodyOK, BodyLines, Here
<1> QED
  BY <1>2, <1>3, <1>4, <1>5, <1>6, <1>7, <1>8, <1>9, <1>10 DEF QifNext, QifStep, QifTerminated

(* Of a trace as the tracers write it QIF's only reading gets every        *)
(* instruction and libc call once and in order, but for a last line that   *)
(* is not terminated: however many headers, calls and lines it has.        *)
THEOREM InstructionsRead ==
  ASSUME \A f \in Files : WellFormed(f)
  PROVE  QifSpec => []AllInstructionsOnce
<1>1. QifInit => BodyOK /\ WellFormed(file)
  BY DEF QifInit, BodyOK
<1>2. [QifNext]_qifVars => file' = file
  BY DEF QifNext, QifStep, QifTerminated, qifVars, QifHeader, KeyUnreadable, HeadersEnd,
         BodyEnds, QifInstruction, LibcCall, Malloc, ReadAgain
<1>3. ReadingInv /\ (BodyOK /\ WellFormed(file)) /\ [QifNext]_qifVars =>
        (BodyOK /\ WellFormed(file))'
  BY <1>2, BodyNext
<1>4. BodyOK => AllInstructionsOnce
  BY DEF BodyOK, AllInstructionsOnce
<1> QED
  BY <1>1, <1>3, <1>4, ReadingInvariance, PTL DEF QifSpec

-----------------------------------------------------------------------------
(* Tracers: the tools for one call of a routine.  Before its first call    *)
(* there is nothing; during it, the tool records unless a call within has  *)
(* returned; after it, it records only if the call was left unnoticed.     *)
OneCall == {"qif", "ngram", "ref"}

LineOK  == [kind : {"start", "end", "inst", "key"}, inst : Nat]

Insts(w, h) == [n \in 1 .. Len(w) - h |-> w[n + h].inst]

TracerTypeOK ==
  /\ stack \in Seq(Routine)
  /\ executed \in Nat
  /\ start_ins \in BOOLEAN /\ first_time \in BOOLEAN
  /\ output_count \in Nat
  /\ written \in Seq(LineOK)
  /\ calls \in 0 .. 2
  /\ level \in Int
  /\ extent \in Seq(Nat)
  /\ cut \in BOOLEAN /\ missed \in BOOLEAN

BeforeCall ==
  calls = 0 =>
    /\ level = 0
    /\ ~ start_ins /\ first_time /\ output_count = 0
    /\ written = <<>> /\ extent = <<>>
    /\ ~ cut /\ ~ missed
    /\ \A n \in 1 .. Len(stack) : ~ Noticed(stack[n])

SinceCall ==
  calls > 0 =>
    /\ level # 0
    /\ tool = "qif" => ~ first_time /\ written # <<>>
    /\ tool = "ngram" => ~ first_time
    /\ tool = "ref" => start_ins \/ output_count > 0

InCall ==
  level > 0 =>
    /\ level <= Len(stack)
    /\ ~ missed
    /\ start_ins <=> ~ cut

AfterCall == (level < 0 /\ ~ missed) => ~ start_ins

TracerInv ==
  tool \in OneCall =>
    /\ TracerTypeOK
    /\ BeforeCall /\ SinceCall /\ InCall /\ AfterCall
    /\ FirstCallTraced

(* A sequence begins itself, and what it begins may go on.                 *)
LEMMA BeginsSelf ==
  ASSUME NEW T, NEW s \in Seq(T)
  PROVE  Begins(s, s)
<1>1. Len(s) \in 0 .. Len(s) /\ s = SubSeq(s, 1, Len(s))
  OBVIOUS
<1>2. QED
  BY <1>1 DEF Begins

LEMMA BeginsOn ==
  ASSUME NEW T, NEW s \in Seq(T), NEW t \in Seq(T), NEW e \in T, Begins(s, t)
  PROVE  Begins(s, Append(t, e))
<1>1. PICK n \in 0 .. Len(t) : s = SubSeq(t, 1, n)
  BY DEF Begins
<1>2. Len(Append(t, e)) = Len(t) + 1 /\ Append(t, e) \in Seq(T)
  OBVIOUS
<1>3. SubSeq(Append(t, e), 1, n) = SubSeq(t, 1, n)
  OBVIOUS
<1>4. n \in 0 .. Len(Append(t, e))
  BY <1>2
<1>5. QED
  BY <1>1, <1>3, <1>4 DEF Begins

(* What a tool has recorded is a sequence, behind at most one header.      *)
LEMMA HeaderIs ==
  ASSUME written \in Seq(LineOK)
  PROVE  HeaderLines \in {0, 1} /\ Len(written) - HeaderLines \in Nat
<1>1. Len(written) \in Nat /\ (written # <<>> => Len(written) >= 1)
  OBVIOUS
<1>2. CASE tool = "qif" /\ written # <<>>
  <2>1. HeaderLines = 1
    BY <1>2 DEF HeaderLines
  <2>2. QED
    BY <1>1, <1>2, <2>1
<1>3. CASE ~ (tool = "qif" /\ written # <<>>)
  <2>1. HeaderLines = 0
    BY <1>3 DEF HeaderLines
  <2>2. QED
    BY <1>1, <2>1
<1>4. QED
  BY <1>2, <1>3

LEMMA ValuesAreSeq ==
  ASSUME NEW m \in Nat, NEW T, NEW r \in [1 .. m -> T]
  PROVE  r \in Seq(T) /\ Len(r) = m
OBVIOUS

LEMMA RecordedIs ==
  ASSUME NEW w \in Seq(LineOK), NEW h \in {0, 1}, Len(w) - h \in Nat
  PROVE  /\ Insts(w, h) \in Seq(Nat)
         /\ Len(Insts(w, h)) = Len(w) - h
         /\ \A n \in 1 .. Len(w) - h :
              n + h \in 1 .. Len(w) /\ Insts(w, h)[n] = w[n + h].inst
<1> DEFINE m == Len(w) - h
<1>1. m \in Nat /\ Len(w) \in Nat
  OBVIOUS
<1>2. ASSUME NEW n \in 1 .. m
      PROVE  n + h \in 1 .. Len(w) /\ w[n + h].inst \in Nat
  <2>1. n + h \in 1 .. Len(w)
    BY <1>1
  <2>2. w[n + h] \in LineOK
    BY <2>1
  <2>3. QED
    BY <2>1, <2>2 DEF LineOK
<1>3. Insts(w, h) = [n \in 1 .. m |-> w[n + h].inst]
  BY DEF Insts
<1> HIDE DEF m
<1>4. Insts(w, h) \in [1 .. m -> Nat]
  BY <1>2, <1>3
<1>5. Insts(w, h) \in Seq(Nat) /\ Len(Insts(w, h)) = m
  BY <1>1, <1>4, ValuesAreSeq
<1>6. \A n \in 1 .. m : Insts(w, h)[n] = w[n + h].inst
  BY <1>3
<1>7. QED
  BY <1>2, <1>5, <1>6 DEF m

LEMMA SameSeq ==
  ASSUME NEW T, NEW s \in Seq(T), NEW t \in Seq(T), Len(s) = Len(t),
         \A n \in 1 .. Len(s) : s[n] = t[n]
  PROVE  s = t
<1>1. s = [n \in 1 .. Len(s) |-> s[n]] /\ t = [n \in 1 .. Len(s) |-> t[n]]
  OBVIOUS
<1>2. QED
  BY <1>1, Zenon

(* A line more on the trace is an instruction more of what is recorded.    *)
LEMMA RecordedGrows ==
  ASSUME NEW w \in Seq(LineOK), NEW h \in {0, 1}, Len(w) - h \in Nat, NEW x \in Nat,
         NEW l \in LineOK, l.inst = x
  PROVE  Insts(Append(w, l), h) = Append(Insts(w, h), x)
<1> DEFINE w2 == Append(w, l)
           r  == Insts(w, h)
           r2 == Insts(Append(w, l), h)
<1>1. /\ w2 \in Seq(LineOK) /\ Len(w) \in Nat /\ Len(w2) = Len(w) + 1
      /\ w2[Len(w) + 1] = l
      /\ \A n \in 1 .. Len(w) : w2[n] = w[n]
  OBVIOUS
<1>2. /\ r \in Seq(Nat) /\ Len(r) = Len(w) - h
      /\ \A n \in 1 .. Len(w) - h : n + h \in 1 .. Len(w) /\ r[n] = w[n + h].inst
  BY RecordedIs
<1>3. Len(w2) - h \in Nat /\ Len(w2) - h = Len(r) + 1
  BY <1>1, <1>2
<1>4. /\ r2 \in Seq(Nat) /\ Len(r2) = Len(w2) - h
      /\ \A n \in 1 .. Len(w2) - h : r2[n] = w2[n + h].inst
  BY <1>1, <1>3, RecordedIs
<1> HIDE DEF w2, r, r2
<1>5. /\ Append(r, x) \in Seq(Nat) /\ Len(Append(r, x)) = Len(r) + 1
      /\ Append(r, x)[Len(r) + 1] = x
      /\ \A n \in 1 .. Len(r) : Append(r, x)[n] = r[n]
  BY <1>2
<1>6. ASSUME NEW n \in 1 .. Len(r2)
      PROVE  r2[n] = Append(r, x)[n]
  <2>1. r2[n] = w2[n + h].inst /\ n \in 1 .. Len(r) + 1
    BY <1>3, <1>4
  <2>2. CASE n = Len(r) + 1
    <3>1. n + h = Len(w) + 1
      BY <1>1, <1>2, <2>2
    <3>2. QED
      BY <1>1, <1>5, <2>1, <2>2, <3>1
  <2>3. CASE n # Len(r) + 1
    <3>1. n \in 1 .. Len(r) /\ n \in 1 .. Len(w) - h
      BY <1>2, <2>1, <2>3
    <3>2. n + h \in 1 .. Len(w) /\ r[n] = w[n + h].inst
      BY <1>2, <3>1
    <3>3. QED
      BY <1>1, <1>5, <2>1, <3>1, <3>2
  <2>4. QED
    BY <2>2, <2>3
<1>7. Len(r2) = Len(Append(r, x))
  BY <1>3, <1>4, <1>5
<1>8. r2 = Append(r, x)
  BY <1>4, <1>5, <1>6, <1>7, SameSeq
<1>9. QED
  BY <1>8 DEF r, r2

LEMMA TracerStarts == TracerInit => TracerInv
<1> SUFFICES ASSUME TracerInit, tool \in OneCall
             PROVE  TracerTypeOK /\ BeforeCall /\ SinceCall /\ InCall /\ AfterCall /\ FirstCallTraced
  BY DEF TracerInv
<1>1. /\ ~ start_ins /\ start_ins \in BOOLEAN
      /\ stack = <<>> /\ executed = 0 /\ first_time = TRUE /\ output_count = 0
      /\ written = <<>> /\ calls = 0 /\ level = 0 /\ extent = <<>>
      /\ cut = FALSE /\ missed = FALSE
  <2>1. start_ins = (tool \in {"all", "main"})
    BY DEF TracerInit
  <2>2. (tool \in {"all", "main"}) = FALSE
    BY DEF OneCall
  <2>3. start_ins = FALSE
    BY <2>1, <2>2, Zenon
  <2>4. QED
    BY <2>3 DEF TracerInit
<1>2. TracerTypeOK
  <2>1. stack \in Seq(Routine) /\ written \in Seq(LineOK) /\ extent \in Seq(Nat)
    BY <1>1
  <2>2. executed \in Nat /\ output_count \in Nat /\ calls \in 0 .. 2 /\ level \in Int
    BY <1>1
  <2>3. QED
    BY <1>1, <2>1, <2>2, Zenon DEF TracerTypeOK
<1>3. BeforeCall /\ SinceCall /\ InCall /\ AfterCall
  BY <1>1 DEF BeforeCall, SinceCall, InCall, AfterCall
<1>4. HeaderLines = 0
  BY <1>1 DEF HeaderLines
<1>5. written \in Seq(LineOK) /\ Len(written) = 0
  BY <1>1
<1>6. Recorded \in Seq(Nat) /\ Len(Recorded) = 0
  BY <1>4, <1>5, RecordedIs DEF Recorded, Insts
<1>7. Recorded = extent /\ extent \in Seq(Nat)
  BY <1>1, <1>6
<1>8. Begins(extent, extent)
  BY <1>7, BeginsSelf
<1>9. QED
  BY <1>2, <1>3, <1>5, <1>7, <1>8 DEF FirstCallTraced

(* A noticed call starts the first time, and later ones change nothing.    *)
LEMMA StartEffect ==
  ASSUME TracerInv, tool \in OneCall, NEW f, Noticed(f), AtStart(f)
  PROVE  /\ calls > 0 => UNCHANGED <<start_ins, written, output_count>> /\ first_time' \in BOOLEAN
                         /\ (~ first_time => ~ first_time')
         /\ calls = 0 => /\ start_ins' = TRUE
                         /\ tool # "ref" => first_time' = FALSE
                         /\ first_time' \in BOOLEAN
                         /\ output_count' = output_count
                         /\ written' = IF tool = "qif" THEN <<Line("start", 0)>> ELSE <<>>
<1>1. TracerTypeOK /\ BeforeCall /\ SinceCall
  BY DEF TracerInv
<1>2. start_ins \in BOOLEAN /\ first_time \in BOOLEAN /\ output_count \in Nat /\ calls \in 0 .. 2
  BY <1>1 DEF TracerTypeOK
<1>3. CASE tool = "qif"
  <2>1. QifStart
    BY <1>3 DEF AtStart, NgramStart, CallStart, RecvStart, RefStart, NoStart
  <2>2. CASE calls > 0
    <3>1. ~ first_time
      BY <1>1, <1>3, <2>2 DEF SinceCall
    <3>2. UNCHANGED <<start_ins, first_time, written, output_count>>
      BY <2>1, <3>1 DEF QifStart
    <3>3. calls # 0
      BY <2>2
    <3>4. QED
      BY <1>2, <3>1, <3>2, <3>3, Zenon
  <2>3. CASE calls = 0
    <3>1. ~ start_ins /\ first_time /\ written = <<>>
      BY <1>1, <2>3 DEF BeforeCall
    <3>2. start_ins' = TRUE /\ first_time' = FALSE /\ written' = Append(<<>>, Line("start", 0))
          /\ output_count' = output_count
      BY <2>1, <3>1 DEF QifStart
    <3>3. Append(<<>>, Line("start", 0)) = <<Line("start", 0)>>
      OBVIOUS
    <3>4. ~ (calls > 0) /\ tool # "ref"
      BY <1>3, <2>3
    <3>5. QED
      BY <1>3, <3>2, <3>3, <3>4, Zenon
  <2>4. QED
    BY <1>2, <2>2, <2>3
<1>4. CASE tool = "ngram"
  <2>1. NgramStart
    BY <1>4 DEF AtStart, QifStart, CallStart, RecvStart, RefStart, NoStart
  <2>2. CASE calls > 0
    <3>1. ~ first_time
      BY <1>1, <1>4, <2>2 DEF SinceCall
    <3>2. UNCHANGED <<start_ins, written, output_count>> /\ first_time' = FALSE
      BY <1>2, <2>1, <3>1 DEF NgramStart
    <3>3. calls # 0
      BY <2>2
    <3>4. QED
      BY <1>2, <3>1, <3>2, <3>3, Zenon
  <2>3. CASE calls = 0
    <3>1. ~ start_ins /\ first_time /\ written = <<>>
      BY <1>1, <2>3 DEF BeforeCall
    <3>2. start_ins' = TRUE /\ first_time' = FALSE /\ UNCHANGED <<written, output_count>>
      BY <1>2, <2>1, <3>1 DEF NgramStart
    <3>3. ~ (calls > 0) /\ tool # "ref" /\ tool # "qif"
      BY <1>4, <2>3
    <3>4. QED
      BY <3>1, <3>2, <3>3, Zenon
  <2>4. QED
    BY <1>2, <2>2, <2>3
<1>5. CASE tool = "ref"
  <2>1. RefStart
    BY <1>5 DEF AtStart, QifStart, NgramStart, CallStart, RecvStart, NoStart
  <2>2. start_ins' = (start_ins \/ output_count < 1)
        /\ UNCHANGED <<first_time, output_count, written>>
    BY <2>1 DEF RefStart
  <2>3. CASE calls > 0
    <3>1. start_ins \/ output_count > 0
      BY <1>1, <1>5, <2>3 DEF SinceCall
    <3>2. start_ins' = start_ins
      <4>1. CASE start_ins
        BY <1>2, <2>2, <4>1
      <4>2. CASE ~ start_ins
        <5>1. (output_count < 1) = FALSE
          BY <1>2, <3>1, <4>2
        <5>2. QED
          BY <1>2, <2>2, <4>2, <5>1, Zenon
      <4>3. QED
        BY <4>1, <4>2
    <3>3. QED
      BY <1>2, <2>2, <2>3, <3>2
  <2>4. CASE calls = 0
    <3>1. ~ start_ins /\ first_time /\ written = <<>> /\ output_count = 0
      BY <1>1, <2>4 DEF BeforeCall
    <3>2. (output_count < 1) = TRUE
      BY <3>1
    <3>3. start_ins' = TRUE
      BY <2>2, <3>2, Zenon
    <3>4. ~ (calls > 0) /\ tool # "qif"
      BY <1>5, <2>4
    <3>5. first_time' \in BOOLEAN
      BY <1>2, <2>2
    <3>6. QED
      BY <1>5, <2>2, <3>1, <3>3, <3>4, <3>5, Zenon
  <2>5. QED
    BY <1>2, <2>3, <2>4
<1>6. QED
  BY <1>3, <1>4, <1>5 DEF OneCall

(* What is asked of the trace is about written, extent, cut and missed.    *)
LEMMA TracedStays ==
  ASSUME FirstCallTraced, UNCHANGED <<tool, written, extent>>, cut => cut', missed => missed'
  PROVE  FirstCallTraced'
<1>1. HeaderLines' = HeaderLines
  BY DEF HeaderLines
<1>2. Recorded' = Recorded
  BY <1>1 DEF Recorded
<1>3. CASE tool \in {"qif", "ngram", "ref"}
  <2>1. /\ \A n \in 1 .. Len(written') :
             written'[n].kind = IF n = HeaderLines' THEN "start" ELSE "inst"
        /\ ~ cut /\ ~ missed => Recorded' = extent'
        /\ ~ missed => Begins(Recorded', extent')
        /\ ~ cut => Begins(extent', Recorded')
    BY <1>1, <1>2, <1>3 DEF FirstCallTraced
  <2>2. QED
    BY <2>1 DEF FirstCallTraced
<1>4. CASE tool \notin {"qif", "ngram", "ref"}
  BY <1>4 DEF FirstCallTraced
<1>5. QED
  BY <1>3, <1>4


(* A call, or a jump in place of one, puts a routine on top of the stack.  *)
LEMMA EntryKeeps ==
  ASSUME TracerInv, tool \in OneCall, tool' = tool, NEW f \in Routine, NEW d \in Nat \ {0},
         Counted(f, d), AtStart(f), UNCHANGED <<executed, extent, cut, missed>>,
         stack' \in Seq(Routine), Len(stack') = d, d >= Len(stack),
         \A n \in 1 .. d : stack'[n] = f \/ (n \in 1 .. Len(stack) /\ stack'[n] = stack[n])
  PROVE  TracerInv'
<1>1. TracerTypeOK /\ BeforeCall /\ SinceCall /\ InCall /\ AfterCall /\ FirstCallTraced
  BY DEF TracerInv
<1>2. /\ start_ins \in BOOLEAN /\ first_time \in BOOLEAN /\ output_count \in Nat
      /\ calls \in 0 .. 2 /\ written \in Seq(LineOK) /\ level \in Int
      /\ stack \in Seq(Routine) /\ executed \in Nat /\ extent \in Seq(Nat)
      /\ cut \in BOOLEAN /\ missed \in BOOLEAN
  BY <1>1 DEF TracerTypeOK
<1>a. Len(stack) \in Nat
  BY <1>2
<1>3. CASE ~ Noticed(f)
  <2>1. UNCHANGED <<calls, level, start_ins, first_time, output_count, written>>
    BY <1>3 DEF Counted, AtStart, globals
  <2>2. TracerTypeOK'
    BY <1>2, <2>1, Zenon DEF TracerTypeOK
  <2>3. BeforeCall'
    <3>1. ASSUME calls = 0, NEW n \in 1 .. d
          PROVE  ~ Noticed(stack'[n])
      BY <1>1, <1>3, <3>1 DEF BeforeCall
    <3>2. QED
      BY <1>1, <2>1, <3>1 DEF BeforeCall
  <2>4. SinceCall' /\ AfterCall'
    BY <1>1, <2>1 DEF SinceCall, AfterCall
  <2>5. InCall'
    BY <1>1, <1>2, <1>a, <2>1 DEF InCall
  <2>6. FirstCallTraced'
    BY <1>1, <2>1, TracedStays
  <2>7. QED
    BY <2>2, <2>3, <2>4, <2>5, <2>6 DEF TracerInv
<1>4. CASE Noticed(f) /\ calls > 0
  <2>1. UNCHANGED <<level, start_ins, output_count, written>> /\ calls' \in 1 .. 2
    <3>1. calls' = IF calls < 2 THEN calls + 1 ELSE calls
      BY <1>4 DEF Counted
    <3>2. level' = level
      BY <1>2, <1>4 DEF Counted
    <3>3. calls' \in 1 .. 2
      BY <1>2, <1>4, <3>1
    <3>4. QED
      BY <1>4, <3>2, <3>3, StartEffect
  <2>2. first_time' \in BOOLEAN /\ (~ first_time => ~ first_time')
    BY <1>4, StartEffect
  <2>3. TracerTypeOK'
    <3>1. calls' \in 0 .. 2
      BY <2>1
    <3>2. QED
      BY <1>2, <2>1, <2>2, <3>1, Zenon DEF TracerTypeOK
  <2>4. BeforeCall'
    BY <2>1 DEF BeforeCall
  <2>5. SinceCall' /\ AfterCall'
    BY <1>1, <1>4, <2>1, <2>2 DEF SinceCall, AfterCall
  <2>6. InCall'
    BY <1>1, <1>2, <1>a, <2>1 DEF InCall
  <2>7. FirstCallTraced'
    BY <1>1, <2>1, TracedStays
  <2>8. QED
    BY <2>3, <2>4, <2>5, <2>6, <2>7 DEF TracerInv
<1>5. CASE Noticed(f) /\ calls = 0
  <2>1. calls' = 1 /\ level' = d
    BY <1>5 DEF Counted
  <2>2. /\ start_ins' = TRUE
        /\ tool # "ref" => first_time' = FALSE
        /\ first_time' \in BOOLEAN
        /\ output_count' = output_count
        /\ written' = IF tool = "qif" THEN <<Line("start", 0)>> ELSE <<>>
    BY <1>5, StartEffect
  <2>3. extent = <<>> /\ ~ cut /\ ~ missed
    BY <1>1, <1>5 DEF BeforeCall
  <2>4. /\ written' \in Seq(LineOK) /\ HeaderLines' \in {0, 1}
        /\ Len(written') = HeaderLines'
        /\ \A n \in 1 .. Len(written') : n = HeaderLines' /\ written'[n].kind = "start"
        /\ tool = "qif" => written' # <<>>
    <3>1. CASE tool = "qif"
      <4>1. written' = <<Line("start", 0)>> /\ tool' = "qif"
        BY <2>2, <3>1
      <4>2. Line("start", 0) \in LineOK /\ Line("start", 0).kind = "start"
        BY DEF Line, LineOK
      <4>3. /\ written' \in Seq(LineOK) /\ Len(written') = 1 /\ written' # <<>>
            /\ written'[1] = Line("start", 0)
        BY <4>1, <4>2
      <4>4. HeaderLines' = 1
        BY <4>1, <4>3 DEF HeaderLines
      <4>5. QED
        BY <4>2, <4>3, <4>4
    <3>2. CASE tool # "qif"
      <4>1. written' = <<>> /\ tool' # "qif"
        BY <2>2, <3>2
      <4>2. HeaderLines' = 0
        BY <4>1 DEF HeaderLines
      <4>3. QED
        BY <3>2, <4>1, <4>2
    <3>3. QED
      BY <3>1, <3>2
  <2>5. Recorded' = <<>>
    <3>1. Len(written') - HeaderLines' = 0
      <4>1. CASE HeaderLines' = 0
        BY <2>4, <4>1
      <4>2. CASE HeaderLines' = 1
        BY <2>4, <4>2
      <4>3. QED
        BY <2>4, <4>1, <4>2
    <3>2. Recorded' = Insts(written', HeaderLines')
      BY DEF Recorded, Insts
    <3>3. Recorded' \in Seq(Nat) /\ Len(Recorded') = 0
      BY <2>4, <3>1, <3>2, RecordedIs
    <3>4. QED
      BY <3>3
  <2>6. FirstCallTraced'
    <3>1. extent' = Recorded'
      BY <2>3, <2>5
    <3>2. Begins(extent', extent')
      BY <1>2, BeginsSelf
    <3>3. QED
      BY <2>4, <3>1, <3>2 DEF FirstCallTraced
  <2>7. TracerTypeOK'
    <3>1. calls' \in 0 .. 2 /\ level' \in Int
      BY <2>1
    <3>2. QED
      BY <1>2, <2>2, <2>4, <3>1, Zenon DEF TracerTypeOK
  <2>8. BeforeCall' /\ InCall' /\ AfterCall'
    BY <1>2, <2>1, <2>2, <2>3 DEF BeforeCall, InCall, AfterCall
  <2>9. SinceCall'
    BY <2>1, <2>2, <2>4 DEF SinceCall
  <2>10. QED
    BY <2>6, <2>7, <2>8, <2>9 DEF TracerInv
<1>6. QED
  BY <1>2, <1>3, <1>4, <1>5

LEMMA CallKeeps ==
  ASSUME TracerInv, tool \in OneCall, NEW f \in Routine, Call(f) \/ Jump(f)
  PROVE  TracerInv'
<1>1. stack \in Seq(Routine) /\ Len(stack) \in Nat
  BY DEF TracerInv, TracerTypeOK
<1>2. CASE Call(f)
  <2>1. /\ stack' = Append(stack, f) /\ Counted(f, Len(stack')) /\ AtStart(f)
        /\ UNCHANGED <<tool, executed, extent, cut, missed>>
    BY <1>2 DEF Call
  <2>2. /\ stack' \in Seq(Routine) /\ Len(stack') = Len(stack) + 1
        /\ \A n \in 1 .. Len(stack) + 1 : stack'[n] = IF n = Len(stack) + 1 THEN f ELSE stack[n]
    BY <1>1, <2>1
  <2>3. /\ Len(stack') \in Nat \ {0} /\ Len(stack') >= Len(stack)
        /\ \A n \in 1 .. Len(stack') : stack'[n] = f \/ (n \in 1 .. Len(stack) /\ stack'[n] = stack[n])
    BY <1>1, <2>2
  <2>4. QED
    BY <2>1, <2>2, <2>3, EntryKeeps
<1>3. CASE Jump(f)
  <2>1. /\ stack # <<>> /\ stack' = [stack EXCEPT ![Len(stack)] = f]
        /\ Counted(f, Len(stack)) /\ AtStart(f)
        /\ UNCHANGED <<tool, executed, extent, cut, missed>>
    BY <1>3 DEF Jump
  <2>2. Len(stack) \in Nat \ {0}
    BY <1>1, <2>1
  <2>3. /\ stack' \in Seq(Routine) /\ Len(stack') = Len(stack)
        /\ \A n \in 1 .. Len(stack) : stack'[n] = IF n = Len(stack) THEN f ELSE stack[n]
    BY <1>1, <2>1, <2>2
  <2>4. \A n \in 1 .. Len(stack) : stack'[n] = f \/ (n \in 1 .. Len(stack) /\ stack'[n] = stack[n])
    BY <2>3
  <2>5. /\ tool' = tool /\ Counted(f, Len(stack)) /\ AtStart(f)
        /\ UNCHANGED <<executed, extent, cut, missed>>
        /\ stack' \in Seq(Routine) /\ Len(stack') = Len(stack)
        /\ Len(stack) >= Len(stack)
    BY <1>1, <2>1, <2>3
  <2>6. QED
    BY <2>2, <2>4, <2>5, EntryKeeps
<1>4. QED
  BY <1>2, <1>3


LEMMA ReturnKeeps ==
  ASSUME TracerInv, tool \in OneCall, Return
  PROVE  TracerInv'
<1>1. TracerTypeOK /\ BeforeCall /\ SinceCall /\ InCall /\ AfterCall /\ FirstCallTraced
  BY DEF TracerInv
<1>2. /\ start_ins \in BOOLEAN /\ first_time \in BOOLEAN /\ output_count \in Nat
      /\ calls \in 0 .. 2 /\ written \in Seq(LineOK) /\ level \in Int
      /\ stack \in Seq(Routine) /\ executed \in Nat /\ extent \in Seq(Nat)
      /\ cut \in BOOLEAN /\ missed \in BOOLEAN
  BY <1>1 DEF TracerTypeOK
<1> DEFINE f == stack[Len(stack)]
<1>3. /\ stack # <<>> /\ AtEnd(f)
      /\ cut' = (cut \/ (0 < level /\ level < Len(stack) /\ Noticed(f)))
      /\ missed' = (missed \/ (level = Len(stack) /\ ~ Noticed(f)))
      /\ level' = IF level = Len(stack) THEN -1 ELSE level
      /\ stack' = SubSeq(stack, 1, Len(stack) - 1)
      /\ UNCHANGED <<tool, executed, calls, extent>>
  BY DEF Return
<1>4. Len(stack) \in Nat \ {0}
  BY <1>2, <1>3
<1>5. /\ stack' \in Seq(Routine) /\ Len(stack') = Len(stack) - 1
      /\ \A n \in 1 .. Len(stack') : n \in 1 .. Len(stack) /\ stack'[n] = stack[n]
  <2> DEFINE m == Len(stack) - 1
  <2>1. m \in 0 .. Len(stack) /\ m \in Nat
    BY <1>4
  <2>2. stack' = SubSeq(stack, 1, m)
    BY <1>3
  <2>3. \A n \in 1 .. m : n \in 1 .. Len(stack)
    BY <1>4
  <2> HIDE DEF m
  <2>4. Len(SubSeq(stack, 1, m)) = m /\ SubSeq(stack, 1, m) \in Seq(Routine)
    BY <1>2, <2>1
  <2>5. \A n \in 1 .. m : SubSeq(stack, 1, m)[n] = stack[n]
    BY <1>2, <2>1, <2>4
  <2>6. QED
    BY <2>2, <2>3, <2>4, <2>5 DEF m
<1>6. (cut => cut') /\ (missed => missed') /\ cut' \in BOOLEAN /\ missed' \in BOOLEAN
  BY <1>2, <1>3
<1>7. level' \in Int /\ (level' = level \/ (level = Len(stack) /\ level' = -1))
  BY <1>2, <1>3
<1> HIDE DEF f
<1>8. CASE ~ Noticed(f)
  <2>1. UNCHANGED <<start_ins, first_time, output_count, written>>
    BY <1>3, <1>8 DEF AtEnd, globals
  <2>2. cut' = cut
    BY <1>2, <1>3, <1>8
  <2>3. TracerTypeOK'
    BY <1>2, <1>3, <1>5, <1>6, <1>7, <2>1, Zenon DEF TracerTypeOK
  <2>4. BeforeCall'
    <3> SUFFICES ASSUME calls = 0 PROVE BeforeCall'
      BY <1>3 DEF BeforeCall
    <3>1. level = 0 /\ ~ missed
      BY <1>1 DEF BeforeCall
    <3>2. level' = 0 /\ ~ missed'
      BY <1>3, <1>4, <3>1
    <3>3. \A n \in 1 .. Len(stack') : ~ Noticed(stack'[n])
      BY <1>1, <1>5 DEF BeforeCall
    <3>4. QED
      BY <1>1, <1>3, <2>1, <2>2, <3>2, <3>3 DEF BeforeCall
  <2>5. SinceCall'
    BY <1>1, <1>3, <1>7, <2>1 DEF SinceCall
  <2>6. InCall' /\ AfterCall'
    <3>1. CASE level = Len(stack)
      <4>1. level' = -1 /\ missed' = TRUE
        BY <1>3, <1>8, <3>1
      <4>2. QED
        BY <4>1 DEF InCall, AfterCall
    <3>2. CASE level # Len(stack)
      <4>1. level' = level /\ missed' = missed
        BY <1>2, <1>3, <3>2
      <4>2. level > 0 => level <= Len(stack')
        BY <1>1, <1>2, <1>4, <1>5, <3>2 DEF InCall
      <4>3. QED
        BY <1>1, <2>1, <2>2, <4>1, <4>2 DEF InCall, AfterCall
    <3>3. QED
      BY <3>1, <3>2
  <2>7. FirstCallTraced'
    BY <1>1, <1>3, <1>6, <2>1, TracedStays
  <2>8. QED
    BY <2>3, <2>4, <2>5, <2>6, <2>7 DEF TracerInv
<1>9. CASE Noticed(f)
  <2>1. calls > 0
    <3>1. calls # 0
      BY <1>1, <1>4, <1>9 DEF BeforeCall, f
    <3>2. QED
      BY <1>2, <3>1
  <2>2. RtnEnd \/ RefEnd
    BY <1>3, <1>9 DEF AtEnd, NoEnd, OneCall
  <2>3. /\ start_ins' = FALSE /\ output_count' \in Nat
        /\ UNCHANGED <<first_time, written>>
        /\ tool = "ref" /\ (start_ins \/ output_count > 0) => output_count' > 0
    <3>1. CASE RtnEnd
      BY <1>2, <3>1 DEF RtnEnd
    <3>2. CASE RefEnd
      BY <1>2, <3>2 DEF RefEnd
    <3>3. QED
      BY <2>2, <3>1, <3>2
  <2>4. TracerTypeOK'
    BY <1>2, <1>3, <1>5, <1>6, <1>7, <2>3, Zenon DEF TracerTypeOK
  <2>5. BeforeCall'
    BY <1>3, <2>1 DEF BeforeCall
  <2>6. SinceCall'
    BY <1>1, <1>3, <1>7, <2>1, <2>3 DEF SinceCall
  <2>7. missed' = missed
    BY <1>2, <1>3, <1>9
  <2>8. InCall' /\ AfterCall'
    <3>1. CASE level = Len(stack)
      BY <1>3, <2>3, <3>1 DEF InCall, AfterCall
    <3>2. CASE level # Len(stack) /\ level > 0
      <4>1. level < Len(stack)
        BY <1>1, <1>2, <1>4, <3>2 DEF InCall
      <4>a. level' = level /\ cut' = TRUE
        BY <1>2, <1>3, <1>9, <3>2, <4>1
      <4>b. level <= Len(stack')
        BY <1>2, <1>4, <1>5, <4>1
      <4>2. level' = level /\ level <= Len(stack') /\ cut' = TRUE
        BY <4>a, <4>b
      <4>3. QED
        BY <1>1, <2>3, <2>7, <3>2, <4>2 DEF InCall, AfterCall
    <3>3. CASE level # Len(stack) /\ ~ (level > 0)
      BY <1>3, <2>3, <3>3 DEF InCall, AfterCall
    <3>4. QED
      BY <3>1, <3>2, <3>3
  <2>9. FirstCallTraced'
    BY <1>1, <1>3, <1>6, <2>3, TracedStays
  <2>10. QED
    BY <2>4, <2>5, <2>6, <2>8, <2>9 DEF TracerInv
<1>10. QED
  BY <1>8, <1>9

LEMMA ExecuteKeeps ==
  ASSUME TracerInv, tool \in OneCall, NEW i, Execute(i)
  PROVE  TracerInv'
<1>1. TracerTypeOK /\ BeforeCall /\ SinceCall /\ InCall /\ AfterCall /\ FirstCallTraced
  BY DEF TracerInv
<1>2. /\ start_ins \in BOOLEAN /\ first_time \in BOOLEAN /\ output_count \in Nat
      /\ calls \in 0 .. 2 /\ written \in Seq(LineOK) /\ level \in Int
      /\ stack \in Seq(Routine) /\ executed \in Nat /\ extent \in Seq(Nat)
      /\ cut \in BOOLEAN /\ missed \in BOOLEAN
  BY <1>1 DEF TracerTypeOK
<1> DEFINE x == executed + 1
<1>3. /\ executed' = x
      /\ written' = IF start_ins /\ Kept(i) THEN Append(written, Line("inst", x)) ELSE written
      /\ extent' = IF Wanted(i) THEN Append(extent, x) ELSE extent
      /\ UNCHANGED <<tool, stack, start_ins, first_time, output_count, calls, level, cut, missed>>
  BY DEF Execute
<1>4. x \in Nat
  BY <1>2
<1>5. Wanted(i) <=> Kept(i) /\ level > 0
  BY DEF Wanted, Batching, OneCall
<1> HIDE DEF x
<1>6. Line("inst", x) \in LineOK /\ Line("inst", x).inst = x /\ Line("inst", x).kind = "inst"
  BY <1>4 DEF Line, LineOK
<1>7. HeaderLines \in {0, 1} /\ Len(written) - HeaderLines \in Nat /\ Len(written) \in Nat
  BY <1>2, HeaderIs
<1>8. Recorded = Insts(written, HeaderLines) /\ Recorded \in Seq(Nat)
  <2>1. Recorded = Insts(written, HeaderLines)
    BY DEF Recorded, Insts
  <2>2. QED
    BY <1>2, <1>7, <2>1, RecordedIs
<1>9. CASE start_ins /\ Kept(i)
  <2>1. calls # 0 /\ calls > 0
    BY <1>1, <1>2, <1>9 DEF BeforeCall
  <2>2. tool = "qif" => written # <<>>
    BY <1>1, <2>1 DEF SinceCall
  <2>3. written' = Append(written, Line("inst", x))
    BY <1>3, <1>9
  <2>4. /\ written' \in Seq(LineOK) /\ Len(written') = Len(written) + 1 /\ written' # <<>>
        /\ written'[Len(written) + 1] = Line("inst", x)
        /\ \A n \in 1 .. Len(written) : written'[n] = written[n]
    BY <1>2, <1>6, <2>3
  <2>5. HeaderLines' = HeaderLines
    BY <1>3, <2>2, <2>4 DEF HeaderLines
  <2>6. Recorded' = Append(Recorded, x)
    <3>1. Recorded' = Insts(written', HeaderLines)
      BY <2>5 DEF Recorded, Insts
    <3>2. Insts(Append(written, Line("inst", x)), HeaderLines) = Append(Recorded, x)
      BY <1>2, <1>4, <1>6, <1>7, <1>8, RecordedGrows
    <3>3. QED
      BY <2>3, <3>1, <3>2
  <2>7. Recorded' \in Seq(Nat)
    BY <1>4, <1>8, <2>6
  <2>8. \A n \in 1 .. Len(written') :
          written'[n].kind = IF n = HeaderLines' THEN "start" ELSE "inst"
    <3> SUFFICES ASSUME NEW n \in 1 .. Len(written')
                 PROVE  written'[n].kind = IF n = HeaderLines THEN "start" ELSE "inst"
      BY <2>5
    <3>1. CASE n = Len(written) + 1
      <4>1. n # HeaderLines
        BY <1>7, <3>1
      <4>2. QED
        BY <1>6, <2>4, <3>1, <4>1
    <3>2. CASE n # Len(written) + 1
      <4>1. n \in 1 .. Len(written)
        BY <1>7, <2>4, <3>2
      <4>2. QED
        BY <1>1, <2>4, <4>1 DEF FirstCallTraced, OneCall
    <3>3. QED
      BY <3>1, <3>2
  <2>9. FirstCallTraced'
    <3>1. CASE level > 0
      <4>1. extent' = Append(extent, x) /\ ~ cut /\ ~ missed
        BY <1>1, <1>3, <1>5, <1>9, <3>1 DEF InCall
      <4>2. Recorded = extent
        BY <1>1, <4>1 DEF FirstCallTraced, OneCall
      <4>3. Recorded' = extent'
        BY <2>6, <4>1, <4>2
      <4>4. Begins(Recorded', Recorded')
        BY <2>7, BeginsSelf
      <4>5. QED
        BY <2>8, <4>3, <4>4 DEF FirstCallTraced
    <3>2. CASE ~ (level > 0)
      <4>1. extent' = extent
        BY <1>3, <1>5, <3>2
      <4>2. level < 0
        BY <1>1, <1>2, <2>1, <3>2 DEF SinceCall
      <4>3. missed
        BY <1>1, <1>9, <4>2 DEF AfterCall
      <4>4. ~ cut => Begins(extent, Recorded)
        BY <1>1 DEF FirstCallTraced, OneCall
      <4>5. ~ cut => Begins(extent', Recorded')
        BY <1>2, <1>4, <1>8, <2>6, <4>1, <4>4, BeginsOn
      <4>6. missed' /\ cut' = cut
        BY <1>3, <4>3
      <4>7. QED
        BY <2>8, <4>5, <4>6 DEF FirstCallTraced
    <3>3. QED
      BY <3>1, <3>2
  <2>10. extent' \in Seq(Nat) /\ executed' \in Nat
    BY <1>2, <1>3, <1>4
  <2>11. TracerTypeOK'
    BY <1>2, <1>3, <2>4, <2>10, Zenon DEF TracerTypeOK
  <2>12. BeforeCall'
    BY <1>3, <2>1 DEF BeforeCall
  <2>13. SinceCall' /\ InCall' /\ AfterCall'
    BY <1>1, <1>3, <2>4 DEF SinceCall, InCall, AfterCall
  <2>14. QED
    BY <2>9, <2>11, <2>12, <2>13 DEF TracerInv
<1>10. CASE ~ (start_ins /\ Kept(i))
  <2>1. written' = written
    BY <1>3, <1>10
  <2>2. extent' \in Seq(Nat) /\ executed' \in Nat
    BY <1>2, <1>3, <1>4
  <2>3. TracerTypeOK'
    BY <1>2, <1>3, <2>1, <2>2, Zenon DEF TracerTypeOK
  <2>4. BeforeCall'
    <3>1. calls = 0 => extent' = extent
      BY <1>1, <1>3, <1>5 DEF BeforeCall
    <3>2. QED
      BY <1>1, <1>3, <2>1, <3>1 DEF BeforeCall
  <2>5. SinceCall' /\ InCall' /\ AfterCall'
    BY <1>1, <1>3, <2>1 DEF SinceCall, InCall, AfterCall
  <2>6. CASE Wanted(i)
    <3>1. extent' = Append(extent, x) /\ ~ start_ins /\ level > 0
      BY <1>3, <1>5, <1>10, <2>6
    <3>2. cut /\ ~ missed
      BY <1>1, <1>2, <3>1 DEF InCall
    <3>3. Begins(Recorded, extent)
      BY <1>1, <3>2 DEF FirstCallTraced, OneCall
    <3>4. Begins(Recorded, Append(extent, x))
      BY <1>2, <1>4, <1>8, <3>3, BeginsOn
    <3>5. HeaderLines' = HeaderLines
      BY <1>3, <2>1 DEF HeaderLines
    <3>6. Recorded' = Recorded
      BY <2>1, <3>5 DEF Recorded
    <3>7. \A n \in 1 .. Len(written') :
            written'[n].kind = IF n = HeaderLines' THEN "start" ELSE "inst"
      BY <1>1, <2>1, <3>5 DEF FirstCallTraced, OneCall
    <3>8. FirstCallTraced'
      BY <1>3, <3>1, <3>2, <3>4, <3>6, <3>7 DEF FirstCallTraced
    <3>9. QED
      BY <2>3, <2>4, <2>5, <3>8 DEF TracerInv
  <2>7. CASE ~ Wanted(i)
    <3>1. extent' = extent
      BY <1>3, <2>7
    <3>2. FirstCallTraced'
      BY <1>1, <1>3, <2>1, <3>1, TracedStays
    <3>3. QED
      BY <2>3, <2>4, <2>5, <3>2 DEF TracerInv
  <2>8. QED
    BY <2>6, <2>7
<1>11. QED
  BY <1>9, <1>10

(* The readers leave the tracer alone, and the exit of the program closes  *)
(* the file without another line.                                          *)
ReadersInv ==
  /\ source = "given" => tool = "none"
  /\ source = "tracing" => TracerInv
  /\ FirstCallTraced

LEMMA ReadersStart == ReadersInit => ReadersInv
<1> SUFFICES ASSUME ReadersInit PROVE ReadersInv
  OBVIOUS
<1>1. CASE Given
  BY <1>1 DEF Given, ReadersInv, FirstCallTraced
<1>2. CASE ToTrace
  <2>1. source = "tracing" /\ TracerInit
    BY <1>2 DEF ToTrace
  <2>2. TracerInv
    BY <2>1, TracerStarts
  <2>3. FirstCallTraced
    BY <2>2 DEF TracerInv, FirstCallTraced, OneCall
  <2>4. QED
    BY <2>1, <2>2, <2>3 DEF ReadersInv
<1>3. QED
  BY <1>1, <1>2 DEF ReadersInit

LEMMA ReadersKeep == ReadersInv /\ [ReadersNext]_readers => ReadersInv'
<1> SUFFICES ASSUME ReadersInv, [ReadersNext]_readers PROVE ReadersInv'
  OBVIOUS
<1>1. CASE UNCHANGED <<tracerVars, source>>
  <2>1. UNCHANGED <<tool, stack, executed, start_ins, first_time, output_count, written,
                    calls, level, extent, cut, missed, source>>
    BY <1>1 DEF tracerVars, globals
  <2>2. FirstCallTraced'
    BY <2>1, TracedStays DEF ReadersInv
  <2>3. source = "tracing" => TracerInv'
    <3>1. (TracerTypeOK' <=> TracerTypeOK) /\ (BeforeCall' <=> BeforeCall)
          /\ (SinceCall' <=> SinceCall) /\ (InCall' <=> InCall) /\ (AfterCall' <=> AfterCall)
      BY <2>1 DEF TracerTypeOK, BeforeCall, SinceCall, InCall, AfterCall
    <3>2. QED
      BY <2>1, <2>2, <3>1 DEF ReadersInv, TracerInv
  <2>4. QED
    BY <2>1, <2>2, <2>3 DEF ReadersInv
<1>2. CASE Trace
  <2>1. source = "tracing" /\ source' = source /\ Traced
    BY <1>2 DEF Trace
  <2>2. tool' = tool
    BY <2>1 DEF Traced, Call, Jump, Return, Execute
  <2>3. TracerInv'
    <3>1. CASE tool \in OneCall
      BY <2>1, <3>1, CallKeeps, ReturnKeeps, ExecuteKeeps DEF Traced, ReadersInv
    <3>2. CASE tool \notin OneCall
      BY <2>2, <3>2 DEF TracerInv
    <3>3. QED
      BY <3>1, <3>2
  <2>4. FirstCallTraced'
    BY <2>3 DEF TracerInv, FirstCallTraced, OneCall
  <2>5. QED
    BY <2>1, <2>3, <2>4 DEF ReadersInv
<1>3. CASE Exit
  <2>1. source' = "traced" /\ UNCHANGED <<tool, written, extent, cut, missed>>
    BY <1>3 DEF Exit, globals
  <2>2. FirstCallTraced'
    BY <2>1, TracedStays DEF ReadersInv
  <2>3. QED
    BY <2>1, <2>2 DEF ReadersInv
<1>4. CASE ReadersStep \/ AllRead
  <2>1. UNCHANGED <<tracerVars, source>>
    BY <1>4 DEF ReadersStep, ReadByQif, ReadByCryptoHunt, AllRead, readers
  <2>2. QED
    BY <1>1, <2>1
<1>5. CASE UNCHANGED readers
  BY <1>1, <1>5 DEF readers
<1>6. QED
  BY <1>2, <1>3, <1>4, <1>5 DEF ReadersNext

(* The tools for one call of a routine record the instructions of its      *)
(* first call and no others: nothing starts them again (first_time,        *)
(* output_count), and only a call within it that returns stops them early  *)
(* (RTN_end, endRTN).  For every number of routines on the stack,          *)
(* instructions and calls.                                                 *)
THEOREM FirstCallIsTraced == ReadersSpec => []FirstCallTraced
<1>1. ReadersInit => ReadersInv
  BY ReadersStart
<1>2. ReadersInv /\ [ReadersNext]_readers => ReadersInv'
  BY ReadersKeep
<1>3. ReadersInv => FirstCallTraced
  BY DEF ReadersInv
<1>4. QED
  BY <1>1, <1>2, <1>3, PTL DEF ReadersSpec

-----------------------------------------------------------------------------
(* The tools that end a batch at the next call.  The first batch is the    *)
(* extent, and stays in front of what is written later.                    *)
BatchInv ==
  tool \in Batching =>
    /\ written \in Seq(LineOK) /\ extent \in Seq(Nat) /\ executed \in Nat
    /\ start_ins \in BOOLEAN /\ calls \in 0 .. 2
    /\ calls = 0 => ~ start_ins /\ written = <<>> /\ extent = <<>>
    /\ calls > 0 =>
         /\ Len(written) >= Len(extent) + 1
         /\ written[1].kind = "start"
         /\ \A n \in 1 .. Len(extent) :
              written[n + 1].kind = "inst" /\ written[n + 1].inst = extent[n]
    /\ calls = 1 => start_ins /\ Len(written) = Len(extent) + 1
    /\ calls = 2 => Len(written) >= Len(extent) + 2 /\ written[Len(extent) + 2].kind = "end"

LEMMA BatchStarts == TracerInit => BatchInv
<1> SUFFICES ASSUME TracerInit, tool \in Batching PROVE BatchInv
  BY DEF BatchInv
<1>1. start_ins = (tool \in {"all", "main"})
  BY DEF TracerInit
<1>2. (tool \in {"all", "main"}) = FALSE
  BY DEF Batching
<1>3. start_ins = FALSE
  BY <1>1, <1>2, Zenon
<1>4. written = <<>> /\ extent = <<>> /\ executed = 0 /\ calls = 0
  BY DEF TracerInit
<1>5. written \in Seq(LineOK) /\ extent \in Seq(Nat) /\ executed \in Nat /\ calls \in 0 .. 2
  BY <1>4
<1>6. ~ (calls > 0) /\ calls # 1 /\ calls # 2
  BY <1>4
<1>7. QED
  BY <1>3, <1>4, <1>5, <1>6, Zenon DEF BatchInv

(* Another line leaves those in front of it.                               *)
LEMMA LineMore ==
  ASSUME NEW l \in LineOK, written \in Seq(LineOK), written' = Append(written, l)
  PROVE  /\ written' \in Seq(LineOK) /\ Len(written) \in Nat /\ Len(written') = Len(written) + 1
         /\ written'[Len(written) + 1] = l
         /\ \A n \in 1 .. Len(written) : written'[n] = written[n]
OBVIOUS

LEMMA BatchKeeps ==
  ASSUME BatchInv, tool \in Batching, Traced
  PROVE  BatchInv'
<1>0. /\ written \in Seq(LineOK) /\ extent \in Seq(Nat) /\ executed \in Nat
      /\ start_ins \in BOOLEAN /\ calls \in 0 .. 2 /\ Len(written) \in Nat /\ Len(extent) \in Nat
  BY DEF BatchInv
<1>1. ASSUME tool' = tool, UNCHANGED <<written, extent, executed, start_ins, calls>>
      PROVE  BatchInv'
  BY <1>1 DEF BatchInv
<1>2. ASSUME NEW f \in Routine, Call(f) \/ Jump(f)
      PROVE  BatchInv'
  <2>1. /\ calls' = IF Noticed(f) /\ calls < 2 THEN calls + 1 ELSE calls
        /\ AtStart(f) /\ UNCHANGED <<tool, executed, extent>>
    BY <1>2 DEF Call, Jump, Counted
  <2>2. CASE ~ Noticed(f)
    BY <1>1, <2>1, <2>2 DEF AtStart, globals
  <2>3. CASE Noticed(f)
    <3>1. CallStart \/ RecvStart
      BY <2>1, <2>3 DEF AtStart, QifStart, NgramStart, RefStart, NoStart, Batching
    <3>2. /\ start_ins' = ~ start_ins
          /\ written' = Append(written, Line(IF start_ins THEN "end" ELSE "start", 0))
      BY <1>0, <3>1 DEF CallStart, RecvStart
    <3> DEFINE l == Line(IF start_ins THEN "end" ELSE "start", 0)
    <3>3. l \in LineOK /\ l.kind = IF start_ins THEN "end" ELSE "start"
      BY DEF Line, LineOK
    <3> HIDE DEF l
    <3>4. /\ written' \in Seq(LineOK) /\ Len(written') = Len(written) + 1
          /\ written'[Len(written) + 1] = l
          /\ \A n \in 1 .. Len(written) : written'[n] = written[n]
      BY <1>0, <3>2, <3>3, LineMore DEF l
    <3>5. start_ins' \in BOOLEAN /\ calls' \in 1 .. 2 /\ executed' \in Nat /\ extent' \in Seq(Nat)
      BY <1>0, <2>1, <2>3, <3>2
    <3>6. CASE calls = 0
      <4>1. written = <<>> /\ extent = <<>> /\ start_ins = FALSE /\ calls' = 1
        BY <1>0, <2>1, <2>3, <3>6 DEF BatchInv
      <4>2. /\ Len(extent') = 0 /\ Len(written') = 1 /\ start_ins'
            /\ written'[1].kind = "start"
        <5>1. Len(extent) = 0 /\ Len(written) = 0 /\ extent' = extent
          BY <2>1, <4>1
        <5>2. l.kind = "start" /\ start_ins' = TRUE
          BY <3>2, <3>3, <4>1
        <5>3. Len(written') = 1 /\ written'[1] = l
          BY <3>4, <5>1
        <5>4. QED
          BY <5>1, <5>2, <5>3
      <4>3. QED
        BY <3>4, <3>5, <4>1, <4>2 DEF BatchInv
    <3>7. CASE calls > 0
      <4>1. /\ Len(written) >= Len(extent) + 1
            /\ written[1].kind = "start"
            /\ \A n \in 1 .. Len(extent) :
                 written[n + 1].kind = "inst" /\ written[n + 1].inst = extent[n]
            /\ calls = 1 => start_ins /\ Len(written) = Len(extent) + 1
            /\ calls = 2 => Len(written) >= Len(extent) + 2 /\ written[Len(extent) + 2].kind = "end"
        BY <3>7 DEF BatchInv
      <4>2. calls' = 2 /\ extent' = extent
        BY <1>0, <2>1, <2>3, <3>7
      <4>3. Len(written') >= Len(extent) + 2 /\ written'[1].kind = "start"
        BY <1>0, <3>4, <4>1
      <4>4. \A n \in 1 .. Len(extent) :
              written'[n + 1].kind = "inst" /\ written'[n + 1].inst = extent[n]
        <5>1. \A n \in 1 .. Len(extent) : n + 1 \in 1 .. Len(written)
          BY <1>0, <4>1
        <5>2. QED
          BY <3>4, <4>1, <5>1
      <4>5. written'[Len(extent) + 2].kind = "end"
        <5>1. CASE calls = 1
          <6>1. start_ins /\ Len(written) + 1 = Len(extent) + 2
            BY <1>0, <4>1, <5>1
          <6>2. QED
            BY <3>3, <3>4, <6>1
        <5>2. CASE calls = 2
          <6>1. Len(extent) + 2 \in 1 .. Len(written)
            BY <1>0, <4>1, <5>2
          <6>2. QED
            BY <3>4, <4>1, <5>2, <6>1
        <5>3. QED
          BY <1>0, <3>7, <5>1, <5>2
      <4>6. QED
        BY <3>4, <3>5, <4>2, <4>3, <4>4, <4>5 DEF BatchInv
    <3>8. QED
      BY <1>0, <3>6, <3>7
  <2>4. QED
    BY <2>2, <2>3
<1>3. CASE Return
  <2>1. UNCHANGED <<tool, executed, calls, extent>> /\ AtEnd(stack[Len(stack)])
    BY <1>3 DEF Return
  <2>2. UNCHANGED <<start_ins, written>>
    BY <2>1 DEF AtEnd, RtnEnd, RefEnd, NoEnd, Batching, globals
  <2>3. QED
    BY <1>1, <2>1, <2>2
<1>4. ASSUME NEW i, Execute(i)
      PROVE  BatchInv'
  <2> DEFINE x == executed + 1
  <2>1. /\ executed' = x
        /\ written' = IF start_ins /\ Kept(i) THEN Append(written, Line("inst", x)) ELSE written
        /\ extent' = IF Wanted(i) THEN Append(extent, x) ELSE extent
        /\ UNCHANGED <<tool, start_ins, calls>>
    BY <1>4 DEF Execute
  <2>2. Wanted(i) <=> Kept(i) /\ calls = 1
    BY DEF Wanted
  <2>3. x \in Nat
    BY <1>0
  <2> HIDE DEF x
  <2>4. Line("inst", x) \in LineOK /\ Line("inst", x).inst = x /\ Line("inst", x).kind = "inst"
    BY <2>3 DEF Line, LineOK
  <2>5. CASE ~ Kept(i) \/ (calls # 1 /\ ~ start_ins)
    <3>1. UNCHANGED <<written, extent>>
      BY <2>1, <2>2, <2>5
    <3>2. QED
      BY <2>1, <2>3, <3>1 DEF BatchInv
  <2>6. CASE Kept(i) /\ calls = 1
    <3>1. /\ start_ins /\ Len(written) = Len(extent) + 1 /\ written[1].kind = "start"
          /\ \A n \in 1 .. Len(extent) :
               written[n + 1].kind = "inst" /\ written[n + 1].inst = extent[n]
      BY <2>6 DEF BatchInv
    <3>2. written' = Append(written, Line("inst", x)) /\ extent' = Append(extent, x)
      BY <2>1, <2>2, <2>6, <3>1
    <3>3. /\ written' \in Seq(LineOK) /\ Len(written') = Len(written) + 1
          /\ written'[Len(written) + 1] = Line("inst", x)
          /\ \A n \in 1 .. Len(written) : written'[n] = written[n]
      BY <1>0, <2>4, <3>2, LineMore
    <3>4. /\ extent' \in Seq(Nat) /\ Len(extent') = Len(extent) + 1
          /\ extent'[Len(extent) + 1] = x
          /\ \A n \in 1 .. Len(extent) : extent'[n] = extent[n]
      BY <1>0, <2>3, <3>2
    <3>5. Len(written') = Len(extent') + 1 /\ written'[1].kind = "start"
      BY <1>0, <3>1, <3>3, <3>4
    <3>6. ASSUME NEW n \in 1 .. Len(extent')
          PROVE  written'[n + 1].kind = "inst" /\ written'[n + 1].inst = extent'[n]
      <4>1. CASE n = Len(extent) + 1
        <5>1. n + 1 = Len(written) + 1
          BY <3>1, <4>1
        <5>2. QED
          BY <2>4, <3>3, <3>4, <4>1, <5>1
      <4>2. CASE n # Len(extent) + 1
        <5>1. n \in 1 .. Len(extent) /\ n + 1 \in 1 .. Len(written)
          BY <1>0, <3>1, <3>4, <4>2
        <5>2. QED
          BY <3>1, <3>3, <3>4, <5>1
      <4>3. QED
        BY <4>1, <4>2
    <3>7. Len(written') >= Len(extent') + 1 /\ Len(extent') \in Nat
      BY <1>0, <3>4, <3>5
    <3>8. calls' = 1 /\ start_ins' = TRUE /\ executed' \in Nat
      BY <2>1, <2>3, <2>6, <3>1
    <3>9. QED
      BY <3>3, <3>4, <3>5, <3>6, <3>7, <3>8 DEF BatchInv
  <2>7. CASE Kept(i) /\ calls # 1 /\ start_ins
    <3>1. calls = 2
      BY <1>0, <2>7 DEF BatchInv
    <3>2. written' = Append(written, Line("inst", x)) /\ extent' = extent
      BY <2>1, <2>2, <2>7
    <3>3. /\ written' \in Seq(LineOK) /\ Len(written') = Len(written) + 1
          /\ \A n \in 1 .. Len(written) : written'[n] = written[n]
      BY <1>0, <2>4, <3>2, LineMore
    <3>4. /\ Len(written) >= Len(extent) + 2
          /\ written[Len(extent) + 2].kind = "end" /\ written[1].kind = "start"
          /\ \A n \in 1 .. Len(extent) :
               written[n + 1].kind = "inst" /\ written[n + 1].inst = extent[n]
      BY <3>1 DEF BatchInv
    <3>5. /\ Len(extent) + 2 \in 1 .. Len(written) /\ 1 \in 1 .. Len(written)
          /\ \A n \in 1 .. Len(extent) : n + 1 \in 1 .. Len(written)
          /\ Len(written') >= Len(extent) + 2
      BY <1>0, <3>3, <3>4
    <3>6. /\ written'[Len(extent) + 2].kind = "end" /\ written'[1].kind = "start"
          /\ \A n \in 1 .. Len(extent) :
               written'[n + 1].kind = "inst" /\ written'[n + 1].inst = extent[n]
      BY <3>3, <3>4, <3>5
    <3>7. calls' = 2 /\ start_ins' = start_ins /\ executed' \in Nat
      BY <2>1, <2>3, <3>1
    <3>8. QED
      BY <1>0, <3>2, <3>3, <3>5, <3>6, <3>7 DEF BatchInv
  <2>8. QED
    BY <2>5, <2>6, <2>7
<1>5. QED
  BY <1>2, <1>3, <1>4 DEF Traced

-----------------------------------------------------------------------------
(* The file.  Where the first lines written are a header and then none, a  *)
(* line with the key moves those after it down by one.                     *)
StartsTo(n) == { m \in 1 .. n : written[m].kind = "start" }

LEMMA HeadersCount ==
  ASSUME NEW n \in Nat
  PROVE  /\ HeadersTo(n) = Cardinality(StartsTo(n)) /\ HeadersTo(n) \in Nat
         /\ IsFiniteSet(StartsTo(n))
         /\ StartsTo(n) = {} => HeadersTo(n) = 0
         /\ StartsTo(n) = {1} => HeadersTo(n) = 1
         /\ 1 \in StartsTo(n) => HeadersTo(n) >= 1
<1>1. IsFiniteSet(1 .. n)
  BY FS_Interval
<1>2. StartsTo(n) \in SUBSET (1 .. n)
  BY DEF StartsTo
<1>3. IsFiniteSet(StartsTo(n))
  BY <1>1, <1>2, FS_Subset
<1>4. HeadersTo(n) = Cardinality(StartsTo(n))
  BY DEF HeadersTo, StartsTo
<1>5. HeadersTo(n) \in Nat
  BY <1>3, <1>4, FS_CardinalityType
<1>6. StartsTo(n) = {} => HeadersTo(n) = 0
  BY <1>4, FS_EmptySet
<1>7. StartsTo(n) = {1} => HeadersTo(n) = 1
  BY <1>4, FS_Singleton
<1>8. 1 \in StartsTo(n) => HeadersTo(n) >= 1
  <2> SUFFICES ASSUME 1 \in StartsTo(n) PROVE HeadersTo(n) >= 1
    OBVIOUS
  <2>1. StartsTo(n) # {}
    OBVIOUS
  <2>2. HeadersTo(n) # 0
    BY <1>3, <1>4, <2>1, FS_EmptySet
  <2>3. QED
    BY <1>5, <2>2
<1>9. QED
  BY <1>3, <1>4, <1>5, <1>6, <1>7, <1>8

LEMMA KeyedLines ==
  ASSUME written \in Seq(LineOK), NEW e \in Nat, e + 1 <= Len(written),
         written[1].kind = "start", \A n \in 2 .. e + 1 : written[n].kind # "start"
  PROVE  /\ WithKeys = [k \in 1 .. Len(WithKeys) |-> WithKeys[k]]
         /\ Len(WithKeys) \in Nat /\ Len(WithKeys) >= Len(written) + 1
         /\ e + 1 = Len(written) => Len(WithKeys) = Len(written) + 1
         /\ WithKeys[1] = written[1]
         /\ \A n \in 2 .. e + 1 : WithKeys[n + 1] = written[n]
<1>1. Len(written) \in Nat /\ 1 <= Len(written)
  OBVIOUS
<1> DEFINE h == HeadersTo(Len(written))
<1>2. h \in Nat /\ h >= 1
  <2>1. 1 \in StartsTo(Len(written))
    BY <1>1 DEF StartsTo
  <2>2. QED
    BY <1>1, <2>1, HeadersCount
<1>3. e + 1 = Len(written) => h = 1
  <2> SUFFICES ASSUME e + 1 = Len(written) PROVE h = 1
    OBVIOUS
  <2>1. StartsTo(Len(written)) = {1}
    <3>1. 1 \in StartsTo(Len(written))
      BY <1>1 DEF StartsTo
    <3>2. ASSUME NEW n \in StartsTo(Len(written)) PROVE n = 1
      <4>1. n \in 1 .. Len(written) /\ written[n].kind = "start"
        BY DEF StartsTo
      <4>2. n \in 2 .. e + 1 => FALSE
        BY <4>1
      <4>3. QED
        BY <4>1, <4>2
    <3>3. QED
      BY <3>1, <3>2
  <2>2. QED
    BY <1>1, <2>1, HeadersCount
<1>4. Place(1) = 1
  <2>1. StartsTo(0) = {}
    BY DEF StartsTo
  <2>2. HeadersTo(0) = 0
    BY <2>1, HeadersCount
  <2>3. QED
    BY <2>2 DEF Place
<1>5. \A n \in 2 .. e + 1 : Place(n) = n + 1
  <2> SUFFICES ASSUME NEW n \in 2 .. e + 1 PROVE Place(n) = n + 1
    OBVIOUS
  <2>1. n - 1 \in Nat /\ n - 1 \in 1 .. e
    OBVIOUS
  <2>2. StartsTo(n - 1) = {1}
    <3>1. 1 \in StartsTo(n - 1)
      BY <2>1 DEF StartsTo
    <3>2. ASSUME NEW m \in StartsTo(n - 1) PROVE m = 1
      <4>1. m \in 1 .. n - 1 /\ written[m].kind = "start"
        BY DEF StartsTo
      <4>2. m \in 2 .. e + 1 => FALSE
        BY <4>1
      <4>3. QED
        BY <2>1, <4>1, <4>2
    <3>3. QED
      BY <3>1, <3>2
  <2>3. HeadersTo(n - 1) = 1
    BY <2>1, <2>2, HeadersCount
  <2>4. QED
    BY <2>3 DEF Place
<1>6. \A n \in 1 .. Len(written) : n > e + 1 => Place(n) > e + 2
  <2> SUFFICES ASSUME NEW n \in 1 .. Len(written), n > e + 1 PROVE Place(n) > e + 2
    OBVIOUS
  <2>1. n - 1 \in Nat /\ n - 1 >= 1
    OBVIOUS
  <2>2. 1 \in StartsTo(n - 1)
    BY <2>1 DEF StartsTo
  <2>3. HeadersTo(n - 1) \in Nat /\ HeadersTo(n - 1) >= 1
    BY <2>1, <2>2, HeadersCount
  <2>4. QED
    BY <2>3 DEF Place
<1>7. WithKeys = [k \in 1 .. Len(written) + h |->
                    IF \E n \in 1 .. Len(written) : Place(n) = k
                    THEN written[CHOOSE n \in 1 .. Len(written) : Place(n) = k]
                    ELSE Line("key", 0)]
  BY DEF WithKeys
<1> HIDE DEF h
<1>8. Len(WithKeys) = Len(written) + h
  <2>1. Len(written) + h \in Nat
    BY <1>1, <1>2
  <2>2. WithKeys \in [1 .. Len(written) + h -> LineOK]
    <3>1. Line("key", 0) \in LineOK
      BY DEF Line, LineOK
    <3>2. \A k \in 1 .. Len(written) + h :
            (\E n \in 1 .. Len(written) : Place(n) = k) =>
              written[CHOOSE n \in 1 .. Len(written) : Place(n) = k] \in LineOK
      <4> SUFFICES ASSUME NEW k \in 1 .. Len(written) + h, \E n \in 1 .. Len(written) : Place(n) = k
                   PROVE  written[CHOOSE n \in 1 .. Len(written) : Place(n) = k] \in LineOK
        OBVIOUS
      <4>1. (CHOOSE n \in 1 .. Len(written) : Place(n) = k) \in 1 .. Len(written)
        OBVIOUS
      <4>2. QED
        BY <4>1
    <3>3. QED
      BY <1>7, <3>1, <3>2
  <2>3. QED
    BY <2>1, <2>2, ValuesAreSeq
<1>9. ASSUME NEW n \in 1 .. e + 1, NEW k \in 1 .. e + 2, Place(n) = k
      PROVE  WithKeys[k] = written[n]
  <2>1. k \in 1 .. Len(written) + h /\ n \in 1 .. Len(written)
    BY <1>1, <1>2
  <2>2. ASSUME NEW m \in 1 .. Len(written), Place(m) = k PROVE m = n
    <3>1. m <= e + 1
      BY <1>6, <2>2
    <3>2. m = 1 \/ m \in 2 .. e + 1
      BY <3>1
    <3>3. n = 1 \/ n \in 2 .. e + 1
      OBVIOUS
    <3>4. QED
      BY <1>4, <1>5, <1>9, <2>2, <3>2, <3>3
  <2>3. (CHOOSE m \in 1 .. Len(written) : Place(m) = k) = n
    BY <1>9, <2>1, <2>2
  <2>4. WithKeys[k] = written[CHOOSE m \in 1 .. Len(written) : Place(m) = k]
    BY <1>7, <1>9, <2>1
  <2>5. QED
    BY <2>3, <2>4
<1>10. WithKeys[1] = written[1]
  <2>1. 1 \in 1 .. e + 1 /\ 1 \in 1 .. e + 2
    OBVIOUS
  <2>2. QED
    BY <1>4, <1>9, <2>1
<1>11. \A n \in 2 .. e + 1 : WithKeys[n + 1] = written[n]
  <2> SUFFICES ASSUME NEW n \in 2 .. e + 1 PROVE WithKeys[n + 1] = written[n]
    OBVIOUS
  <2>1. n \in 1 .. e + 1 /\ n + 1 \in 1 .. e + 2
    OBVIOUS
  <2>2. QED
    BY <1>5, <1>9, <2>1
<1>12. WithKeys = [k \in 1 .. Len(WithKeys) |-> WithKeys[k]]
  BY <1>7, <1>8
<1>13. QED
  BY <1>1, <1>2, <1>3, <1>8, <1>10, <1>11, <1>12

(* What the trace is meant to load, and how its lines hold it: behind a    *)
(* header and one line more, which is the key's or is taken for it.        *)
Meant(added) == IF added THEN extent ELSE ButFirst(extent)

Behind(d, w) ==
  /\ Len(d) \in Nat
  /\ Len(d) > 0 => d[1].kind = "start"
  /\ \A i \in 1 .. Len(w) : i + 2 <= Len(d) /\ d[i + 2].kind = "inst" /\ d[i + 2].inst = w[i]

CallShape(d, w) ==
  /\ w \in Seq(Nat)
  /\ Behind(d, w)
  /\ Len(d) >= 2 => Len(w) = Len(d) - 2
  /\ Len(d) < 2 => Len(w) = 0

BatchShape(d, w) ==
  /\ w \in Seq(Nat)
  /\ Behind(d, w)
  /\ calls \in 0 .. 2
  /\ calls = 0 => Len(d) = 0
  /\ calls > 0 => Len(d) >= Len(w) + 2
  /\ calls = 1 => Len(d) = Len(w) + 2
  /\ calls = 2 => Len(d) >= Len(w) + 3 /\ d[Len(w) + 3].kind = "end"

LEMMA FirstLeft ==
  ASSUME NEW s \in Seq(Nat)
  PROVE  /\ ButFirst(s) \in Seq(Nat)
         /\ Len(s) = 0 => Len(ButFirst(s)) = 0
         /\ Len(s) > 0 => /\ Len(ButFirst(s)) = Len(s) - 1
                          /\ \A i \in 1 .. Len(s) - 1 : ButFirst(s)[i] = s[i + 1]
BY DEF ButFirst

LEMMA NothingWritten ==
  ASSUME written = <<>>
  PROVE  Len(WithKeys) = 0
<1>1. StartsTo(0) = {}
  BY DEF StartsTo
<1>2. HeadersTo(0) = 0
  BY <1>1, HeadersCount
<1>3. Len(written) = 0
  OBVIOUS
<1>4. Len(written) + HeadersTo(Len(written)) = 0
  BY <1>2, <1>3
<1>5. WithKeys \in [1 .. 0 -> {0}]
  BY <1>4 DEF WithKeys
<1>6. QED
  BY <1>5

(* The trace of QIF's tool, when the call returned and none within it.     *)
LEMMA CallDelivered ==
  ASSUME TracerInv, tool = "qif", ~ cut, ~ missed, NEW added \in BOOLEAN
  PROVE  CallShape(Delivered(added), Meant(added))
<1> DEFINE d == Delivered(added)
           w == Meant(added)
<1>1. written \in Seq(LineOK) /\ extent \in Seq(Nat) /\ FirstCallTraced
  BY DEF TracerInv, TracerTypeOK, OneCall
<1>2. /\ \A n \in 1 .. Len(written) : written[n].kind = IF n = HeaderLines THEN "start" ELSE "inst"
      /\ Recorded = extent
  BY <1>1 DEF FirstCallTraced
<1>3. /\ HeaderLines \in {0, 1} /\ Len(written) - HeaderLines \in Nat
      /\ Len(written) \in Nat /\ Len(extent) \in Nat
  BY <1>1, HeaderIs
<1>4. /\ Len(extent) = Len(written) - HeaderLines
      /\ \A n \in 1 .. Len(written) - HeaderLines : extent[n] = written[n + HeaderLines].inst
  BY <1>1, <1>2, <1>3, RecordedIs DEF Recorded, Insts
<1>5. d = IF added THEN WithKeys ELSE written
  BY DEF Delivered
<1>6. w = IF added THEN extent ELSE ButFirst(extent)
  BY DEF Meant
<1>7. w \in Seq(Nat) /\ Len(w) \in Nat
  BY <1>1, <1>6, FirstLeft
<1> HIDE DEF d, w
<1>8. CASE written = <<>>
  <2>1. HeaderLines = 0 /\ Len(written) = 0 /\ Len(extent) = 0
    BY <1>4, <1>8 DEF HeaderLines
  <2>2. Len(d) = 0
    BY <1>5, <1>8, <2>1, NothingWritten
  <2>3. Len(w) = 0
    BY <1>1, <1>6, <2>1, FirstLeft
  <2>4. QED
    BY <1>7, <2>2, <2>3 DEF CallShape, Behind, d, w
<1>9. CASE written # <<>>
  <2>1. HeaderLines = 1
    BY <1>9 DEF HeaderLines
  <2>2. Len(written) = Len(extent) + 1
    BY <1>3, <1>4, <2>1
  <2>3. written[1].kind = "start"
    BY <1>2, <1>3, <2>1, <2>2
  <2>4. \A n \in 2 .. Len(extent) + 1 : written[n].kind = "inst"
    <3> SUFFICES ASSUME NEW n \in 2 .. Len(extent) + 1 PROVE written[n].kind = "inst"
      OBVIOUS
    <3>1. n \in 1 .. Len(written) /\ n # HeaderLines
      BY <1>3, <2>1, <2>2
    <3>2. QED
      BY <1>2, <3>1
  <2>5. \A n \in 1 .. Len(extent) : n + 1 \in 2 .. Len(extent) + 1 /\ extent[n] = written[n + 1].inst
    BY <1>3, <1>4, <2>1, <2>2
  <2>6. CASE added
    <3>1. /\ Len(d) = Len(extent) + 2 /\ d[1] = written[1]
          /\ \A n \in 2 .. Len(extent) + 1 : d[n + 1] = written[n]
      <4>1. \A n \in 2 .. Len(extent) + 1 : written[n].kind # "start"
        BY <2>4
      <4>2. Len(extent) + 1 <= Len(written)
        BY <1>3, <2>2
      <4>3. /\ Len(WithKeys) = Len(written) + 1 /\ WithKeys[1] = written[1]
            /\ \A n \in 2 .. Len(extent) + 1 : WithKeys[n + 1] = written[n]
        BY <1>1, <1>3, <2>2, <2>3, <4>1, <4>2, KeyedLines
      <4>4. QED
        BY <1>3, <1>5, <2>2, <2>6, <4>3
    <3>2. w = extent
      BY <1>6, <2>6
    <3>3. ASSUME NEW i \in 1 .. Len(w)
          PROVE  i + 2 <= Len(d) /\ d[i + 2].kind = "inst" /\ d[i + 2].inst = w[i]
      <4>1. i + 1 \in 2 .. Len(extent) + 1 /\ (i + 1) + 1 = i + 2 /\ i + 2 <= Len(d)
        BY <1>3, <3>1, <3>2
      <4>2. d[i + 2] = written[i + 1]
        BY <3>1, <4>1
      <4>3. QED
        BY <2>4, <2>5, <3>2, <4>1, <4>2
    <3>4. Len(d) \in Nat /\ Len(d) >= 2 /\ Len(w) = Len(d) - 2 /\ ~ (Len(d) < 2)
      BY <1>3, <3>1, <3>2
    <3>5. QED
      BY <1>7, <2>3, <3>1, <3>3, <3>4 DEF CallShape, Behind, d, w
  <2>7. CASE ~ added
    <3>1. d = written /\ w = ButFirst(extent)
      BY <1>5, <1>6, <2>7
    <3>2. CASE Len(extent) = 0
      <4>1. Len(w) = 0
        BY <1>1, <3>1, <3>2, FirstLeft
      <4>2. Len(d) = 1
        BY <2>2, <3>1, <3>2
      <4>3. QED
        BY <1>7, <2>3, <3>1, <4>1, <4>2 DEF CallShape, Behind, d, w
    <3>3. CASE Len(extent) > 0
      <4>1. /\ Len(w) = Len(extent) - 1
            /\ \A i \in 1 .. Len(extent) - 1 : w[i] = extent[i + 1]
        BY <1>1, <3>1, <3>3, FirstLeft
      <4>2. ASSUME NEW i \in 1 .. Len(w)
            PROVE  i + 2 <= Len(d) /\ d[i + 2].kind = "inst" /\ d[i + 2].inst = w[i]
        <5>1. i + 1 \in 1 .. Len(extent) /\ (i + 1) + 1 = i + 2 /\ i + 2 <= Len(d)
              /\ i \in 1 .. Len(extent) - 1
          BY <1>3, <2>2, <3>1, <4>1
        <5>2. extent[i + 1] = written[i + 2].inst /\ i + 2 \in 2 .. Len(extent) + 1
          BY <2>5, <5>1
        <5>3. QED
          BY <2>4, <3>1, <4>1, <5>1, <5>2
      <4>3. Len(d) \in Nat /\ Len(d) >= 2 /\ Len(w) = Len(d) - 2 /\ ~ (Len(d) < 2)
        BY <1>3, <2>2, <3>1, <3>3, <4>1
      <4>4. QED
        BY <1>7, <2>3, <3>1, <4>2, <4>3 DEF CallShape, Behind, d, w
    <3>4. QED
      BY <1>3, <3>2, <3>3
  <2>8. QED
    BY <2>6, <2>7
<1>10. QED
  BY <1>8, <1>9

(* The trace of a tool that ends a batch at the next call.                 *)
LEMMA BatchDelivered ==
  ASSUME BatchInv, tool \in Batching, NEW added \in BOOLEAN, added \/ extent # <<>>
  PROVE  BatchShape(Delivered(added), Meant(added))
<1> DEFINE d == Delivered(added)
           w == Meant(added)
<1>1. /\ written \in Seq(LineOK) /\ extent \in Seq(Nat) /\ calls \in 0 .. 2
      /\ Len(written) \in Nat /\ Len(extent) \in Nat
  BY DEF BatchInv
<1>2. d = IF added THEN WithKeys ELSE written
  BY DEF Delivered, Batching
<1>3. w = IF added THEN extent ELSE ButFirst(extent)
  BY DEF Meant
<1>4. w \in Seq(Nat) /\ Len(w) \in Nat
  BY <1>1, <1>3, FirstLeft
<1> HIDE DEF d, w
<1>5. CASE calls = 0
  <2>1. written = <<>> /\ extent = <<>>
    BY <1>5 DEF BatchInv
  <2>2. Len(d) = 0 /\ Len(w) = 0
    BY <1>2, <1>3, <2>1, NothingWritten
  <2>3. ~ (calls > 0) /\ calls # 1 /\ calls # 2
    BY <1>5
  <2>4. QED
    BY <1>1, <1>4, <2>2, <2>3 DEF BatchShape, Behind, d, w
<1>6. CASE calls > 0
  <2>1. /\ Len(written) >= Len(extent) + 1
        /\ written[1].kind = "start"
        /\ \A n \in 1 .. Len(extent) :
             written[n + 1].kind = "inst" /\ written[n + 1].inst = extent[n]
    BY <1>6 DEF BatchInv
  <2>2. calls = 1 => Len(written) = Len(extent) + 1
    BY DEF BatchInv
  <2>3. calls = 2 => Len(written) >= Len(extent) + 2 /\ written[Len(extent) + 2].kind = "end"
    BY DEF BatchInv
  <2>4. CASE added
    <3>1. w = extent
      BY <1>3, <2>4
    <3>2. \A n \in 2 .. Len(extent) + 1 : written[n].kind = "inst"
      <4> SUFFICES ASSUME NEW n \in 2 .. Len(extent) + 1 PROVE written[n].kind = "inst"
        OBVIOUS
      <4>1. n - 1 \in 1 .. Len(extent) /\ (n - 1) + 1 = n
        BY <1>1
      <4>2. QED
        BY <2>1, <4>1
    <3>3. /\ Len(d) \in Nat /\ Len(d) >= Len(written) + 1
          /\ Len(extent) + 1 = Len(written) => Len(d) = Len(written) + 1
          /\ d[1] = written[1]
          /\ \A n \in 2 .. Len(extent) + 1 : d[n + 1] = written[n]
      <4>1. \A n \in 2 .. Len(extent) + 1 : written[n].kind # "start"
        BY <3>2
      <4>2. Len(extent) + 1 <= Len(written)
        BY <1>1, <2>1
      <4>3. d = WithKeys
        BY <1>2, <2>4
      <4>4. QED
        BY <1>1, <2>1, <4>1, <4>2, <4>3, KeyedLines
    <3>4. ASSUME NEW i \in 1 .. Len(w)
          PROVE  i + 2 <= Len(d) /\ d[i + 2].kind = "inst" /\ d[i + 2].inst = w[i]
      <4>1. /\ i + 1 \in 2 .. Len(extent) + 1 /\ (i + 1) + 1 = i + 2 /\ i + 2 <= Len(d)
            /\ i \in 1 .. Len(extent)
        BY <1>1, <2>1, <3>1, <3>3
      <4>2. d[i + 2] = written[i + 1]
        BY <3>3, <4>1
      <4>3. QED
        BY <2>1, <3>1, <4>1, <4>2
    <3>5. ASSUME calls = 2
          PROVE  Len(d) >= Len(w) + 3 /\ d[Len(w) + 3].kind = "end"
      <4> DEFINE e == Len(extent) + 1
      <4>1. e \in Nat /\ e + 1 <= Len(written) /\ e + 1 = Len(extent) + 2
        BY <1>1, <2>3, <3>5
      <4>2. \A n \in 2 .. e + 1 : written[n].kind # "start"
        <5> SUFFICES ASSUME NEW n \in 2 .. e + 1 PROVE written[n].kind # "start"
          OBVIOUS
        <5>1. n \in 2 .. Len(extent) + 1 \/ n = Len(extent) + 2
          BY <1>1
        <5>2. QED
          BY <2>3, <3>2, <3>5, <5>1
      <4> HIDE DEF e
      <4>3. \A n \in 2 .. e + 1 : WithKeys[n + 1] = written[n]
        BY <1>1, <2>1, <4>1, <4>2, KeyedLines
      <4>4. e + 1 \in 2 .. e + 1 /\ (e + 1) + 1 = Len(extent) + 3
        BY <1>1, <4>1
      <4>5. WithKeys[Len(extent) + 3] = written[Len(extent) + 2]
        BY <4>1, <4>3, <4>4
      <4>6. d = WithKeys
        BY <1>2, <2>4
      <4>7. Len(d) >= Len(extent) + 3
        BY <1>1, <2>3, <3>3, <3>5
      <4>8. QED
        BY <2>3, <3>1, <3>5, <4>5, <4>6, <4>7
    <3>6. Len(d) >= Len(w) + 2 /\ (calls = 1 => Len(d) = Len(w) + 2)
      BY <1>1, <2>1, <2>2, <3>1, <3>3
    <3>7. calls # 0
      BY <1>6
    <3>8. QED
      BY <1>1, <1>4, <2>1, <3>3, <3>4, <3>5, <3>6, <3>7 DEF BatchShape, Behind, d, w
  <2>5. CASE ~ added
    <3>1. d = written /\ w = ButFirst(extent) /\ Len(extent) > 0
      BY <1>1, <1>2, <1>3, <2>5
    <3>2. /\ Len(w) = Len(extent) - 1
          /\ \A i \in 1 .. Len(extent) - 1 : w[i] = extent[i + 1]
      BY <1>1, <3>1, FirstLeft
    <3>3. ASSUME NEW i \in 1 .. Len(w)
          PROVE  i + 2 <= Len(d) /\ d[i + 2].kind = "inst" /\ d[i + 2].inst = w[i]
      <4>1. /\ i + 1 \in 1 .. Len(extent) /\ (i + 1) + 1 = i + 2 /\ i + 2 <= Len(d)
            /\ i \in 1 .. Len(extent) - 1
        BY <1>1, <2>1, <3>1, <3>2
      <4>2. QED
        BY <2>1, <3>1, <3>2, <4>1
    <3>4. Len(d) >= Len(w) + 2 /\ (calls = 1 => Len(d) = Len(w) + 2) /\ Len(d) \in Nat
      BY <1>1, <2>1, <2>2, <3>1, <3>2
    <3>5. calls = 2 => Len(d) >= Len(w) + 3 /\ d[Len(w) + 3].kind = "end"
      <4>1. Len(w) + 3 = Len(extent) + 2
        BY <1>1, <3>2
      <4>2. QED
        BY <2>3, <3>1, <4>1
    <3>6. calls # 0
      BY <1>6
    <3>7. QED
      BY <1>1, <1>4, <2>1, <3>1, <3>3, <3>4, <3>5, <3>6 DEF BatchShape, Behind, d, w
  <2>6. QED
    BY <2>4, <2>5
<1>7. QED
  BY <1>1, <1>5, <1>6

-----------------------------------------------------------------------------
(* The readers, on a file that holds L instructions in that way.           *)
Holds(L) ==
  /\ file.newline = TRUE
  /\ Len(file.lines) \in Nat
  /\ Len(file.lines) > 0 => file.lines[1] = "start"
  /\ \A i \in 1 .. L : i + 2 <= Len(file.lines) /\ file.lines[i + 2] = "inst"

CallHolds(L) ==
  /\ Holds(L)
  /\ Len(file.lines) >= 2 => L = Len(file.lines) - 2
  /\ Len(file.lines) < 2 => L = 0

BatchHolds(c, L) ==
  /\ Holds(L)
  /\ c = 0 => Len(file.lines) = 0
  /\ c > 0 => Len(file.lines) >= L + 2
  /\ c = 1 => Len(file.lines) = L + 2
  /\ c = 2 => Len(file.lines) >= L + 3 /\ file.lines[L + 3] = "end"

(* QIF's stream when line n has been asked for.                            *)
StreamAt(n) ==
  IF n <= Len(file.lines)
  THEN [pos |-> n, good |-> TRUE, line |-> n]
  ELSE [pos |-> Len(file.lines), good |-> FALSE, line |-> 0]

CallRead(L) ==
  /\ qifAt \in {"headers", "body", "done", "crashed"}
  /\ qifList \in Seq(Nat) /\ Len(qifList) <= L
  /\ \A i \in 1 .. Len(qifList) : qifList[i] = i + 2
  /\ qifAt = "headers" => Len(qifList) = 0 /\ qifIn \in {StreamAt(1), StreamAt(3)}
  /\ qifAt = "body" => qifIn = StreamAt(Len(qifList) + 3)
  /\ qifAt = "done" => Len(qifList) = L

LEMMA GetLineEnd ==
  ASSUME NEW f, NEW s, s.good = TRUE, s.pos = Len(f.lines)
  PROVE  GetLine(f, s) = [pos |-> Len(f.lines), good |-> FALSE, line |-> 0]
BY Zenon DEF GetLine

LEMMA GetLineNext ==
  ASSUME NEW f, NEW s, NEW p, s.good = TRUE, s.pos = p, p # Len(f.lines), f.newline = TRUE
  PROVE  GetLine(f, s) = [pos |-> p + 1, good |-> TRUE, line |-> p + 1]
<1>1. (s.pos + 1 < Len(f.lines) \/ f.newline) = TRUE
  BY Zenon
<1>2. QED
  BY <1>1, Zenon DEF GetLine

LEMMA NextLine ==
  ASSUME NEW L \in Nat, Holds(L), NEW n \in Nat, n > 0
  PROVE  /\ GetLine(file, StreamAt(n)) = StreamAt(n + 1)
         /\ n <= Len(file.lines) =>
              StreamAt(n).good /\ StreamAt(n).line = n /\ Kind(file, StreamAt(n).line) = file.lines[n]
         /\ n > Len(file.lines) =>
              ~ StreamAt(n).good /\ Kind(file, StreamAt(n).line) = "empty"
<1>1. Len(file.lines) \in Nat /\ file.newline = TRUE
  BY DEF Holds
<1>2. CASE n <= Len(file.lines)
  <2>1. StreamAt(n) = [pos |-> n, good |-> TRUE, line |-> n]
    BY <1>2 DEF StreamAt
  <2>2. StreamAt(n).good = TRUE /\ StreamAt(n).pos = n /\ StreamAt(n).line = n
    BY <2>1
  <2>3. ASSUME n = Len(file.lines)
        PROVE  GetLine(file, StreamAt(n)) = StreamAt(n + 1)
    <3>1. GetLine(file, StreamAt(n)) = [pos |-> Len(file.lines), good |-> FALSE, line |-> 0]
      BY <2>2, <2>3, GetLineEnd, Zenon
    <3>2. StreamAt(n + 1) = [pos |-> Len(file.lines), good |-> FALSE, line |-> 0]
      BY <1>1, <2>3 DEF StreamAt
    <3>3. QED
      BY <3>1, <3>2, Zenon
  <2>4. ASSUME n # Len(file.lines)
        PROVE  GetLine(file, StreamAt(n)) = StreamAt(n + 1)
    <3>1. GetLine(file, StreamAt(n)) = [pos |-> n + 1, good |-> TRUE, line |-> n + 1]
      BY <1>1, <2>2, <2>4, GetLineNext, Zenon
    <3>2. StreamAt(n + 1) = [pos |-> n + 1, good |-> TRUE, line |-> n + 1]
      BY <1>1, <1>2, <2>4 DEF StreamAt
    <3>3. QED
      BY <3>1, <3>2, Zenon
  <2>5. Kind(file, n) = file.lines[n]
    BY DEF Kind
  <2>6. ~ (n > Len(file.lines))
    BY <1>1, <1>2
  <2>7. QED
    BY <2>2, <2>3, <2>4, <2>5, <2>6, Zenon
<1>3. CASE n > Len(file.lines)
  <2>1. StreamAt(n) = [pos |-> Len(file.lines), good |-> FALSE, line |-> 0]
    BY <1>1, <1>3 DEF StreamAt
  <2>2. StreamAt(n + 1) = [pos |-> Len(file.lines), good |-> FALSE, line |-> 0]
    BY <1>1, <1>3 DEF StreamAt
  <2>3. StreamAt(n).good = FALSE /\ StreamAt(n).line = 0
    BY <2>1
  <2>4. GetLine(file, StreamAt(n)) = StreamAt(n + 1)
    BY <2>1, <2>2, <2>3, Zenon DEF GetLine
  <2>5. Kind(file, 0) = "empty"
    BY DEF Kind
  <2>6. ~ (n <= Len(file.lines))
    BY <1>1, <1>3
  <2>7. QED
    BY <2>3, <2>4, <2>5, <2>6, Zenon
<1>4. QED
  BY <1>1, <1>2, <1>3

LEMMA FirstLine ==
  ASSUME NEW f, Len(f.lines) \in Nat, f.newline = TRUE
  PROVE  GetLine(f, Opened) =
           IF 1 <= Len(f.lines)
           THEN [pos |-> 1, good |-> TRUE, line |-> 1]
           ELSE [pos |-> Len(f.lines), good |-> FALSE, line |-> 0]
<1>1. Opened.good = TRUE /\ Opened.pos = 0 /\ 0 + 1 = 1
  BY DEF Opened
<1>2. CASE Len(f.lines) = 0
  <2>1. GetLine(f, Opened) = [pos |-> Len(f.lines), good |-> FALSE, line |-> 0]
    BY <1>1, <1>2, GetLineEnd, Zenon
  <2>2. ~ (1 <= Len(f.lines))
    BY <1>2
  <2>3. QED
    BY <2>1, <2>2, Zenon
<1>3. CASE Len(f.lines) # 0
  <2>1. GetLine(f, Opened) = [pos |-> 0 + 1, good |-> TRUE, line |-> 0 + 1]
    BY <1>1, <1>3, GetLineNext, Zenon
  <2>2. 1 <= Len(f.lines)
    BY <1>3
  <2>3. QED
    BY <1>1, <2>1, <2>2, Zenon
<1>4. QED
  BY <1>2, <1>3

LEMMA CallReadKeeps ==
  ASSUME NEW L \in Nat, CallHolds(L), CallRead(L), limits = <<NoLimit>>, pass = 1,
         QifStep \/ UNCHANGED qifVars
  PROVE  CallRead(L)' /\ UNCHANGED <<limits, pass, file>>
<1>1. /\ Holds(L) /\ Len(file.lines) \in Nat
      /\ Len(file.lines) >= 2 => L = Len(file.lines) - 2
      /\ Len(file.lines) < 2 => L = 0
      /\ \A i \in 1 .. L : i + 2 <= Len(file.lines) /\ file.lines[i + 2] = "inst"
  BY DEF CallHolds, Holds
<1>2. Limit = NoLimit
  BY DEF Limit
<1>3. /\ qifList \in Seq(Nat) /\ Len(qifList) <= L /\ Len(qifList) \in Nat
      /\ \A i \in 1 .. Len(qifList) : qifList[i] = i + 2
  BY DEF CallRead
<1>4. ASSUME qifAt = "headers", Kind(file, qifIn.line) = "start"
      PROVE  qifIn = StreamAt(1)
  <2> SUFFICES ASSUME qifIn = StreamAt(3) PROVE FALSE
    BY <1>4 DEF CallRead
  <2>1. CASE 3 <= Len(file.lines)
    <3>1. 1 \in 1 .. L
      BY <1>1, <2>1
    <3>2. file.lines[1 + 2] = "inst"
      BY <1>1, <3>1
    <3>3. Kind(file, StreamAt(3).line) = file.lines[3]
      <4>1. 3 \in Nat /\ 3 > 0
        OBVIOUS
      <4>2. QED
        BY <1>1, <2>1, <4>1, NextLine, Zenon
    <3>4. QED
      BY <1>4, <3>2, <3>3
  <2>2. CASE 3 > Len(file.lines)
    <3>1. 3 \in Nat /\ 3 > 0
      OBVIOUS
    <3>2. Kind(file, StreamAt(3).line) = "empty"
      BY <1>1, <2>2, <3>1, NextLine, Zenon
    <3>3. QED
      BY <1>4, <3>2
  <2>3. QED
    BY <1>1, <2>1, <2>2
<1>5. ASSUME qifAt = "headers", Kind(file, qifIn.line) # "start"
      PROVE  qifIn = StreamAt(3)
  <2> SUFFICES ASSUME qifIn = StreamAt(1) PROVE StreamAt(1) = StreamAt(3)
    BY <1>5 DEF CallRead
  <2>1. CASE Len(file.lines) > 0
    <3>1. file.lines[1] = "start" /\ 1 <= Len(file.lines)
      BY <1>1, <2>1 DEF Holds
    <3>2. Kind(file, StreamAt(1).line) = file.lines[1]
      <4>1. 1 \in Nat /\ 1 > 0
        OBVIOUS
      <4>2. QED
        BY <1>1, <3>1, <4>1, NextLine, Zenon
    <3>3. QED
      BY <1>5, <3>1, <3>2
  <2>2. CASE Len(file.lines) = 0
    BY <2>2 DEF StreamAt
  <2>3. QED
    BY <1>1, <2>1, <2>2
<1>6. ASSUME qifAt = "body"
      PROVE  /\ qifIn = StreamAt(Len(qifList) + 3)
             /\ Len(qifList) < L => /\ qifIn.good /\ qifIn.line = Len(qifList) + 3
                                    /\ Kind(file, qifIn.line) = "inst"
             /\ Len(qifList) = L => ~ qifIn.good
  <2> DEFINE n == Len(qifList) + 3
  <2>1. n \in Nat /\ n > 0 /\ qifIn = StreamAt(n)
    BY <1>3, <1>6 DEF CallRead
  <2>2. ASSUME Len(qifList) < L
        PROVE  n <= Len(file.lines) /\ file.lines[n] = "inst"
    <3>1. n - 2 \in 1 .. L /\ (n - 2) + 2 = n
      BY <1>3, <2>2
    <3>2. QED
      BY <1>1, <3>1
  <2>3. Len(qifList) = L => n > Len(file.lines)
    <3>1. CASE Len(file.lines) >= 2
      BY <1>1, <3>1
    <3>2. CASE Len(file.lines) < 2
      BY <1>1, <3>2
    <3>3. QED
      BY <1>1, <3>1, <3>2
  <2> HIDE DEF n
  <2>4. n <= Len(file.lines) =>
          StreamAt(n).good /\ StreamAt(n).line = n /\ Kind(file, StreamAt(n).line) = file.lines[n]
    BY <1>1, <2>1, NextLine
  <2>5. n > Len(file.lines) => ~ StreamAt(n).good
    BY <1>1, <2>1, NextLine
  <2>6. QED
    BY <2>1, <2>2, <2>3, <2>4, <2>5 DEF n
<1>7. CASE UNCHANGED qifVars
  BY <1>7 DEF qifVars, CallRead, StreamAt
<1>8. CASE QifHeader
  <2>1. /\ qifAt = "headers" /\ Kind(file, qifIn.line) = "start"
        /\ qifIn' = GetLine(file, GetLine(file, qifIn))
        /\ UNCHANGED <<limits, file, qifList, pass, qifAt>>
    BY <1>8 DEF QifHeader
  <2>2. qifIn = StreamAt(1)
    BY <1>4, <2>1
  <2>3. GetLine(file, StreamAt(1)) = StreamAt(1 + 1) /\ GetLine(file, StreamAt(2)) = StreamAt(2 + 1)
    BY <1>1, NextLine
  <2>4. qifIn' = StreamAt(3)
    BY <2>1, <2>2, <2>3
  <2>5. StreamAt(3)' = StreamAt(3)
    BY <2>1 DEF StreamAt
  <2>6. QED
    BY <1>3, <2>1, <2>4, <2>5 DEF CallRead
<1>9. CASE KeyUnreadable
  BY <1>3, <1>9 DEF KeyUnreadable, CallRead
<1>10. CASE HeadersEnd
  <2>1. /\ qifAt = "headers" /\ Kind(file, qifIn.line) # "start" /\ qifAt' = "body"
        /\ UNCHANGED <<limits, file, qifIn, qifList, pass>>
    BY <1>10 DEF HeadersEnd
  <2>2. qifIn = StreamAt(3)
    BY <1>5, <2>1
  <2>3. Len(qifList) = 0 /\ Len(qifList) + 3 = 3
    BY <2>1 DEF CallRead
  <2>4. StreamAt(3)' = StreamAt(3)
    BY <2>1 DEF StreamAt
  <2>5. qifIn' = StreamAt(Len(qifList) + 3)'
    BY <2>1, <2>2, <2>3, <2>4
  <2>6. QED
    BY <1>3, <2>1, <2>5 DEF CallRead
<1>11. CASE BodyEnds
  <2>1. /\ qifAt = "body" /\ (~ qifIn.good \/ Kind(file, qifIn.line) \in {"empty", "end"})
        /\ qifAt' = "done" /\ UNCHANGED <<limits, file, qifIn, qifList, pass>>
    BY <1>11 DEF BodyEnds
  <2>2. ~ (Len(qifList) < L)
    BY <1>6, <2>1
  <2>3. Len(qifList) = L
    BY <1>3, <2>2
  <2>4. QED
    BY <1>3, <2>1, <2>3 DEF CallRead
<1>12. CASE QifInstruction
  <2>1. /\ qifAt = "body" /\ qifIn.good /\ qifList' = Append(qifList, qifIn.line)
        /\ UNCHANGED <<limits, file, pass>>
        /\ qifAt' = qifAt /\ qifIn' = GetLine(file, qifIn)
    BY <1>2, <1>12 DEF QifInstruction, InBody, AfterPush
  <2>2. Len(qifList) < L
    BY <1>3, <1>6, <2>1
  <2>3. qifIn = StreamAt(Len(qifList) + 3) /\ qifIn.line = Len(qifList) + 3
    BY <1>6, <2>1, <2>2
  <2>4. /\ qifList' \in Seq(Nat) /\ Len(qifList') = Len(qifList) + 1
        /\ qifList'[Len(qifList) + 1] = Len(qifList) + 3
        /\ \A i \in 1 .. Len(qifList) : qifList'[i] = qifList[i]
    BY <1>3, <2>1, <2>3
  <2>5. \A i \in 1 .. Len(qifList') : qifList'[i] = i + 2
    <3> SUFFICES ASSUME NEW i \in 1 .. Len(qifList') PROVE qifList'[i] = i + 2
      OBVIOUS
    <3>1. CASE i = Len(qifList) + 1
      BY <1>3, <2>4, <3>1
    <3>2. CASE i # Len(qifList) + 1
      <4>1. i \in 1 .. Len(qifList)
        BY <1>3, <2>4, <3>2
      <4>2. QED
        BY <1>3, <2>4, <4>1
    <3>3. QED
      BY <3>1, <3>2
  <2>6. qifIn' = StreamAt(Len(qifList') + 3)
    <3> DEFINE n == Len(qifList) + 3
    <3>1. n \in Nat /\ n > 0 /\ n + 1 = Len(qifList') + 3
      BY <1>3, <2>4
    <3>2. GetLine(file, StreamAt(n)) = StreamAt(n + 1)
      BY <1>1, <3>1, NextLine
    <3>3. QED
      BY <2>1, <2>3, <3>1, <3>2
  <2>7. qifIn' = StreamAt(Len(qifList) + 3)'
    BY <2>1, <2>6 DEF StreamAt
  <2>8. Len(qifList') <= L
    BY <1>3, <2>2, <2>4
  <2>9. QED
    BY <2>1, <2>4, <2>5, <2>7, <2>8 DEF CallRead
<1>13. CASE LibcCall \/ Malloc
  <2>1. qifAt = "body" /\ qifIn.good /\ Kind(file, qifIn.line) \in {"libc", "malloc"}
    BY <1>13 DEF LibcCall, Malloc, InBody
  <2>2. Len(qifList) < L
    BY <1>3, <1>6, <2>1
  <2>3. QED
    BY <1>6, <2>1, <2>2
<1>14. CASE ReadAgain
  <2>1. 1 < Len(limits) /\ Len(limits) = 1
    BY <1>14 DEF ReadAgain
  <2>2. QED
    BY <2>1
<1>15. QED
  BY <1>7, <1>8, <1>9, <1>10, <1>11, <1>12, <1>13, <1>14 DEF QifStep

(* CryptoHunt's vector: a batch's instructions, until its END is met.      *)
BatchRead(c, L) ==
  /\ driver \in Driver
  /\ in \in Stream
  /\ list \in Seq([line : Nat, id : Nat])
  /\ id \in Nat
  /\ call \in [max : Nat, num : Nat, count : Nat]
  /\ at \in {"caller", "parse", "stop", "full"}
  /\ \A i \in 1 .. Len(list) : list[i].line = i + 2
  /\ c = 0 => in.pos = 0 /\ in.line = 0 /\ at # "stop"
  /\ (c > 0 /\ at # "stop") =>
       \/ in.pos = 0 /\ Len(list) = 0
       \/ in.pos \in 2 .. L + 2 /\ Len(list) = in.pos - 2
  /\ (c > 0 /\ at = "stop") => Len(list) = L

(* What parse_trace finds behind the position of the stream.               *)
LEMMA BatchLine ==
  ASSUME NEW c \in 0 .. 2, NEW L \in Nat, BatchHolds(c, L), in \in Stream, in.good,
         NEW s, s = GetLine(file, in)
  PROVE  /\ c = 0 /\ in.pos = 0 => s.pos = 0 /\ s.line = 0
         /\ c > 0 /\ in.pos = 0 =>
              /\ Kind(file, s.line) = "start"
              /\ GetLine(file, s) \in Stream /\ GetLine(file, s).pos = 2
         /\ c > 0 /\ in.pos \in 2 .. L + 1 =>
              Kind(file, s.line) = "inst" /\ s.line = in.pos + 1 /\ s.pos = in.pos + 1
         /\ c = 1 /\ in.pos = L + 2 => Kind(file, s.line) = "empty" /\ s.pos = in.pos
         /\ c = 2 /\ in.pos = L + 2 => Kind(file, s.line) = "end"
         /\ (c = 0 => in.pos = 0) /\ (c > 0 => in.pos = 0 \/ in.pos \in 2 .. L + 2) => s \in Stream
<1>1. Len(file.lines) \in Nat /\ file.newline = TRUE
  BY DEF BatchHolds, Holds
<1>2. in.good = TRUE /\ in.pos \in Nat
  BY DEF Stream
<1>3. ASSUME in.pos = Len(file.lines)
      PROVE  /\ s.pos = in.pos /\ s.line = 0 /\ s \in Stream
             /\ Kind(file, s.line) = "empty"
  <2>1. s = [pos |-> Len(file.lines), good |-> FALSE, line |-> 0]
    BY <1>2, <1>3, GetLineEnd, Zenon
  <2>2. s.pos = Len(file.lines) /\ s.line = 0 /\ s \in Stream
    BY <1>1, <2>1 DEF Stream
  <2>3. QED
    BY <1>3, <2>2 DEF Kind
<1>4. ASSUME in.pos # Len(file.lines)
      PROVE  /\ s.pos = in.pos + 1 /\ s.line = in.pos + 1 /\ s \in Stream /\ s.good = TRUE
             /\ Kind(file, s.line) = file.lines[in.pos + 1]
  <2>1. s = [pos |-> in.pos + 1, good |-> TRUE, line |-> in.pos + 1]
    BY <1>1, <1>2, <1>4, GetLineNext, Zenon
  <2>2. s.pos = in.pos + 1 /\ s.line = in.pos + 1 /\ s \in Stream /\ s.good = TRUE
    BY <1>2, <2>1 DEF Stream
  <2>3. in.pos + 1 # 0
    BY <1>2
  <2>4. QED
    BY <2>2, <2>3 DEF Kind
<1>5. /\ c = 0 => Len(file.lines) = 0
      /\ c > 0 => Len(file.lines) >= L + 2
      /\ c = 1 => Len(file.lines) = L + 2
      /\ c = 2 => Len(file.lines) >= L + 3 /\ file.lines[L + 3] = "end"
      /\ Len(file.lines) > 0 => file.lines[1] = "start"
      /\ \A i \in 1 .. L : i + 2 <= Len(file.lines) /\ file.lines[i + 2] = "inst"
  BY DEF BatchHolds, Holds
<1>6. c = 0 /\ in.pos = 0 => s.pos = 0 /\ s.line = 0
  BY <1>3, <1>5
<1>7. ASSUME c > 0, in.pos = 0
      PROVE  /\ Kind(file, s.line) = "start"
             /\ GetLine(file, s) \in Stream /\ GetLine(file, s).pos = 2
  <2>1. in.pos # Len(file.lines) /\ 1 # Len(file.lines) /\ Len(file.lines) > 0
    BY <1>1, <1>5, <1>7
  <2>2. s.pos = 1 /\ s.good = TRUE /\ Kind(file, s.line) = file.lines[1]
    <3>1. in.pos + 1 = 1
      BY <1>7
    <3>2. QED
      BY <1>4, <2>1, <3>1
  <2>3. GetLine(file, s) = [pos |-> 1 + 1, good |-> TRUE, line |-> 1 + 1]
    BY <1>1, <2>1, <2>2, GetLineNext, Zenon
  <2>4. QED
    BY <1>5, <2>1, <2>2, <2>3 DEF Stream
<1>8. ASSUME c > 0, in.pos \in 2 .. L + 1
      PROVE  Kind(file, s.line) = "inst" /\ s.line = in.pos + 1 /\ s.pos = in.pos + 1
  <2>1. in.pos - 1 \in 1 .. L /\ (in.pos - 1) + 2 = in.pos + 1
    BY <1>2, <1>8
  <2>2. file.lines[in.pos + 1] = "inst" /\ in.pos + 1 <= Len(file.lines)
    BY <1>5, <2>1
  <2>3. in.pos # Len(file.lines)
    BY <1>1, <1>2, <2>2
  <2>4. QED
    BY <1>4, <2>2, <2>3
<1>9. c = 1 /\ in.pos = L + 2 => Kind(file, s.line) = "empty" /\ s.pos = in.pos
  BY <1>3, <1>5
<1>10. ASSUME c = 2, in.pos = L + 2
       PROVE  Kind(file, s.line) = "end"
  <2>1. in.pos # Len(file.lines) /\ in.pos + 1 = L + 3
    BY <1>1, <1>5, <1>10
  <2>2. QED
    BY <1>4, <1>5, <1>10, <2>1
<1>11. QED
  BY <1>3, <1>4, <1>6, <1>7, <1>8, <1>9, <1>10

LEMMA BatchReadKeeps ==
  ASSUME NEW c \in 0 .. 2, NEW L \in Nat, BatchHolds(c, L), BatchRead(c, L),
         Step \/ UNCHANGED vars
  PROVE  BatchRead(c, L)' /\ UNCHANGED file
<1>1. /\ driver \in Driver /\ in \in Stream /\ id \in Nat
      /\ list \in Seq([line : Nat, id : Nat])
      /\ call \in [max : Nat, num : Nat, count : Nat]
      /\ at \in {"caller", "parse", "stop", "full"}
      /\ \A i \in 1 .. Len(list) : list[i].line = i + 2
      /\ in.pos \in Nat /\ Len(list) \in Nat
  BY DEF BatchRead, Stream
<1>2. /\ c = 0 => in.pos = 0 /\ in.line = 0
      /\ at = "parse" /\ c > 0 =>
           \/ in.pos = 0 /\ Len(list) = 0
           \/ in.pos \in 2 .. L + 2 /\ Len(list) = in.pos - 2
  BY DEF BatchRead
<1>3. CASE UNCHANGED vars
  BY <1>3 DEF vars, BatchRead
<1> DEFINE s == GetLine(file, in)
<1>4. ASSUME in.good, at = "parse"
      PROVE  /\ s \in Stream
             /\ c = 0 => s.pos = 0 /\ s.line = 0
             /\ c > 0 /\ in.pos = 0 =>
                  /\ Kind(file, s.line) = "start"
                  /\ GetLine(file, s) \in Stream /\ GetLine(file, s).pos = 2
             /\ c > 0 /\ in.pos \in 2 .. L + 1 =>
                  Kind(file, s.line) = "inst" /\ s.line = in.pos + 1 /\ s.pos = in.pos + 1
             /\ c = 1 /\ in.pos = L + 2 => Kind(file, s.line) = "empty" /\ s.pos = in.pos
             /\ c = 2 /\ in.pos = L + 2 => Kind(file, s.line) = "end"
  <2> HIDE DEF s
  <2>1. s = GetLine(file, in)
    BY DEF s
  <2>2. (c = 0 => in.pos = 0) /\ (c > 0 => in.pos = 0 \/ in.pos \in 2 .. L + 2)
    BY <1>2, <1>4
  <2>3. QED
    BY <1>1, <1>2, <1>4, <2>1, <2>2, BatchLine
<1>5. Kind(file, 0) = "empty"
  BY DEF Kind
<1>6. ASSUME NEW n \in Nat PROVE n % IdSpace \in Nat
  <2>1. IdSpace \in Nat /\ IdSpace > 0
    BY IdAssumption
  <2>2. QED
    BY <2>1
<1> HIDE DEF s
<1>7. CASE CallAgain
  <2>1. /\ at = "caller" /\ at' = "parse" /\ UNCHANGED <<driver, file, in, list>>
        /\ id' = (id + driver.batch) % IdSpace
        /\ call' = [max |-> driver.batch, num |-> IF driver.idFirst THEN id' ELSE id, count |-> 1]
    BY <1>7 DEF CallAgain
  <2>2. driver.batch \in Nat
    BY <1>1 DEF Driver
  <2>3. id' \in Nat
    <3>1. id + driver.batch \in Nat
      BY <1>1, <2>2
    <3>2. QED
      BY <1>6, <2>1, <3>1
  <2>4. call' \in [max : Nat, num : Nat, count : Nat]
    <3>1. (IF driver.idFirst THEN id' ELSE id) \in Nat
      BY <1>1, <2>3
    <3>2. QED
      BY <2>1, <2>2, <3>1
  <2>5. QED
    BY <2>1, <2>3, <2>4 DEF BatchRead
<1>8. CASE Header
  <2>1. /\ at = "parse" /\ in.good /\ Kind(file, s.line) = "start"
        /\ in' = GetLine(file, s) /\ at' = "caller"
        /\ UNCHANGED <<driver, file, list, id, call>>
    BY <1>8 DEF Header, Parsing, s
  <2>2. c > 0 /\ in.pos = 0 /\ Len(list) = 0
    <3>1. c # 0
      BY <1>4, <1>5, <2>1
    <3>2. CASE in.pos \in 2 .. L + 1
      BY <1>4, <2>1, <3>1, <3>2
    <3>3. CASE in.pos = L + 2
      BY <1>4, <2>1, <3>1, <3>3
    <3>4. in.pos \in 2 .. L + 2 => in.pos \in 2 .. L + 1 \/ in.pos = L + 2
      OBVIOUS
    <3>5. QED
      BY <1>2, <2>1, <3>1, <3>2, <3>3, <3>4
  <2>3. in' \in Stream /\ in'.pos = 2
    BY <1>4, <2>1, <2>2
  <2>4. 2 \in 2 .. L + 2 /\ Len(list) = 2 - 2
    BY <2>2
  <2>5. c # 0
    BY <2>2
  <2>6. QED
    BY <1>1, <2>1, <2>3, <2>4, <2>5 DEF BatchRead
<1>9. CASE EmptyLine
  <2>1. /\ at = "parse" /\ in.good /\ in' = s /\ Kind(file, s.line) = "empty"
        /\ at' = IF in'.good THEN "full" ELSE "caller"
        /\ UNCHANGED <<driver, file, list, id, call>>
    BY <1>9 DEF EmptyLine, Parsing, s
  <2>2. at' \in {"full", "caller"}
    BY <2>1
  <2>3. CASE c = 0
    <3>1. in'.pos = 0 /\ in'.line = 0 /\ in' \in Stream
      BY <1>4, <2>1, <2>3
    <3>2. ~ (c > 0)
      BY <2>3
    <3>3. QED
      BY <1>1, <2>1, <2>2, <3>1, <3>2 DEF BatchRead
  <2>4. CASE c > 0
    <3>1. ~ (in.pos = 0) /\ ~ (in.pos \in 2 .. L + 1)
      BY <1>4, <2>1, <2>4
    <3>2. in.pos = L + 2 /\ in.pos \in 2 .. L + 2 /\ Len(list) = in.pos - 2
      BY <1>2, <2>1, <2>4, <3>1
    <3>3. c = 1
      BY <1>4, <2>1, <2>4, <3>2
    <3>4. in'.pos = in.pos /\ in' \in Stream
      BY <1>4, <2>1, <3>2, <3>3
    <3>5. c # 0
      BY <2>4
    <3>6. QED
      BY <1>1, <2>1, <2>2, <3>2, <3>4, <3>5 DEF BatchRead
  <2>5. QED
    BY <2>3, <2>4
<1>10. CASE EndLine
  <2>1. /\ at = "parse" /\ in.good /\ in' = s /\ Kind(file, s.line) = "end" /\ at' = "stop"
        /\ UNCHANGED <<driver, file, list, id, call>>
    BY <1>10 DEF EndLine, Parsing, s
  <2>2. c # 0 /\ c > 0
    BY <1>4, <1>5, <2>1
  <2>3. ~ (in.pos = 0) /\ ~ (in.pos \in 2 .. L + 1)
    BY <1>4, <2>1, <2>2
  <2>4. in.pos = L + 2 /\ Len(list) = in.pos - 2
    BY <1>2, <2>1, <2>2, <2>3
  <2>5. Len(list) = L
    BY <2>4
  <2>6. in' \in Stream
    BY <1>4, <2>1
  <2>7. QED
    BY <1>1, <2>1, <2>2, <2>5, <2>6 DEF BatchRead
<1>11. CASE Instruction
  <2>1. /\ at = "parse" /\ in.good /\ in' = s
        /\ Kind(file, s.line) \notin {"start", "empty", "end"}
        /\ list' = Append(list, [line |-> s.line, id |-> call.num])
        /\ call' = [call EXCEPT !.num = (@ + 1) % IdSpace, !.count = @ + 1]
        /\ UNCHANGED <<driver, file, id, at>>
    BY <1>11 DEF Instruction, Parsing, s
  <2>2. c # 0 /\ c > 0
    BY <1>4, <1>5, <2>1
  <2>3. ~ (in.pos = 0) /\ ~ (in.pos = L + 2)
    BY <1>4, <2>1, <2>2
  <2>4. in.pos \in 2 .. L + 1 /\ Len(list) = in.pos - 2
    BY <1>2, <2>1, <2>2, <2>3
  <2>5. s.line = in.pos + 1 /\ s.pos = in.pos + 1 /\ s \in Stream
    BY <1>4, <2>1, <2>2, <2>4
  <2>6. call' \in [max : Nat, num : Nat, count : Nat]
    <3>1. call.num \in Nat /\ call.count \in Nat
      BY <1>1
    <3>2. (call.num + 1) % IdSpace \in Nat /\ call.count + 1 \in Nat
      BY <1>6, <3>1
    <3>3. QED
      BY <1>1, <2>1, <3>2
  <2> DEFINE x == [line |-> s.line, id |-> call.num]
  <2>7. x \in [line : Nat, id : Nat] /\ x.line = Len(list) + 3
    <3>1. call.num \in Nat /\ s.line \in Nat /\ s.line = Len(list) + 3
      BY <1>1, <2>4, <2>5
    <3>2. QED
      BY <3>1
  <2> HIDE DEF x
  <2>8. /\ list' \in Seq([line : Nat, id : Nat]) /\ Len(list') = Len(list) + 1
        /\ list'[Len(list) + 1] = x
        /\ \A i \in 1 .. Len(list) : list'[i] = list[i]
    BY <1>1, <2>1, <2>7 DEF x
  <2>9. \A i \in 1 .. Len(list') : list'[i].line = i + 2
    <3> SUFFICES ASSUME NEW i \in 1 .. Len(list') PROVE list'[i].line = i + 2
      OBVIOUS
    <3>1. CASE i = Len(list) + 1
      <4>1. Len(list) + 3 = i + 2
        BY <1>1, <3>1
      <4>2. QED
        BY <2>7, <2>8, <3>1, <4>1
    <3>2. CASE i # Len(list) + 1
      <4>1. i \in 1 .. Len(list)
        BY <1>1, <2>8, <3>2
      <4>2. QED
        BY <1>1, <2>8, <4>1
    <3>3. QED
      BY <3>1, <3>2
  <2>10. in'.pos \in 2 .. L + 2 /\ Len(list') = in'.pos - 2 /\ in' \in Stream
    <3>1. in'.pos = in.pos + 1 /\ in' \in Stream
      BY <2>1, <2>5
    <3>2. in.pos + 1 \in 2 .. L + 2
      BY <1>1, <2>4, SMTT(20)
    <3>3. Len(list') = (in.pos + 1) - 2
      <4>1. in.pos \in Nat /\ Len(list) = in.pos - 2
        BY <1>1, <2>4
      <4>2. Len(list') = Len(list) + 1
        BY <2>8
      <4>3. QED
        BY <4>1, <4>2
    <3>4. QED
      BY <3>1, <3>2, <3>3
  <2>11. QED
    BY <1>1, <2>1, <2>2, <2>6, <2>8, <2>9, <2>10 DEF BatchRead
<1>12. CASE CallReturns
  <2>1. /\ at = "parse" /\ at' = (IF in.good THEN "full" ELSE "caller")
        /\ UNCHANGED <<driver, file, in, list, id, call>>
    BY <1>12 DEF CallReturns
  <2>2. at' \in {"full", "caller"}
    BY <2>1
  <2>3. QED
    BY <1>1, <1>2, <2>1, <2>2 DEF BatchRead
<1>13. QED
  BY <1>3, <1>7, <1>8, <1>9, <1>10, <1>11, <1>12 DEF Step

-----------------------------------------------------------------------------
(* From the program to the vectors.                                        *)
FileIs(d) ==
  /\ file.newline = TRUE
  /\ Len(file.lines) = Len(d)
  /\ \A n \in 1 .. Len(d) : file.lines[n] = d[n].kind

LEMMA CallFile ==
  ASSUME NEW d, NEW w, CallShape(d, w), FileIs(d)
  PROVE  CallHolds(Len(w))
<1>1. /\ Len(d) \in Nat /\ Len(w) \in Nat
      /\ Len(d) > 0 => d[1].kind = "start"
      /\ \A i \in 1 .. Len(w) : i + 2 <= Len(d) /\ d[i + 2].kind = "inst"
      /\ Len(d) >= 2 => Len(w) = Len(d) - 2
      /\ Len(d) < 2 => Len(w) = 0
  BY DEF CallShape, Behind
<1>2. \A i \in 1 .. Len(w) : i + 2 <= Len(file.lines) /\ file.lines[i + 2] = "inst"
  <2> SUFFICES ASSUME NEW i \in 1 .. Len(w)
               PROVE  i + 2 <= Len(file.lines) /\ file.lines[i + 2] = "inst"
    OBVIOUS
  <2>1. i + 2 \in 1 .. Len(d)
    BY <1>1
  <2>2. QED
    BY <1>1, <2>1 DEF FileIs
<1>3. Len(file.lines) > 0 => file.lines[1] = "start"
  BY <1>1 DEF FileIs
<1>4. QED
  BY <1>1, <1>2, <1>3 DEF FileIs, CallHolds, Holds

LEMMA BatchFile ==
  ASSUME NEW d, NEW w, BatchShape(d, w), FileIs(d)
  PROVE  BatchHolds(calls, Len(w)) /\ calls \in 0 .. 2
<1>1. /\ Len(d) \in Nat /\ Len(w) \in Nat /\ calls \in 0 .. 2
      /\ Len(d) > 0 => d[1].kind = "start"
      /\ \A i \in 1 .. Len(w) : i + 2 <= Len(d) /\ d[i + 2].kind = "inst"
      /\ calls = 0 => Len(d) = 0
      /\ calls > 0 => Len(d) >= Len(w) + 2
      /\ calls = 1 => Len(d) = Len(w) + 2
      /\ calls = 2 => Len(d) >= Len(w) + 3 /\ d[Len(w) + 3].kind = "end"
  BY DEF BatchShape, Behind
<1>2. \A i \in 1 .. Len(w) : i + 2 <= Len(file.lines) /\ file.lines[i + 2] = "inst"
  <2> SUFFICES ASSUME NEW i \in 1 .. Len(w)
               PROVE  i + 2 <= Len(file.lines) /\ file.lines[i + 2] = "inst"
    OBVIOUS
  <2>1. i + 2 \in 1 .. Len(d)
    BY <1>1
  <2>2. QED
    BY <1>1, <2>1 DEF FileIs
<1>3. Len(file.lines) > 0 => file.lines[1] = "start"
  BY <1>1 DEF FileIs
<1>4. calls = 2 => file.lines[Len(w) + 3] = "end"
  <2> SUFFICES ASSUME calls = 2 PROVE file.lines[Len(w) + 3] = "end"
    OBVIOUS
  <2>1. Len(w) + 3 \in 1 .. Len(d)
    BY <1>1
  <2>2. QED
    BY <1>1, <2>1 DEF FileIs
<1>5. Len(file.lines) = Len(d) /\ file.newline = TRUE
  BY DEF FileIs
<1>6. Holds(Len(w))
  BY <1>1, <1>2, <1>3, <1>5 DEF Holds
<1>7. QED
  BY <1>1, <1>4, <1>5, <1>6 DEF BatchHolds

(* Instructions on the lines behind the first two are those meant.         *)
LEMMA Loaded ==
  ASSUME NEW d, NEW w \in Seq(Nat), Behind(d, w), NEW lines, Len(lines) = Len(w),
         \A i \in 1 .. Len(w) : lines[i] = i + 2
  PROVE  [i \in 1 .. Len(lines) |-> d[lines[i]].inst] = w
<1> DEFINE r == [i \in 1 .. Len(w) |-> d[lines[i]].inst]
<1>1. \A i \in 1 .. Len(w) : d[lines[i]].inst = w[i]
  BY DEF Behind
<1>2. r = [i \in 1 .. Len(w) |-> w[i]]
  BY <1>1, Zenon
<1>3. w = [i \in 1 .. Len(w) |-> w[i]]
  OBVIOUS
<1>4. r = w
  BY <1>2, <1>3, Zenon
<1>5. QED
  BY <1>4

(* While the program runs nothing is read; then the file is what was       *)
(* delivered, and its reader is as far in it as its stream says.           *)
Untouched ==
  /\ tool \in Tools
  /\ BatchInv
  /\ in = Opened /\ list = <<>> /\ id = 1 /\ at = "parse"
  /\ call = [max |-> call.max, num |-> 1, count |-> 1]
  /\ qifAt = "unread" /\ qifList = <<>> /\ pass = 1

QifLoads ==
  tool = "qif" =>
    /\ limits \in LimitLists
    /\ pass \in 1 .. Len(limits)
    /\ (limits = <<NoLimit>> /\ ~ cut /\ ~ missed) =>
         /\ CallShape(Delivered(keyed), Meant(keyed)) /\ FileIs(Delivered(keyed))
         /\ CallRead(Len(Meant(keyed)))

BatchLoads ==
  (tool \in Batching /\ (keyed \/ extent # <<>>)) =>
    /\ BatchShape(Delivered(keyed), Meant(keyed)) /\ FileIs(Delivered(keyed))
    /\ BatchRead(calls, Len(Meant(keyed)))

LoadInv ==
  /\ ReadersInv
  /\ source \in {"given", "tracing", "traced"}
  /\ source = "tracing" => Untouched
  /\ source = "traced" =>
       /\ tool # "qif" => qifAt = "unread"
       /\ QifLoads
       /\ BatchLoads

LEMMA LoadStarts == ReadersInit => LoadInv
<1> SUFFICES ASSUME ReadersInit PROVE LoadInv
  OBVIOUS
<1>1. ReadersInv
  BY ReadersStart
<1>2. CASE Given
  BY <1>1, <1>2 DEF Given, LoadInv
<1>3. CASE ToTrace
  <2>1. source = "tracing" /\ TracerInit /\ tool \in Tools
    BY <1>3 DEF ToTrace, TracerInit
  <2>2. BatchInv
    BY <2>1, BatchStarts
  <2>3. call = [max |-> call.max, num |-> 1, count |-> 1]
    <3>1. call = [max |-> driver.first, num |-> 1, count |-> 1]
      BY <1>3 DEF ToTrace
    <3>2. call.max = driver.first
      BY <3>1
    <3>3. QED
      BY <3>1, <3>2
  <2>4. Untouched
    BY <1>3, <2>1, <2>2, <2>3 DEF ToTrace, ReadersInit, Untouched
  <2>5. QED
    BY <1>1, <2>1, <2>4 DEF LoadInv
<1>4. QED
  BY <1>2, <1>3 DEF ReadersInit

LEMMA SomeLimit ==
  ASSUME NEW l \in LimitLists
  PROVE  Len(l) \in Nat /\ 1 \in 1 .. Len(l)
<1>1. CASE l = <<NoLimit>>
  <2>1. Len(l) = 1
    BY <1>1
  <2>2. QED
    BY <2>1
<1>2. CASE l # <<NoLimit>>
  <2>1. l \in Seq(Nat) /\ l # <<>>
    BY <1>2, LimitsAssumption
  <2>2. QED
    BY <2>1
<1>3. QED
  BY <1>1, <1>2

(* No limit is the one limit of QIF.                                       *)
LEMMA OneReading ==
  ASSUME limits \in LimitLists, pass \in 1 .. Len(limits), Limit = NoLimit
  PROVE  limits = <<NoLimit>> /\ pass = 1
<1>1. CASE limits = <<NoLimit>>
  <2>1. Len(limits) = 1
    BY <1>1
  <2>2. QED
    BY <1>1, <2>1
<1>2. CASE limits # <<NoLimit>>
  <2>1. limits \in Seq(Nat)
    BY <1>2, LimitsAssumption
  <2>2. limits[pass] \in Nat
    BY <2>1
  <2>3. QED
    BY <2>2 DEF Limit, NoLimit
<1>3. QED
  BY <1>1, <1>2

LEMMA LoadGives == LoadInv => FirstCallLoaded
<1> SUFFICES ASSUME LoadInv, source = "traced"
             PROVE  /\ (qifAt = "done" /\ Limit = NoLimit /\ ~ cut /\ ~ missed) =>
                         InstructionsAt(qifList) = IF keyed THEN extent ELSE ButFirst(extent)
                    /\ (tool \in Batching /\ at = "stop" /\ (keyed \/ extent # <<>>)) =>
                         InstructionsAt([i \in 1 .. Len(list) |-> list[i].line])
                           = IF keyed THEN extent ELSE ButFirst(extent)
  BY DEF FirstCallLoaded
<1> DEFINE d == Delivered(keyed)
           w == Meant(keyed)
<1>1. w = IF keyed THEN extent ELSE ButFirst(extent)
  BY DEF Meant
<1>2. ASSUME qifAt = "done", Limit = NoLimit, ~ cut, ~ missed
      PROVE  InstructionsAt(qifList) = w
  <2>1. tool = "qif" /\ limits \in LimitLists /\ pass \in 1 .. Len(limits)
    BY <1>2 DEF LoadInv, QifLoads
  <2>2. limits = <<NoLimit>>
    BY <1>2, <2>1, OneReading
  <2>3. CallShape(d, w) /\ CallRead(Len(w))
    BY <1>2, <2>1, <2>2 DEF LoadInv, QifLoads
  <2> HIDE DEF d, w
  <2>4. w \in Seq(Nat) /\ Behind(d, w)
    BY <2>3 DEF CallShape
  <2>5. Len(qifList) = Len(w) /\ \A i \in 1 .. Len(w) : qifList[i] = i + 2
    BY <1>2, <2>3 DEF CallRead
  <2>6. [i \in 1 .. Len(qifList) |-> d[qifList[i]].inst] = w
    BY <2>4, <2>5, Loaded
  <2>7. QED
    BY <2>6 DEF InstructionsAt, d
<1>3. ASSUME tool \in Batching, at = "stop", keyed \/ extent # <<>>
      PROVE  InstructionsAt([i \in 1 .. Len(list) |-> list[i].line]) = w
  <2>1. BatchShape(d, w) /\ BatchRead(calls, Len(w))
    BY <1>3 DEF LoadInv, BatchLoads
  <2> HIDE DEF d, w
  <2>2. w \in Seq(Nat) /\ Behind(d, w) /\ calls \in 0 .. 2
    BY <2>1 DEF BatchShape
  <2>3. Len(list) = Len(w) /\ Len(list) \in Nat /\ \A i \in 1 .. Len(list) : list[i].line = i + 2
    <3>1. calls = 0 => at # "stop"
      BY <2>1 DEF BatchRead
    <3>2. calls > 0
      BY <1>3, <2>2, <3>1
    <3>3. QED
      BY <1>3, <2>1, <3>2 DEF BatchRead
  <2> DEFINE lines == [i \in 1 .. Len(list) |-> list[i].line]
  <2>4. Len(lines) = Len(w) /\ \A i \in 1 .. Len(w) : lines[i] = i + 2
    <3>1. lines \in [1 .. Len(list) -> Nat]
      BY <2>3
    <3>2. Len(lines) = Len(list)
      BY <2>3, <3>1, ValuesAreSeq
    <3>3. QED
      BY <2>3, <3>2
  <2> HIDE DEF lines
  <2>5. [i \in 1 .. Len(lines) |-> d[lines[i]].inst] = w
    BY <2>2, <2>4, Loaded
  <2>6. InstructionsAt(lines) = w
    BY <2>5 DEF InstructionsAt, d
  <2>7. QED
    BY <2>6 DEF lines
<1>4. QED
  BY <1>1, <1>2, <1>3

LEMMA SameDelivery ==
  ASSUME UNCHANGED <<tool, written, extent>>
  PROVE  Delivered(keyed)' = Delivered(keyed') /\ Meant(keyed)' = Meant(keyed')
<1>1. WithKeys' = WithKeys
  BY DEF WithKeys, Place, HeadersTo
<1>2. QED
  BY <1>1 DEF Delivered, Meant

(* The exit hands the file over, with the keys or without.                 *)
LEMMA ExitKeeps == LoadInv /\ Exit => LoadInv'
<1> SUFFICES ASSUME LoadInv, Exit PROVE LoadInv'
  OBVIOUS
<1>1. ReadersInv'
  <2>1. [ReadersNext]_readers
    BY DEF ReadersNext
  <2>2. QED
    BY <2>1, ReadersKeep DEF LoadInv
<1>2. /\ source = "tracing" /\ source' = "traced" /\ keyed' \in BOOLEAN
      /\ UNCHANGED <<in, list, id, symbols, values, qifList, pass, tool, executed>>
      /\ UNCHANGED <<start_ins, first_time, output_count, written, calls, level, extent, cut, missed>>
  BY DEF Exit, globals
<1>3. PICK b, d, w : b = keyed' /\ d = Delivered(keyed') /\ w = Meant(keyed')
  OBVIOUS
<1>4. Delivered(keyed)' = d /\ Meant(keyed)' = w /\ d = Delivered(b) /\ w = Meant(b)
  BY <1>2, <1>3, SameDelivery
<1>5. file' = [lines |-> [n \in 1 .. Len(d) |-> d[n].kind], newline |-> TRUE]
  BY <1>3 DEF Exit
<1>6. Untouched
  BY <1>2 DEF LoadInv
<1>7. ASSUME Len(d) \in Nat
      PROVE  FileIs(Delivered(keyed))'
  <2>1. file'.lines = [n \in 1 .. Len(d) |-> d[n].kind] /\ file'.newline = TRUE
    BY <1>5
  <2>2. Len(file'.lines) = Len(d) /\ \A n \in 1 .. Len(d) : file'.lines[n] = d[n].kind
    BY <1>7, <2>1
  <2>3. QED
    BY <1>4, <2>1, <2>2, Zenon DEF FileIs
<1>8. CASE tool = "qif"
  <2>1. /\ limits' \in LimitLists /\ qifIn' = GetLine(file', Opened)
        /\ qifAt' = "headers" /\ at' = "stop" /\ UNCHANGED <<driver, call>>
    BY <1>8 DEF Exit
  <2>2. pass' = 1 /\ qifList' = <<>>
    BY <1>2, <1>6 DEF Untouched
  <2>3. 1 \in 1 .. Len(limits')
    BY <2>1, SomeLimit
  <2>4. ASSUME ~ cut, ~ missed
        PROVE  /\ CallShape(Delivered(keyed), Meant(keyed))'
               /\ FileIs(Delivered(keyed))'
               /\ CallRead(Len(Meant(keyed)))'
    <3>1. CallShape(d, w)
      BY <1>2, <1>3, <1>4, <1>8, <2>4, CallDelivered DEF LoadInv, ReadersInv
    <3>2. Len(d) \in Nat /\ Len(w) \in Nat
      BY <3>1 DEF CallShape, Behind
    <3>3. FileIs(Delivered(keyed))'
      BY <1>7, <3>2
    <3>4. CallShape(Delivered(keyed), Meant(keyed))'
      BY <1>4, <3>1 DEF CallShape, Behind
    <3>5. Len(file'.lines) \in Nat /\ file'.newline = TRUE
      BY <1>4, <3>2, <3>3 DEF FileIs
    <3>6. qifIn' = StreamAt(1)'
      BY <2>1, <3>5, FirstLine, Zenon DEF StreamAt
    <3>7. CallRead(Len(Meant(keyed)))'
      BY <1>4, <2>1, <2>2, <3>2, <3>6 DEF CallRead
    <3>8. QED
      BY <3>3, <3>4, <3>7
  <2>5. QifLoads'
    BY <1>2, <2>1, <2>2, <2>3, <2>4 DEF QifLoads
  <2>6. BatchLoads'
    BY <1>2, <1>8 DEF BatchLoads, Batching
  <2>7. tool' = "qif"
    BY <1>2, <1>8
  <2>8. QED
    BY <1>1, <1>2, <2>5, <2>6, <2>7 DEF LoadInv
<1>9. CASE tool # "qif"
  <2>1. /\ driver' \in Drivers /\ call' = [call EXCEPT !.max = driver'.first]
        /\ UNCHANGED <<limits, qifIn, qifAt, at>>
    BY <1>9 DEF Exit
  <2>2. /\ qifAt' = "unread" /\ in' = Opened /\ list' = <<>> /\ id' = 1 /\ at' = "parse"
        /\ call = [max |-> call.max, num |-> 1, count |-> 1]
    BY <1>2, <1>6, <2>1 DEF Untouched
  <2>3. driver' \in Driver
    BY <2>1, DriversAssumption
  <2>4. call' \in [max : Nat, num : Nat, count : Nat]
    <3>1. driver'.first \in Nat
      BY <2>3 DEF Driver
    <3>2. call' = [max |-> driver'.first, num |-> 1, count |-> 1]
      BY <2>1, <2>2
    <3>3. QED
      BY <3>1, <3>2
  <2>5. ASSUME tool \in Batching, b \/ extent # <<>>
        PROVE  /\ BatchShape(Delivered(keyed), Meant(keyed))'
               /\ FileIs(Delivered(keyed))'
               /\ BatchRead(calls, Len(Meant(keyed)))'
    <3>1. BatchShape(d, w)
      BY <1>2, <1>3, <1>4, <1>6, <2>5, BatchDelivered DEF Untouched
    <3>2. Len(d) \in Nat /\ Len(w) \in Nat /\ calls \in 0 .. 2
      BY <3>1 DEF BatchShape, Behind
    <3>3. FileIs(Delivered(keyed))'
      BY <1>7, <3>2
    <3>4. BatchShape(Delivered(keyed), Meant(keyed))'
      BY <1>2, <1>4, <3>1 DEF BatchShape, Behind
    <3>5. /\ in' \in Stream /\ in'.pos = 0 /\ in'.line = 0
          /\ list' \in Seq([line : Nat, id : Nat]) /\ Len(list') = 0
          /\ id' \in Nat /\ at' = "parse"
      BY <2>2 DEF Stream, Opened
    <3>6. BatchRead(calls, Len(Meant(keyed)))'
      BY <2>3, <2>4, <3>5 DEF BatchRead
    <3>7. QED
      BY <3>3, <3>4, <3>6
  <2>6. BatchLoads'
    BY <1>2, <1>3, <2>5 DEF BatchLoads
  <2>7. QifLoads' /\ tool' # "qif"
    BY <1>2, <1>9 DEF QifLoads
  <2>8. QED
    BY <1>1, <1>2, <2>2, <2>6, <2>7 DEF LoadInv
<1>10. QED
  BY <1>8, <1>9

(* A reader goes on in the file of its tool; the others stand still.       *)
LEMMA ReadKeeps ==
  ASSUME LoadInv, UNCHANGED <<tracerVars, source, keyed>>,
         \/ source # "tracing" /\ QifStep /\ UNCHANGED loadVars
         \/ source # "tracing" /\ Step /\ UNCHANGED otherQifs
         \/ UNCHANGED <<loadVars, file, otherQifs>>,
         ReadersInv'
  PROVE  LoadInv'
<1>1. UNCHANGED <<tool, stack, executed, start_ins, first_time, output_count, written,
                  calls, level, extent, cut, missed, source, keyed>>
  BY DEF tracerVars, globals
<1>2. PICK d, w, c : d = Delivered(keyed) /\ w = Meant(keyed) /\ c = calls
  OBVIOUS
<1>3. Delivered(keyed)' = d /\ Meant(keyed)' = w /\ calls' = c
  BY <1>1, <1>2, SameDelivery
<1>4. CASE source = "given"
  BY <1>1, <1>4 DEF LoadInv
<1>5. CASE source = "tracing"
  <2>1. UNCHANGED <<loadVars, file, otherQifs>>
    BY <1>5
  <2>2. UNCHANGED <<driver, in, list, id, call, at, limits, qifIn, qifList, pass, qifAt>>
    BY <2>1 DEF loadVars, otherQifs
  <2>3. BatchInv' <=> BatchInv
    BY <1>1 DEF BatchInv
  <2>4. Untouched'
    BY <1>1, <1>5, <2>2, <2>3 DEF LoadInv, Untouched
  <2>5. QED
    BY <1>1, <1>5, <2>4 DEF LoadInv
<1>6. CASE source = "traced"
  <2>1. QifLoads /\ BatchLoads /\ (tool # "qif" => qifAt = "unread")
    BY <1>6 DEF LoadInv
  <2>2. UNCHANGED otherQifs \/ (QifStep /\ tool = "qif")
    <3>1. QifStep => qifAt # "unread"
      BY DEF QifStep, QifHeader, KeyUnreadable, HeadersEnd, BodyEnds, QifInstruction, LibcCall,
             Malloc, ReadAgain, InBody
    <3>2. QED
      BY <1>6, <2>1, <3>1
  <2>3. UNCHANGED vars \/ UNCHANGED loadVars \/ (Step /\ UNCHANGED otherQifs)
    BY <1>6
  <2>. UNCHANGED file
    <3>1. (QifStep => UNCHANGED file) /\ (Step => UNCHANGED file)
      BY DEF QifStep, QifHeader, KeyUnreadable, HeadersEnd, BodyEnds, QifInstruction, LibcCall,
             Malloc, ReadAgain, Step, CallAgain, Header, EmptyLine, EndLine, Instruction, CallReturns
    <3>2. QED
      BY <1>6, <3>1
  <2>4. tool' # "qif" => qifAt' = "unread"
    BY <1>1, <2>1, <2>2 DEF otherQifs
  <2>5. ASSUME tool = "qif"
        PROVE  QifLoads'
    <3>1. limits' = limits /\ pass' \in 1 .. Len(limits)
      <4>1. limits \in LimitLists /\ pass \in 1 .. Len(limits)
        BY <2>1, <2>5 DEF QifLoads
      <4>2. Len(limits) \in Nat
        BY <4>1, SomeLimit
      <4>3. CASE QifStep
        <5>1. limits' = limits /\ (pass' = pass \/ (pass < Len(limits) /\ pass' = pass + 1))
          BY <4>3 DEF QifStep, QifHeader, KeyUnreadable, HeadersEnd, BodyEnds, QifInstruction,
                      LibcCall, Malloc, ReadAgain
        <5>2. QED
          BY <4>1, <4>2, <5>1
      <4>4. CASE UNCHANGED otherQifs
        BY <4>1, <4>4 DEF otherQifs
      <4>5. QED
        BY <2>2, <4>3, <4>4
    <3>2. ASSUME limits = <<NoLimit>>, ~ cut, ~ missed
          PROVE  /\ CallShape(d, w) /\ FileIs(d)' /\ CallRead(Len(w))'
      <4>1. CallShape(d, w) /\ FileIs(d) /\ CallRead(Len(w)) /\ pass \in 1 .. Len(limits)
        BY <1>2, <2>1, <2>5, <3>2 DEF QifLoads
      <4>2. CallHolds(Len(w))
        BY <4>1, CallFile
      <4>3. Len(w) \in Nat
        BY <4>1 DEF CallShape
      <4>4. pass = 1
        <5>1. Len(limits) = 1
          BY <3>2
        <5>2. QED
          BY <4>1, <5>1
      <4>5. CASE QifStep
        <5>1. CallRead(Len(w))' /\ UNCHANGED file
          BY <3>2, <4>1, <4>2, <4>3, <4>4, <4>5, CallReadKeeps
        <5>2. QED
          BY <4>1, <5>1 DEF FileIs
      <4>6. CASE UNCHANGED otherQifs
        <5>2. UNCHANGED qifVars
          BY <4>6 DEF otherQifs, qifVars
        <5>3. CallRead(Len(w))' /\ UNCHANGED file
          BY <3>2, <4>1, <4>2, <4>3, <4>4, <5>2, CallReadKeeps
        <5>4. QED
          BY <4>1, <5>3 DEF FileIs
      <4>7. QED
        BY <2>2, <4>5, <4>6
    <3>3. ASSUME limits = <<NoLimit>>, ~ cut, ~ missed
          PROVE  /\ CallShape(Delivered(keyed), Meant(keyed))'
                 /\ FileIs(Delivered(keyed))'
                 /\ CallRead(Len(Meant(keyed)))'
      <4>1. CallShape(d, w) /\ FileIs(d)' /\ CallRead(Len(w))'
        BY <3>2, <3>3
      <4>2. CallShape(Delivered(keyed), Meant(keyed))'
        BY <1>3, <4>1 DEF CallShape, Behind
      <4>3. FileIs(Delivered(keyed))'
        BY <1>3, <4>1, Zenon DEF FileIs
      <4>4. CallRead(Len(Meant(keyed)))'
        BY <1>3, <4>1, Zenon DEF CallRead
      <4>5. QED
        BY <4>2, <4>3, <4>4
    <3>4. limits \in LimitLists
      BY <2>1, <2>5 DEF QifLoads
    <3>5. QED
      BY <1>1, <3>1, <3>3, <3>4 DEF QifLoads
  <2>6. tool # "qif" => QifLoads'
    BY <1>1 DEF QifLoads
  <2>7. ASSUME tool \in Batching, keyed \/ extent # <<>>
        PROVE  /\ BatchShape(Delivered(keyed), Meant(keyed))'
               /\ FileIs(Delivered(keyed))'
               /\ BatchRead(calls, Len(Meant(keyed)))'
    <3>1. BatchShape(d, w) /\ FileIs(d) /\ BatchRead(c, Len(w))
      BY <1>2, <2>1, <2>7 DEF BatchLoads
    <3>2. BatchHolds(c, Len(w)) /\ c \in 0 .. 2
      BY <1>2, <3>1, BatchFile
    <3>3. Len(w) \in Nat
      BY <3>1 DEF BatchShape
    <3>4. tool # "qif"
      BY <2>7 DEF Batching
    <3>5. Step \/ UNCHANGED vars
      <4>1. UNCHANGED loadVars => UNCHANGED vars
        BY DEF loadVars, vars
      <4>2. QifStep => FALSE
        BY <2>2, <2>1, <3>4 DEF QifStep, QifHeader, KeyUnreadable, HeadersEnd, BodyEnds,
           QifInstruction, LibcCall, Malloc, ReadAgain, InBody
      <4>3. QED
        BY <1>6, <4>1, <4>2
    <3>6. BatchRead(c, Len(w))'
      BY <3>1, <3>2, <3>3, <3>5, BatchReadKeeps
    <3>7. BatchShape(Delivered(keyed), Meant(keyed))'
      BY <1>1, <1>3, <3>1 DEF BatchShape, Behind
    <3>8. FileIs(Delivered(keyed))'
      <4>1. FileIs(d)'
        BY <3>1 DEF FileIs
      <4>2. QED
        BY <1>3, <4>1, Zenon DEF FileIs
    <3>9. BatchRead(calls, Len(Meant(keyed)))'
      BY <1>3, <3>6, Zenon DEF BatchRead
    <3>10. QED
      BY <3>7, <3>8, <3>9
  <2>8. BatchLoads'
    BY <1>1, <2>7 DEF BatchLoads
  <2>9. QED
    BY <1>1, <1>6, <2>4, <2>5, <2>6, <2>8 DEF LoadInv
<1>7. QED
  BY <1>4, <1>5, <1>6 DEF LoadInv

LEMMA LoadKeeps == LoadInv /\ [ReadersNext]_readers => LoadInv'
<1> SUFFICES ASSUME LoadInv, [ReadersNext]_readers PROVE LoadInv'
  OBVIOUS
<1>1. ReadersInv'
  BY ReadersKeep DEF LoadInv
<1>2. CASE Trace
  <2>1. /\ source = "tracing" /\ Traced
        /\ UNCHANGED <<driver, in, list, id, call, at, file, limits, qifIn, qifList, pass, qifAt,
                       source, keyed>>
    BY <1>2 DEF Trace, loadVars, otherQifs
  <2>2. Untouched
    BY <2>1 DEF LoadInv
  <2>3. tool' = tool
    BY <2>1 DEF Traced, Call, Jump, Return, Execute
  <2>4. BatchInv'
    <3>1. CASE tool \in Batching
      BY <2>1, <2>2, <3>1, BatchKeeps DEF Untouched
    <3>2. CASE tool \notin Batching
      BY <2>3, <3>2 DEF BatchInv
    <3>3. QED
      BY <3>1, <3>2
  <2>5. Untouched'
    BY <2>1, <2>2, <2>3, <2>4 DEF Untouched
  <2>6. QED
    BY <1>1, <2>1, <2>5 DEF LoadInv
<1>3. CASE Exit
  BY <1>3, ExitKeeps
<1>4. CASE ReadByQif
  BY <1>1, <1>4, ReadKeeps DEF ReadByQif
<1>5. CASE ReadByCryptoHunt
  BY <1>1, <1>5, ReadKeeps DEF ReadByCryptoHunt
<1>6. CASE AllRead \/ UNCHANGED readers
  <2>1. UNCHANGED <<loadVars, file, otherQifs, tracerVars, source, keyed>>
    BY <1>6 DEF AllRead, readers
  <2>2. QED
    BY <1>1, <2>1, ReadKeeps
<1>7. QED
  BY <1>2, <1>3, <1>4, <1>5, <1>6 DEF ReadersNext, ReadersStep

(* From the program to the vector, through the file: what QIF replays and  *)
(* what the taint tools load are the instructions of the first call, all   *)
(* of them if the key's line was added behind the header and all but the   *)
(* first if not.  For every number of routines on the stack, instructions, *)
(* calls and key bytes, and every batch size.                              *)
THEOREM FirstCallIsLoaded == ReadersSpec => []FirstCallLoaded
<1>1. ReadersInit => LoadInv
  BY LoadStarts
<1>2. LoadInv /\ [ReadersNext]_readers => LoadInv'
  BY LoadKeeps
<1>3. LoadInv => FirstCallLoaded
  BY LoadGives
<1>4. QED
  BY <1>1, <1>2, <1>3, PTL DEF ReadersSpec

=============================================================================
