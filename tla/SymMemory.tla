----------------------------- MODULE SymMemory -----------------------------
(***************************************************************************)
(* The symbolic memory of QIFSEEngine (readMem and writeMem of             *)
(* lib/QIFSEEngine.cpp) beside the memory of the traced program.           *)
(*                                                                         *)
(* The engine replays a trace.  Its memory maps addresses to dwords of     *)
(* formulas.  A byte or a word lives in the dword cell of its aligned      *)
(* address; a dword is filed under whatever address was used, so a dword   *)
(* at an unaligned address makes a cell that overlaps two others.  Before  *)
(* every read the engine compares the aligned cell with mem_data, the four *)
(* bytes at the aligned address that the pin tool recorded just before the *)
(* instruction, and makes the cell concrete when they disagree.            *)
(*                                                                         *)
(* A formula's byte is abstracted to its value under the recorded key and  *)
(* to whether it mentions the key.                                         *)
(***************************************************************************)
EXTENDS KeyMemory

VARIABLES
  cells,      (* m_memory: a dword for an address, NoCell if not entered   *)
  memData,    (* mem_data: survives until the next ordinary instruction    *)
  call        (* the libc call being replayed, NoCall if none              *)

vars == <<prog, mem, seen, cells, memData, call>>

NoCell == [i \in {} |-> 0]
NoCall == [fun |-> "none"]

(* A dword of constants.                                                   *)
Plain(w)    == [i \in 0 .. 3 |-> [v |-> w[i].v, key |-> FALSE]]
Constant(c) == [v |-> c, key |-> FALSE]
ZeroWord    == [i \in 0 .. 3 |-> Constant(0)]

Offset(a) == a % 4
Base(a)   == a - Offset(a)

(* What the pin tool records for an instruction that accesses a.           *)
DataAt(a) == Plain(Bytes(Base(a), 4))

-----------------------------------------------------------------------------
(* The cell an access uses, and the first of its bytes: a word at an odd   *)
(* offset is taken from the upper half.                                    *)
CellOf(a, n)  == IF n = 4 THEN a ELSE Base(a)

(* Bytes that always go to the low lane.                                   *)
FirstOf_LowByte(a, n) == IF n = 2 /\ Offset(a) # 0 THEN 2 ELSE 0

FirstOf(a, n) ==
  CASE n = 4 -> 0
    [] n = 2 -> IF Offset(a) = 0 THEN 0 ELSE 2
    [] OTHER -> Offset(a)

(* The cell agrees with the recorded data on the bytes compared: the whole *)
(* aligned cell for a dword, wherever the dword lies; for a word at an odd *)
(* offset the two sides keep their initial values 1 and 0.                 *)
Agrees(w, a, n, md) ==
  /\ ~ (n = 2 /\ Offset(a) \in {1, 3})
  /\ \A i \in FirstOf(a, n) .. FirstOf(a, n) + n - 1 : w[i].v = md[i].v

(* A self-check that compares the first byte of the access only.           *)
SelfChecked_FirstByte(cs, a, n, md) ==
  IF cs[Base(a)] = NoCell \/ cs[Base(a)][FirstOf(a, n)].v = md[FirstOf(a, n)].v
  THEN cs ELSE [cs EXCEPT ![Base(a)] = md]

(* The comparison readMem starts with.                                     *)
SelfChecked(cs, a, n, md) ==
  IF cs[Base(a)] = NoCell \/ Agrees(cs[Base(a)], a, n, md)
  THEN cs
  ELSE [cs EXCEPT ![Base(a)] = md]

(* A cell that is read, or written in part, before it exists takes the     *)
(* recorded data.                                                          *)
Entered(cs, a, n, md) ==
  IF cs[CellOf(a, n)] = NoCell THEN [cs EXCEPT ![CellOf(a, n)] = md] ELSE cs

AfterRead(cs, a, n, md) == Entered(SelfChecked(cs, a, n, md), a, n, md)

ReadValue(cs, a, n) ==
  [i \in 0 .. n - 1 |-> cs[CellOf(a, n)][FirstOf(a, n) + i]]

(* A partial write that rebuilds the whole cell from the recorded data.    *)
AfterWrite_DropsRest(cs, a, n, d, md) ==
  LET first == FirstOf(a, n)
  IN  [cs EXCEPT ![CellOf(a, n)] =
         [i \in 0 .. 3 |-> IF i \in first .. first + n - 1 THEN d[i - first] ELSE md[i]]]

(* writeMem: a dword replaces its cell, a byte or word is concatenated     *)
(* with the rest of it.                                                    *)
AfterWrite(cs, a, n, d, md) ==
  LET old   == Entered(cs, a, n, md)[CellOf(a, n)]
      first == FirstOf(a, n)
  IN  [cs EXCEPT ![CellOf(a, n)] =
         [i \in 0 .. 3 |-> IF i \in first .. first + n - 1 THEN d[i - first] ELSE old[i]]]

-----------------------------------------------------------------------------
(* The value key_value_map gets for a key byte: key_value is indexed by    *)
(* the byte's offset in its own range, though it holds all ranges' values. *)
SeedValue(i) == mem[prog.key[prog.key[i].offset + 1].addr].v

(* QIFSEEngine::init writes one symbol per key byte while mem_data is 0.   *)
KeyCell(c) ==
  [i \in 0 .. 3 |->
     IF c + i \in KeyAt
     THEN [v |-> SeedValue(CHOOSE k \in 1 .. Len(prog.key) : prog.key[k].addr = c + i),
           key |-> TRUE]
     ELSE Constant(0)]

Init ==
  /\ IdealInit
  /\ cells = [a \in Address |->
       IF \E b \in KeyAt : Base(b) = a THEN KeyCell(a) ELSE NoCell]
  /\ memData = ZeroWord
  /\ call = NoCall

-----------------------------------------------------------------------------
(* Ordinary instructions.  mem_data is loaded first.                       *)
Instruction(kind) == kind \in prog.kinds /\ call = NoCall /\ UNCHANGED <<prog, call>>

See(cs, a, n) ==
  seen' = [access |-> <<a, n>>, got |-> ReadValue(cs, a, n), want |-> Bytes(a, n)]

(* mov reg, [a]; pop; and the like.                                        *)
Load(a, n) ==
  /\ Instruction("load")
  /\ memData' = DataAt(a)
  /\ LET cs == AfterRead(cells, a, n, DataAt(a))
     IN  cells' = cs /\ See(cs, a, n)
  /\ UNCHANGED mem

(* mov [a], x; push x; call; and the like.                                 *)
Store(a, n, d) ==
  /\ Instruction("store")
  /\ memData' = DataAt(a)
  /\ cells' = AfterWrite(cells, a, n, d, DataAt(a))
  /\ mem' = MemWith(a, n, d)
  /\ seen' = NothingSeen

(* add [a], x; xchg [a], x; and the like: read, then write.                *)
Update(a, n, d) ==
  /\ Instruction("update")
  /\ memData' = DataAt(a)
  /\ LET cs == AfterRead(cells, a, n, DataAt(a))
     IN  /\ cells' = AfterWrite(cs, a, n, d, DataAt(a))
         /\ See(cs, a, n)
  /\ mem' = MemWith(a, n, d)

(* mov [a], reg, of the register the last instruction read into.  If the   *)
(* comparison of registers has found a wrong value there, it holds the     *)
(* trace's.                                                                *)
StoreLoaded(a, n) ==
  /\ Instruction("save")
  /\ DOMAIN seen.got = 0 .. n - 1
  /\ LET held == IF \A i \in 0 .. n - 1 : seen.got[i].v = seen.want[i].v
                 THEN seen.got
                 ELSE [i \in 0 .. n - 1 |-> Constant(seen.want[i].v)]
     IN  cells' = AfterWrite(cells, a, n, held, DataAt(a))
  /\ memData' = DataAt(a)
  /\ mem' = MemWith(a, n, seen.want)
  /\ seen' = NothingSeen

(* push [src]: the recorded data is the source's, and serves the write to  *)
(* the stack as well.                                                      *)
PushMemory(dst, src) ==
  /\ Instruction("push")
  /\ memData' = DataAt(src)
  /\ LET cs == AfterRead(cells, src, 4, DataAt(src))
     IN  cells' = AfterWrite(cs, dst, 4, ReadValue(cs, src, 4), DataAt(src))
  /\ mem' = MemWith(dst, 4, Bytes(src, 4))
  /\ seen' = NothingSeen

(* movsw takes its addresses from esi and edi as the instruction leaves    *)
(* them, a word too far.                                                   *)
MoveWord(dst, src) ==
  /\ Instruction("movsw")
  /\ memData' = DataAt(src)
  /\ LET cs == AfterRead(cells, src + 2, 2, DataAt(src))
     IN  cells' = AfterWrite(cs, dst + 2, 2, ReadValue(cs, src + 2, 2), DataAt(src))
  /\ mem' = MemWith(dst, 2, Bytes(src, 2))
  /\ seen' = NothingSeen

(* An SSE or unrecognised instruction, or movsb or movsd, whose names are  *)
(* also those of SSE instructions: memory changes, the engine does         *)
(* nothing.                                                                *)
Unmodelled(a, n, d) ==
  /\ Instruction("sse")
  /\ memData' = ZeroWord
  /\ mem' = MemWith(a, n, d)
  /\ seen' = NothingSeen
  /\ UNCHANGED cells

(* An instruction without a memory operand: read_mem_data gives 0.         *)
RegisterOnly ==
  /\ Instruction("register")
  /\ memData' = ZeroWord
  /\ seen' = NothingSeen
  /\ UNCHANGED <<mem, cells>>

-----------------------------------------------------------------------------
(* Libc calls (lib/LibcModel.cpp), one turn of their word loop at a time.  *)
(* run() does not load mem_data for them, so what it holds is the previous *)
(* instruction's.                                                          *)
StartCall(fun, dst, src, n, c) ==
  /\ fun \in prog.kinds
  /\ call = NoCall
  /\ call' = [fun |-> fun, dst |-> dst, src |-> src, left |-> n, c |-> c]
  /\ seen' = NothingSeen
  /\ UNCHANGED <<prog, mem, cells, memData>>

EndOfTurn ==
  call' = IF call.left = 1 THEN NoCall
          ELSE [call EXCEPT !.left = @ - 1, !.dst = @ + 4, !.src = @ + 4]

Calling(funs) == call # NoCall /\ call.fun \in funs

(* memcpy and mempcpy.                                                     *)
CopyWord ==
  /\ Calling({"memcpy"})
  /\ LET cs == AfterRead(cells, call.src, 4, memData)
     IN  cells' = AfterWrite(cs, call.dst, 4, ReadValue(cs, call.src, 4), memData)
  /\ mem' = MemWith(call.dst, 4, Bytes(call.src, 4))
  /\ EndOfTurn
  /\ UNCHANGED <<prog, seen, memData>>

(* memset writes its int argument as a dword where libc repeats the byte;  *)
(* calloc is the case of 0.                                                *)
SetWord ==
  /\ Calling({"memset", "calloc"})
  /\ cells' = AfterWrite(cells, call.dst, 4,
                 [i \in 0 .. 3 |-> Constant(IF i = 0 THEN call.c ELSE 0)], memData)
  /\ mem' = MemWith(call.dst, 4, [i \in 0 .. 3 |-> Constant(call.c)])
  /\ EndOfTurn
  /\ UNCHANGED <<prog, seen, memData>>

(* The dwords a libc call may be given.                                    *)
Dwords == { acc[1] : acc \in { x \in prog.accesses : x[2] = 4 } }

Blocks == { x \in Dwords \X (1 .. Words) :
              \A i \in 0 .. x[2] - 1 : x[1] + 4 * i \in Dwords }

StartLibc ==
  \E dst \in Blocks :
    \/ \E src \in Blocks :
         /\ src[2] = dst[2]
         /\ StartCall("memcpy", dst[1], src[1], dst[2], 0)
    \/ \E c \in Values : StartCall("memset", dst[1], dst[1], dst[2], c)
    \/ StartCall("calloc", dst[1], dst[1], dst[2], 0)

Next ==
  \/ \E acc \in prog.accesses :
       \/ Load(acc[1], acc[2])
       \/ \E d \in prog.data :
            /\ DOMAIN d = 0 .. acc[2] - 1
            /\ \/ Store(acc[1], acc[2], d)
               \/ Update(acc[1], acc[2], d)
               \/ Unmodelled(acc[1], acc[2], d)
       \/ StoreLoaded(acc[1], acc[2])
       \/ \E src \in prog.accesses :
            /\ src[2] = acc[2]
            /\ \/ acc[2] = 4 /\ PushMemory(acc[1], src[1])
               \/ /\ acc[2] = 2 /\ {acc[1] + 3, src[1] + 3} \subseteq Address
                  /\ MoveWord(acc[1], src[1])
  \/ RegisterOnly
  \/ StartLibc
  \/ CopyWord
  \/ SetWord

Spec == Init /\ [][Next]_vars

-----------------------------------------------------------------------------
Call == [fun : {"memcpy", "memset", "calloc"}, dst : Address, src : Address,
         left : 1 .. Words, c : Values]

Piece == {<<>>} \cup UNION { [0 .. n - 1 -> Byte] : n \in {1, 2, 4} }

TypeOK ==
  /\ prog \in Programs
  /\ mem \in [Address -> Byte]
  /\ cells \in [Address -> Word \cup {NoCell}]
  /\ memData \in Word
  /\ call \in Call \cup {NoCall}
  /\ seen.got \in Piece /\ seen.want \in Piece

Natural(a, n) == a % n = 0

Aligned(a) == a % 4 = 0

(* Programs whose accesses are naturally aligned, without instructions     *)
(* that the engine leaves out or takes to other addresses.                 *)
Understood ==
  /\ \A acc \in prog.accesses : Natural(acc[1], acc[2])
  /\ prog.kinds \cap {"sse", "movsw"} = {}

(* Among them those with one key, in dwords of its own, and no instruction *)
(* whose recorded data is not that of every cell it enters.                *)
OwnData == {"load", "store", "update", "save", "push", "register", "calloc"}

Computed ==
  /\ Understood
  /\ \A i \in 1 .. Len(prog.key) : prog.key[i].offset = i - 1
  /\ \A b \in KeyAt : Base(b) .. Base(b) + 3 \subseteq KeyAt
  /\ prog.kinds \subseteq OwnData

(* A naturally aligned read returns the program's value, whatever the      *)
(* replay got wrong before: unaligned dwords that overlap the cell, writes *)
(* by instructions the engine does not model, a libc call replayed with    *)
(* stale data, a key with wrong seeds.                                     *)
NaturalReadsHeal ==
  (seen # NothingSeen /\ Natural(seen.access[1], seen.access[2])) =>
    \A i \in DOMAIN seen.want : seen.got[i].v = seen.want[i].v

(* The engine sees key bytes only where the program's memory depends on    *)
(* the key, stale data and wrong seeds included: what it loses, it loses   *)
(* to constants.                                                           *)
KeyNotInvented ==
  Understood =>
    \A a \in Address :
      (Aligned(a) /\ cells[a] # NoCell) =>
        \A i \in 0 .. 3 : cells[a][i].key => mem[a + i].key

(* Replaying a computed program implements KeyMemory: what readMem         *)
(* delivers is what the ideal memory delivers, value and key dependence.   *)
Exact == IdealInit /\ [][Computed => IdealStep]_<<prog, mem, seen>>
=============================================================================
