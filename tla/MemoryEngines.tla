---------------------------- MODULE MemoryEngines ----------------------------
(***************************************************************************)
(* The engines' memories.  QIFSEEngine's (SymMemory), which has the        *)
(* trace's data to check itself against, and DynSEEngine's (DynMemory),    *)
(* which has not, on the same accesses: DynSEEngine takes part in the      *)
(* programs of CryptoHunt, those without libc calls and unmodelled         *)
(* instructions.  StaticSEEngine's (StaticEngine), which has not even the  *)
(* addresses, on programs of its own.                                      *)
(***************************************************************************)
EXTENDS SymMemory, DynMemory

ASSUME DynSpaceAssumption == DynSpace = 4 * Words

CONSTANTS
  StaticSpace,      (* data addresses of the disassembled programs         *)
  StaticPrograms    (* disassembled programs, see StaticEngine             *)

ASSUME StaticSpaceAssumption == StaticSpace \in Nat \ {0}

VARIABLES
  origin,     (* history: where each byte of memory came from, as Input    *)
              (* and Written tell                                          *)
  file, fun_inst, inst_list, current, pc, m_ctx, m_memory, machine, named, faithful

(* StaticEngine, with the theorems about it.                               *)
Static == INSTANCE StaticProofs WITH Space <- StaticSpace

(* Programs are what the disassembler prints.                              *)
ASSUME StaticProgramAssumption == \A p \in StaticPrograms : Static!StaticProgram(p)

staticVars ==
  <<file, fun_inst, inst_list, current, pc, m_ctx, m_memory, machine, named, faithful>>

engineVars == <<vars, dynVars, origin, staticVars>>

Disassembled == prog.kinds = {"static"}

CryptoHunt == prog.kinds \subseteq {"load", "store", "update", "save", "push", "movsw", "register"}

Sources(d) == [i \in DOMAIN d |-> Written(d[i].v)]

OriginWith(a, n, d) ==
  [b \in Address |-> IF b \in a .. a + n - 1 THEN d[b - a] ELSE origin[b]]

EnginesInit ==
  /\ Init
  /\ DynInit
  /\ origin = [a \in Address |-> Input(a)]
  /\ IF Disassembled THEN Static!StaticInit ELSE Static!NoFile

BothLoad(a, n) ==
  /\ Load(a, n)
  /\ DynLoad(a, n)
  /\ UNCHANGED origin

BothStore(a, n, d) ==
  /\ Store(a, n, d)
  /\ DynStore(a, n, Sources(d))
  /\ origin' = OriginWith(a, n, Sources(d))

BothUpdate(a, n, d) ==
  /\ Update(a, n, d)
  /\ DynUpdate(a, n, Sources(d))
  /\ origin' = OriginWith(a, n, Sources(d))

(* The register just loaded, in both engines and in the program.           *)
BothStoreLoaded(a, n) ==
  /\ DOMAIN dynHeld = 0 .. n - 1
  /\ StoreLoaded(a, n)
  /\ DynStore(a, n, dynHeld)
  /\ origin' = OriginWith(a, n, [i \in 0 .. n - 1 |-> origin[seen.access[1] + i]])

BothPush(dst, src) ==
  /\ PushMemory(dst, src)
  /\ DynMove(dst, src, 4)
  /\ origin' = OriginWith(dst, 4, [i \in 0 .. 3 |-> origin[src + i]])

BothMoveWord(dst, src) ==
  /\ MoveWord(dst, src)
  /\ DynMove(dst + 2, src + 2, 2)
  /\ origin' = OriginWith(dst, 2, [i \in 0 .. 1 |-> origin[src + i]])

BothDie(a, n) ==
  /\ "load" \in prog.kinds
  /\ DynDies(a, n)
  /\ UNCHANGED <<vars, origin>>

BothRegisterOnly ==
  /\ RegisterOnly
  /\ DynRegisterOnly
  /\ UNCHANGED origin

(* One turn of the program in both engines.                                *)
Both ==
  \/ \E acc \in prog.accesses :
       \/ BothLoad(acc[1], acc[2])
       \/ BothDie(acc[1], acc[2])
       \/ \E d \in prog.data :
            /\ DOMAIN d = 0 .. acc[2] - 1
            /\ BothStore(acc[1], acc[2], d) \/ BothUpdate(acc[1], acc[2], d)
       \/ BothStoreLoaded(acc[1], acc[2])
       \/ \E src \in prog.accesses :
            /\ src[2] = acc[2]
            /\ \/ acc[2] = 4 /\ BothPush(acc[1], src[1])
               \/ /\ acc[2] = 2 /\ {acc[1] + 3, src[1] + 3} \subseteq Address
                  /\ BothMoveWord(acc[1], src[1])
  \/ BothRegisterOnly

Ended ==
  /\ died \/ (Disassembled /\ Static!Analysed)
  /\ UNCHANGED engineVars

QifOnly == Next /\ UNCHANGED <<dynVars, origin>>

EnginesNext ==
  \/ CryptoHunt /\ Both /\ UNCHANGED staticVars
  \/ ~ CryptoHunt /\ ~ Disassembled /\ QifOnly /\ UNCHANGED staticVars
  \/ Disassembled /\ Static!StaticNext /\ UNCHANGED <<vars, dynVars, origin>>
  \/ Ended

EnginesSpec == EnginesInit /\ [][EnginesNext]_engineVars

-----------------------------------------------------------------------------
(* Without words, CryptoHunt's memory is exact for every initial content:  *)
(* a cell's bytes are those of the program, each from where the program    *)
(* has it, and a dword it has no cell for still holds the program's input. *)
(* Nothing is lost in the cutting and joining of bytes, a dword is never   *)
(* given a second symbol, and no symbol stands for a byte that was         *)
(* written before it was met.                                              *)
DynExact ==
  (CryptoHunt /\ \A acc \in prog.accesses : acc[2] # 2) =>
    \A a \in Address : Aligned(a) =>
      [i \in 0 .. 3 |-> origin[a + i]] =
        IF dynCells[a] = NoDyn THEN [i \in 0 .. 3 |-> Input(a + i)] ELSE dynCells[a]

(* StaticEngine's claims: while texts and addresses of a block are one to  *)
(* one, the engine's registers and memory are the processor's; and a block *)
(* gets its instructions.                                                  *)
StaticExact == Static!StaticExact
BlocksExact == Static!BlocksExact
=============================================================================
