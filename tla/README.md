# A TLA+ model of the QIF / CryptoHunt trace analyser

This directory holds TLA+ modules that model the analysis tools of this
repository, configurations with which TLC checks them on small instances, and
theorems about them that TLAPS proves for every value of their constants.
Paths are relative to the repository's `src/`; line numbers are those of the
modelled commit. `PROJECT.json` maps every definition to the lines it models.

## 1. The system

The repository analyses execution traces of x86 programs.

* **Pin tools** record a trace: for each instruction its text, the registers
  before it, and the memory word it accesses. Their output is all the other
  tools see of the program.
* **QIF** replays a trace symbolically over a secret key. Each conditional jump
  and each memory access whose formula mentions the key becomes a constraint on
  the key; sampling the key space against the constraints gives the bits leaked
  per address and in total. `QIF_EXP` does this again and again for growing
  prefixes of the trace.
* **CryptoHunt** finds loops in a trace (`LoopDetection`), turns each loop body
  into formulas and compares them with those of reference implementations
  (`SymbolicExecution`); `start.py` runs the comparisons in a pool of processes
  and `match_info.pl` reports what they found.
* **StaticSE** does the same for the basic blocks of a disassembled function.
* **TaintTrace** (bytes) and **BitTaint** (bits) were to follow the input through
  a trace; their programs load the trace and stop there.

Every tool is one sequential program: no threads, callbacks or locks. What
makes the code hard is not concurrency but *long sequences of cases*: state that
is checked at one place and stale at another, iterators moved past the end,
caches, and a replay that goes on after it has gone wrong. `ERROR` of
`lib/error.cpp` prints and returns (`exit` is commented out), so every "cannot
happen" branch has a continuation; the models follow it. The only concurrency
is the process pool of `start.py`.

### 1.1 Inventory

| Component | State | Operations | Correct when | Modules |
|---|---|---|---|---|
| Pin tools | a file, `start_ins`, `first_time` and the like | routine entered, routine left, instruction, program exits | the first call of the routine is recorded, once, with one header | `Tracers` |
| Trace loading, `parse_trace` and its loops | stream, vector, id | batches, headers, END | nothing lost, repeated, reordered; ends | `TraceStream`, `TraceLoading` |
| Trace loading for QIF, `parse_trace_qif` | stream, key symbols and values, vector | headers, body, limit, reading again | each instruction once, key values in the order `init` expects | `TraceStream`, `QifLoading` |
| Both readers on one file, as written by a tool | | | the readers get what was recorded; ids are positions | `TraceReaders` |
| Operand parser, `createOperand` | none | text to tag, fields, width | the address it computes is the one printed | `Operands` |
| QIF replay loop, `QIFSEEngine::run` | `m_ctx` (registers and flags as formulas), `m_constrains`, iterator | one turn per instruction: execute, record constraints, compare registers with the next recorded ones | registers keep to the trace; constraints hold for the trace's own key; what is recorded is a leak of the program | `KeyFlow`, `ReplayLoop` |
| Symbolic memory, `init`, `readMem`, `writeMem` | `m_memory` (address to dword), `mem_data` | read and write of 1, 2, 4 bytes; self-check | reads deliver the program's bytes; key dependence is neither invented nor, where exact, lost | `KeyMemory`, `SymMemory` |
| CryptoHunt's memory, `DynSEEngine` | `m_memory` of fresh symbols | the same, without a self-check | each byte comes from where the program has it from | `DynMemory`, composed in `MemoryEngines` |
| Static engine, `StaticSEEngine`, `StaticBlock` | instruction lists, `m_ctx`, `m_memory` by operand text | deal out instructions, run a block | a block gets its instructions; where texts and addresses are one to one, the block's effect is the processor's | `StaticEngine` |
| Registers and formulas, `readReg`, `writeReg`, `BitVector`, `Engine` | formula DAG | concat, extract, extensions, evaluation, by two evaluators | parts are put together as they were taken apart; evaluation is the operation | `LaneFormulas`, `Formulas` |
| Instruction semantics, `ins_semantics.cpp` | registers, flags | one class per opcode | values and flags are the processor's for every key | `FlagFormulas`, `LaneReplay`, `LaneWide` |
| Conditional jumps (27 classes), `Constrain` | flags | record a formula for the direction taken | the formulas say exactly "goes the same way" | `BranchConstraints` |
| Leakage estimate, `FastMonteCarlo` | `constrains`, `constrains_group_addr`, samples, results | split, verify, sample, report | one group per address, results parallel to groups, the runs counted are those that go the trace's way, terminates | `LeakEstimate`, `PathLeak` |
| Function table, `Function` | `fun_rtns`, `ptr_cache` | load, `getFunName`, `getFunRoutine`, `getFunctionAndLibrary` | the cache changes no answer | `FunctionTable` |
| Call stacks, `CallStack` | for each key byte a stack, a depth, a list of sites | push, return, fast update, copy | sites are the functions executed; depth is the stack's height | `CallStacks`, `CallSites` |
| Libc models, `LibcModel.cpp` | `mem_data` of the instruction before | memcpy, mempcpy, memset, calloc; malloc is missing | as the memory | `SymMemory`, `ReplayLoop`, `QifLoading` |
| Loop detector, `loopDetection`, `loopDetectionFast` | iterator, `potential_loops`, `current_loop`, `confirmLoop`, `InstructionMap` | propose, advance, confirm, skip, report | what is reported repeats; nothing twice; first loop not missed | `LoopReport`, `LoopDetection` |
| Formula matching, `VarMap`, `SymbolicExecution` | formulas, results, mappings of bits, a recursion | thin out, fuzz, compare shapes, map bits | no match missed for the order of inputs; mappings one to one and complete; ends | `FormulaMatching`, `BitMapping` |
| Comparison pool, `start.py`, `match_info.pl` | queue, workers, match files | apply, take, compare, write, report | every pair compared once, all matches reported | `StartPool` |
| Byte taint, bit taint | | never called | | not modelled |
| ELF, debug information, options; disassembler; Ngram's metric; scripts | none to speak of | text in, text out | | not modelled |
| `external/`, `target/`, `references/`, test vectors | | | | vendored, or programs to be traced |

The interactions: a Pin tool writes the file that the loaders read; the loaders
fill the instruction vector that the detector and the engines read, and (for
QIF) the key symbols and values that `QIFSEEngine::init` writes to symbolic
memory; `run` calls the instruction's `symbolic_execution`, which reads and
writes the symbolic memory and flags and appends constraints, each with a copy
of the call stacks; `QIF.cpp` passes the constraints to the estimate; the
estimate's report asks the function table for names. For CryptoHunt the
detector writes loop files, `start.py` pairs them, `SymbolicExecution` replays
two of them with `DynSEEngine` and matches the formulas they end with.

## 2. Modules and how they correspond to the code

### 2.1 From the program to the vector

**`Tracers`** (seven Pin tools, chosen by `tool`). A program enters and leaves
routines and executes instructions; at each of these points the analysis
routines that the tool has inserted run. `cut` and `missed` are histories of what
makes a trace wrong: a routine of a matching name that returns inside the traced
one, and one that is left without a return.

**`TraceStream`** is an `ifstream` as far as the parsers use one: `getline` at the
end of the file leaves an empty line and a bad stream, and a last line without a
newline is delivered with `good()` already false. **`TraceLoading`**
(`parse_trace`) takes the caller's loop as a parameter (`driver`): batches, single
instructions, or one and then batches with the id advanced after the call.
**`QifLoading`** (`parse_trace_qif`) takes the list of limits of the successive
readings. **`TraceReaders`** composes the three: one file, given or written by a
tool, read by QIF and then by a loop of CryptoHunt.

After a header both parsers take the next line for the values of the key. No
tool writes such a line. `keyed` says whether it has been added by hand; if not,
the parsers take the first traced instruction for it (or stop with an exception
nobody catches, the action that leaves `qifAt` at "crashed"), and
`FirstCallLoaded` says what is lost: exactly that instruction.

### 2.2 The replay

**`KeyMemory` / `SymMemory`** (`QIFSEEngine::readMem`, `writeMem`, `init`).
`KeyMemory` is the program's memory as an ideal engine would see it: every byte
with its value and whether it depends on the key. `SymMemory` puts the engine's
memory beside it: dword cells by address, the comparison of the *aligned* cell
with the recorded word, entry of missing cells, partial writes. Its actions
are the shapes of instruction the engine distinguishes: load, store, read and
write, memory to memory (whose recorded word is the source's), no memory
operand, not understood, and the word loops of the libc models, which run on the
previous instruction's `mem_data`. A formula is abstracted to its value under
the trace's key and to "mentions the key".

**`DynMemory`** is the memory of `DynSEEngine`, which knows no values: a byte is
named by where it came from, an input or a write. **`MemoryEngines`** runs it
beside `SymMemory` on the same accesses, and `StaticEngine` on programs of its
own.

**`Operands`, `StaticEngine`** (`createOperand`; `Blocks.cpp`,
`StaticSEEngine.cpp`). An operand's text is a record of its pieces; the parser
tries its expressions one after the other and the number of the first that is
found somewhere in the text is the tag. The static engine knows no addresses:
its memory is keyed by the operand's text. `StaticEngine` runs a block with it
and with a processor, bytes being tokens "initial value plus constant".

**`LaneFormulas`, `FlagFormulas`, `LaneReplay`, `LaneWide`**
(`BitVector.cpp`, `Engine.cpp`, both engines' `readReg` and `writeReg`, the
instruction classes). A formula is a leaf with a value for each key or a
concatenation, because concatenation is the structure `Extract` looks into; the
value of a leaf may be wider than its size, because `eval` computes every
operation with 32 bits. `FlagFormulas` has the processor's result and flags and,
beside them, those of `updateCFadd` to `updateOFsub`, and the conditions that `SETcc`
and `CMOVcc` take from them. `LaneReplay` runs programs
over registers and their parts with both, for the trace's key and for another;
`LaneWide` adds products, quotients, exchanges, addresses, double shifts, bit and
string instructions. The register comparison shows what a formula is for the
trace's key only; `exact` and `trusted` record where the formulas and flags are
right for every key, and the invariants say they are. Where flags are trusted,
the jumps are steps of `BranchConstraints` (`JumpsRefine`), so its theorem
`PathExact` speaks of the constraints of arithmetic programs, too.

**`KeyFlow` / `ReplayLoop`** (`QIFSEEngine::run`). `KeyFlow` is the program with
an ideal observer: registers and carry with key dependence, and the leaks, a
jump on a flag or an address that depends on the key. `ReplayLoop` replays it.
`EndOfTurn` is the second half of `run`'s loop body: the register comparison
with its two exceptions (libc calls on either side), the cut of long formulas,
and the return on refused instructions. The carry represents the flags: like
all of them it is a formula in the engine and is never compared.

**`FunctionTable`** (`lib/Function.cpp`). `LoadLine`, `FinishLoading` are the
constructor, `GetFunRoutine` stands for both cached lookups (the same search),
`GetFunctionAndLibrary` for the uncached one. `end_addr` wraps as a `uint32_t`
does, and intervals are closed as in the code. **`CallStacks`, `CallSites`**
(`lib/CallStack.cpp`, `updateStacks`): the stacks with the two ways of updating
them, and a replay that keeps them by asking the function table, whose cache
others use, too. In `run` both updates are comments (`QIFSEEngine.cpp:628`);
`mode` "off" is the program as compiled.

### 2.3 From constraints to the leakage

**`BranchConstraints`** (the `INST_X86_INS_J*` classes, `Constrain`,
`updateCFConstrains`). Flags are functions from keys to flag values, so a
recorded formula is the set of keys that satisfy it. `Recorded` is the formula
each class builds from the recorded direction, as an object of `Constrain`:
two formulas and a relation. `Taken` is the processor's condition.

**`LeakEstimate`** (`reduceConstrains`, `getEntropy`, `FastMonteCarlo`). One
action per stage and per element of its loops, over both copies of the
constraints that `FastMonteCarlo` holds. Random inputs are any inputs.

**`PathLeak`** composes the two over the same keys (`Inputs`): jumps and other
constraints are recorded, the estimate counts, and what it counts is compared
with the inputs that go the trace's way.

### 2.4 CryptoHunt

**`LoopDetection`** (`lib/Loop.cpp`). One action per kind of turn of the `for`
loop: `SkipIteration` is the branch in which the stride equals the current loop
and the iterator jumps; `ScanInstruction` is everything else, with its three
parts in the code's order (drop a current loop that no longer matches, advance
and confirm candidates, propose new ones). `fast` says which of the two
functions runs; they differ in where candidates come from.

The detector reads behind the vector in a stride or a lookahead near its end. A
position outside `1 .. N` holds what the turn chooses out of `Surroundings` (`At`),
up to `Spare` positions away. The loop tests `it != cend()`, so a stride that is
compared over the end and agrees makes the pass jump over `cend()`, and the test
never fails again: the pass goes on there, `Astray`, with the same actions,
proposing (`StrayStarts`), comparing and confirming what it finds. It has no way
back; some read kills the process (`Crash`, which any read outside the vector may
be, from `StrideReadsPast` and `LookaheadReadsPast` on), and nothing is written.
`WriteReports` is `outPrintLoops`, after a pass that met `cend()`; `pass` says how it
ended. **`LoopReport`** is the promise to the caller: one report or none, of
distinct bodies of proper length, each executed twice in a row in the trace.

**`Formulas`, `BitMapping`, `FormulaMatching`** (`VarMap.cpp`, `SymbolicExecution.cpp`).
`Formulas` evaluates every operation of a formula, as `eval` and as `eval_fast`
do. `FormulaMatching` begins with what the two engines hold at their end: the
outputs are thinned out, pairs are fuzzed, shapes compared, and pairs of
subformulas with other roots are given to `bitVarmap`. `BitMapping` is that function
without the formulas: its recursion is the stack `frames`, a test may count anything
(`Tested`), and each turn of the loops in `reduce` is a step. `FormulaMatching` takes
these steps with the counts of its formulas; random bits are choices.

**`StartPool`** (`start.py`, `SymbolicExecution.cpp:18`, `:143`, `match_info.pl`).
The main process, the pool's queue, the workers, and the directory of match
files. What a comparison finds is given. Files may vanish and workers may be
killed between two steps.

`MC*` modules give TLC their instances; `*Proofs` modules hold the theorems. A
definition `X_Y` that precedes `X` is a version of `X` with a plausible mistake;
each property of a passing run is violated under one of them.

## 3. Runs

| Run | Instance | Shows |
|---|---|---|
| `trace_readers` | all files of up to six lines; up to two headers and four lines with libc calls; the files of seven Pin tools for programs of up to three instructions and two routines on the stack; QIF once or QIF_EXP three times, three loops of CryptoHunt | `FirstCallTraced`, `FirstCallLoaded`, `LoadedInOrder`, `IdsFollowPositions`, `AllInstructionsOnce`, `KeysInOrder`; with an END the load ends (`LoadEnds`) |
| `loading_whole` | plain instruction files, the loop detector's loop | **violates** `WholeTraceLoaded` |
| `sym_memory` | eight bytes; six kinds of program, one of them three disassembled functions | see 3.1 |
| `lane_replay` | five registers of four three-bit bytes, three instructions, two keys; ten kinds of program | see 3.2 |
| `replay` | two registers of one bit, five instructions, three kinds of program | see 3.1 |
| `replay_adc` | programs with `adc` and jumps | **violates** `OwnKeyHolds` |
| `function_table` | all files of up to three routines of size up to two in five addresses; replays with all files of up to two routines of two addresses, call stacks kept in each of the three ways | the cache is invisible for separated routines (`CacheTransparent`), and for adjacent ones off by at most the byte after a routine (`InteriorExact`); the sites printed with a leak are the functions executed (`SitesFollowPath`); `DepthIsHeight` |
| `path_leak` | all jump classes but `JNG` and `JCXZ` at two addresses, nine flag states of two keys, up to three recorded constraints out of jumps and four shapes of others; all samples | constraints are exactly "goes the same way" (`SamePath`); the estimate counts just the runs that do (`CountsSameRuns`); groups and results are parallel (`ResultsFollowGroups`); it ends (`Finishes`) |
| `branch_jng` | `JNG` alone | **violates** `SamePath` |
| `loop_detection` | all traces of 13 instructions over two opcodes and of 9 over three instructions, loops of 2 to 6, both detectors | what is confirmed repeats, unless the pass has jumped over `cend()` (`ConfirmedRepeat`), the first visible loop is found (`FirstLoopFound`); implements `LoopReport`, so what is written repeats and is written once |
| `matching` | eleven pairs of traces, four-bit words, two and three inputs | see 3.3 |
| `start_pool` | one to four targets, one and two references, one to three processes; one file may vanish, one worker may be killed; names clash within a second | each pair is compared once, and missed only by a worker that raised (`ComparedOnce`); the report is what was found unless names clash (`ReportExact`); it ends unless a worker is killed (`Finishes`) |

### 3.1 Memory and the replay loop

`sym_memory` and `replay` take a set of programs, because what the engine
promises depends on what the program does. For a program of instructions the
engine computes, the engine *implements the ideal one* (`Exact`, `LeaksExact`).
With libc calls, wrong seeds, shared dwords, cut formulas or lost keys, it
errs in one direction: what mentions the key does depend on the key
(`KeyNotInvented`, `NoFalseLeak`). With unknown instructions and unaligned
accesses as well, it stays on the trace: naturally aligned reads and registers
have the program's values (`NaturalReadsHeal`, `RegistersFollow`), and a
constraint that the trace's own key violates was built where no comparison can
help (`RecordedHold`).

`DynSEEngine` has no recorded data to heal with. Its memory is exact as long as
no word is accessed (`DynExact`): a word written at the lower half of a dword
loses the upper half, one at the upper half is filed in a cell that no read looks
at, and a word read there yields the lower half; a dword at an unaligned address
ends the program by an assertion.

`MOVSW` is the only move of a string the replay has a class for that is reached
(`movsb` and `movsd` are taken for the SSE instructions of these names). It uses
its addresses after the increment, so it moves the next word; the comparison of
registers finds nothing wrong, and QIF's self-check repairs the cells when they are
read.

A block of the static engine has the processor's effect as long as each address
it touches is named by one text and each text names one address
(`StaticExact`, `OneToOne`): the text holds the size keyword, too. That is proved for
every program a disassembler prints (`StaticProgram`: registers have a place, a move's
operands have one size and at most one of them is in memory, what is pushed and popped
are dwords). Outside of that,
`faithful` names the instructions it does otherwise than the processor: `push` of
memory always goes to the cell of "fffffffc", `push`, `pop` and `call` of a register
to that of the operand's own text, `leave` reads the empty text, `push esp` pushes the
new value, a call's return address assumes five bytes, `lea` of a variable and
`jnb` stop the block, and an instruction without a model is passed over. A block
gets all its instructions if the instructions are listed by address and blocks are
disjoint and begin at instructions (`BlocksExact`), whatever the order of the blocks.
In a list that is not by address `StaticBlock::init` cuts out what lies between the
block's first instruction and the first one beyond its end, and another block's
instructions may lie there, too.

The operand parser finds its expressions anywhere in the text. Blanks between the
pieces of an address lose the base, `xmm0` reads as the number 0, `qword` as `word`,
`sp` is unknown, and a number has 32 bits whatever its operand.

### 3.2 Registers and flags

`lane_replay` has programs of whole registers, of carries, of moved parts, of
byte and word arithmetic, of conditions (every `SETcc` and `CMOVcc`), of products,
quotients, double shifts, bit instructions and addresses, of instructions whose
result is the trace's, of products of words, and of string instructions up and
down. Parts are taken apart and put together without loss, by `QIFSEEngine` and by
`DynSEEngine`, and formulas stay exact for every key until a result leaves its
part or a flag of the trace's key decides (`LanesExact`); whole registers stay
exact (`FullWidthExact`). `Trust` says for each class which flags are right for
every key (`FlagsTrusted`), with these exceptions, each of which TLC needs to find
the invariants true:

* `updateOFadd` and `updateOFsub` treat the largest positive value as neither
  positive nor negative (`OffBoundary`); `DEC` takes the overflow of a sum.
* Bytes and words are compared uncut: after a carry out of the part zero and sign
  are wrong, though the zero flag of a difference is right, and so is the signed
  comparison, whose two flags are wrong together.
* `op_mask[n]` in `BitVector::concat` has n + 1 ones, so the carry of a byte spills
  into the byte above it.
* `ADC` and `SBB` add the trace's carry whatever the key, and `SBB` reads an immediate
  as 0 (`ins_semantics.cpp:1207`). `CMOVcc` moves if the trace's key does, and
  records nothing; `SETB` sets the trace's carry.
* Shifts and rotates update `ZF` alone; the processor's rotates leave it alone.
* `IDIV` zero-extends its divisor and always divides 64 by 32 bits; `BSF` counts from
  the highest bit; `IMUL` with one operand, `CPUID`, `RDTSC` and the like take the
  trace's results; `CDQ` of a symbolic `eax` leaves `edx` as it was; `MUL` of a byte
  takes a null operand (such a program is not enumerated).
* `STOSD` and `REP STOSD` ignore the direction flag, `LODSD` drops the formula of `esi`,
  a `REP` whose count is 0 moves symbolic pointers on, and one whose count depends on the
  key records nothing of it; `rep stosb` and lines with other prefixes are not
  recognised.

### 3.3 Matching

A reference formula that some target formula equals up to the order of inputs is
matched (`SameFunctionFound`), unless two formulas agree by accident on the first
test, or `reduceValues` takes one for another: its `operator==`
(`BitVector.cpp:605`) does not look at the bits of an extraction. The matching of
bits can miss formulas: `bitVarmap` follows the first pairing only
(`VarMap.cpp:588`), reuses the output of an earlier turn (714) and asks for side 1's
mapped bits where side 2's are meant (779); the result then depends on the random
bits. What it does report is exact (`MappingsExact`): mappings are one to one, no bit
is lost on either side, and the comments in `reduce` on the sizes of the two sides are
right, so that `VarMap.cpp:442` never looks into an empty set. For equal subformulas
the identity is found whatever the random bits are (`SameSubformulaMapped`).
`eval_fast`, which only a test calls, agrees with `eval` but for the sizes of
extractions (`FastEvalAgrees`).

### 3.4 What the violated properties say

* `JNG` (`ins_semantics.cpp:2273`) decides its direction by `ZF` and `OF`; its
  comment says "ZF or SF != OF", and so does its twin `JLE`. The constraint of
  the direction not taken may be recorded.
* `ADC` (`ins_semantics.cpp:1550`; `SBB` at 1237) sets `CF` from the sum without
  the incoming carry. Flags are never compared with the trace, so a jump on it
  records a constraint that the trace's key violates.
* `LoopDetection.cpp:33` waits for `parse_trace` to return `TRUE`, and
  `parse_trace` returns `good()`: `TRUE` after the first full batch, so no more
  than 2000 instructions are loaded. In batches of one the same return stops
  after the first instruction. At the end of a file without END it is `FALSE`
  for ever, which is why `LoadEnds` is stated for files with END.

Other behaviour of the code that the models show, which no comment contradicts,
so that the properties name it as an exception:

* `JECXZ` (`ins_semantics.cpp:3009`) records `ecx = 0` also when the jump was not
  taken, `JCXZ` has the class of `JC`, and `JP` records nothing: `silent` is set.
  `path_leak` has `JECXZ` and `JP`; `JCXZ` is left to the theorem `PathExact`.
* Pin tools: QIF's ends its trace when any routine of a matching name returns, a
  recursive call included, and goes on after a tail call; MyPinTool ends a batch at
  the *next* call, so what the program does in between is recorded, and of two calls
  in a row the reader takes the END for the key's line; MyPinTool, TaintTool and
  RefMaker leave out instructions with one operand; RefMaker opens a file but
  prints on the console.
* Call stacks: as compiled, the sites printed with a leak are the function of the
  trace's first instruction. With `updateStacks`, a `ret` pops its function and
  pushes it again, and once the first function has returned nothing is pushed
  any more and the depth counts on below zero.
* A stride of the loop detector that overruns the vector and agrees with what lies
  there takes the iterator over `cend()` (`Loop.cpp:151`, `:211`), which the loop tests
  by `!=`: the pass reads on behind the vector until the process is killed, confirms
  what lies there (the exception of `ConfirmedRepeat`), and writes no report, not
  even of the loops it found in the trace.
* Ids are positions until a header is met; from then on they begin with the batch
  size, and `Loop.cpp:102` takes them for positions.
* Of four targets on three processes two chunks are made, so that one process has
  nothing to do; of eight on eight, four.

### 3.5 Bounds

Every bound is a CONSTANT of the module or a definition of its MC module. The
reasons they are large enough:

* *Files.* Six lines hold a header, its key line, a full batch, an empty line,
  END and a line after it. `IdSpace` is larger than any id reached: the wrap at
  2^32 needs a trace of 2^32 instructions. Two routines on the stack are one traced
  and one inside it, three instructions one before, in and after the inner one.
* *Memory.* Two dwords, of which one straddling dword overlaps both; a byte has
  two values, so any two contents can differ. Mistakes of the merge show within
  two instructions; TLC explores sequences of any length. The disassembled functions
  have two blocks of three and two instructions: one writes under one text, one reads
  under another, one moves a register between.
* *Lanes.* Three-bit bytes keep carry, sign, overflow and the bit that spills over
  apart; four of them are `eax`. Keys and initial values lie around the limits of
  bytes and dwords. Three instructions are: spoil a part, use it, jump.
* *Replay.* Five instructions are: obtain key, compute, set flag, record,
  and one more; one-bit registers have carries and two cache lines.
* *Function table and call stacks.* Three routines are one cached, one nested in it
  and one adjacent; five addresses leave room for wrapping. Four sites and a
  depth of three below zero are: in, out, in again, out of all.
* *Estimate.* Two addresses, constraints satisfied by the key only, by another
  input only, by both, by none, and one without symbols. Two rounds of two
  samples meet the minimum, miss it, and use the limit up.
* *Detector.* 13 instructions hold a loop of two, its confirmation, a skipped
  stride, a mismatch and a second loop of three behind it: every branch in every
  order. `MinLoop` 2 instead of 20 keeps the window but makes the lookahead
  reach past a body, which 20 would hide; the proofs cover both. Behind the vector lie
  one of three bodies that the traces repeat or an opcode they do not have, chosen
  anew in every turn; seven positions are the fewest in which a loop can be proposed
  and confirmed after a stride has jumped over `cend()`.
* *Matching.* Four bits split an input into two groups and each group into bits;
  `Sizes` are those of an output and of two and three inputs.
  The pairs of traces are chosen for the ends `bitVarmap` can come to; the
  `MCFormulaMatching` module says for what each stands.
* *Pool.* Four targets on two processes fill two chunks, three processes leave one
  without any; two references make a worker write while another reports the first.

`MaxInsts` of `ReplayLoop` and `LaneReplay`, `MaxSites` and `MaxFall` of the call
stacks, `MaxRecorded` of `PathLeak` and the bounds of `Tracers` cut behaviours
short. Where a tool comes to an end, a stuttering action (`Ended`, `Finished`,
`AllRead`, `Stopped`) stands for it, so deadlock is checked everywhere. In
`StartPool`, `Stopped` is also the wait of `join` for a killed worker's chunk, which
the code really never leaves.

### 3.6 Fairness

* `PathLeak` and `TraceReaders` assume weak fairness of the steps of the estimate
  and of the readers: one thread each that waits for nothing. The program whose
  trace is recorded need not end.
* `FormulaMatching` states the same without `ENABLED`, which its guards make costly:
  infinitely many steps unless it is done (`RunsOn`).
* `StartPool!FairSpec` assumes weak fairness of the main process and of every worker:
  the operating system runs every process. Nothing is assumed of files that vanish,
  of workers that are killed, or of the clock.

No choice inside a step is assumed fair; `Finishes` of `PathLeak` holds for the
worst samples.

## 4. Proofs

Every invariant, refinement or lemma below was checked by TLC on the runs' instances
before it was proved.

| Module | Theorems | Argument |
|---|---|---|
| `TraceReadersProofs` | `TypeCorrect`, `NothingLost` | `Inv == TypeOK /\ InFile /\ LoadedInOrder`: the stream never stops between a header and its key's line, unless the file ends there; without that a key's line could become an instruction of the next call. |
| | `IdsArePositions` | `IdsOK`: a call starts where the caller's id points, no earlier call got further, and each header met costs a batch (`Reach`). For callers that keep up (`KeepsUp`: the first call is no longer than the later ones, and a single instruction where the id lags behind; the loops in the code are such) and files whose ids fit their width (`IdRoom`). |
| | `QifTypeCorrect`, `LimitsRespected` | `QifInv == QifTypeOK /\ BelowLimit`: a reading in progress has not reached its limit. An earlier reading may have left one instruction more than its own limit, so this needs limits that grow. |
| | `KeysAreInOrder`, `InstructionsRead` | `ReadingInv`: where the stream can be, and that h headers have left h symbols and h ranges of values (`HeadersOK`); `BodyOK`: what is in the vector before the line at hand. `InstructionsRead` is for files as the tools write them (`WellFormed`: headers with their keys' lines on top, then instructions and libc calls of two lines). |
| | `FirstCallIsTraced` | `TracerInv`: nothing is recorded before the first call and the stack has no such call (`BeforeCall`); from then on a tool cannot start again (`SinceCall`: `first_time`, `output_count`); within the call it records unless a call inside has returned (`InCall`); after it, it is silent unless the call was left unnoticed (`AfterCall`). |
| | `FirstCallIsLoaded` | `LoadInv`, over tool, file and reader at once. `BatchInv`: the extent stays in front of a later batch, with its `END` behind it. `CallShape`, `BatchShape`: in the file the instructions are on the lines from the third on, whether the key's line was added (`KeyedLines`) or the first instruction is in its place. `CallRead`, `BatchRead`: line n of the file is instruction n - 2 of the vector, up to where the stream is. |
| `ReplayLoopProofs` | `TypeCorrect`, `ReplayFollows`, `ConstraintsHold` | `Inv == TypeOK /\ RegistersFollow /\ FlagFollows /\ RecordedHold`: addresses rest on `RegistersFollow`, jumps on `FlagFollows` (a trusted flag has the program's value). `TurnFollows` shows that the comparison restores the first whatever the instruction did. |
| | `LeaksAreReal` | `KeyFollows`: the engine's key dependence is covered by the program's, register by register and in the carry, for every kind of instruction in `Losing`. |
| | `ReplayObserves` | The refinement `LeaksExact`: `EngineIsMachine` (engine and program agree, flags included), and each turn is then a step of `KeyFlow`. |
| `MemoryProofs` | `MemoryTyped`, `ReadsHeal` | Types, with the shape of a read's result; a naturally aligned read is within a cell that the self-check has just compared with the recorded word. |
| | `KeyIsNotInvented`, `MemoryRefines` | One argument for two relations, `KeyOnly` and `Same`: a cell's bytes are related to the program's (`Followed(rel)`), and every operation of the engine's memory, the libc loops included, keeps any relation that `Serves`. For `Same` the key must be in cells (`Cover`), which is what dwords filled by the key give. |
| | `EnginesReadsHeal`, `EnginesKeyIsNotInvented`, `EnginesMemoryRefines` | `EnginesSpec => Spec`: the composition with CryptoHunt's memories makes only steps of `SymMemory`, so the three hold of what the run checks. |
| | `DynIsExact` | `DynInv`: cells and register of `DynSEEngine` hold the origins of the program's bytes; cutting and joining of bytes is done once, in the lemmas on `Holds`. |
| | `EnginesStaticExact`, `EnginesBlocksExact` | The static engine runs beside the others' memories without touching them, so both hold of what the run checks. |
| `StaticProofs` | `StaticTyped`, `BlocksAreExact` | `Dealt`: what is left of the function's list after k blocks is what lies in none of them, still in order; the least index beyond a block's end is then where the next block's or the rest's instructions begin. |
| | `StaticIsExact` | `Exactly`: while the texts used so far are one to one with the places they named and no instruction was unfaithful, registers agree token by token (`Same`), and every cell that has a text holds the bytes of its place (`Matching`). One lemma for each instruction; the writes rest on what cutting a register or a dword and putting it together again returns (`Whole`, `Extract`, `Concat`). |
| `PathLeakProofs` | `PathExact`, `PathExactInReplay` | `TypeOK /\ SamePath` is inductive; `RecordedIsDirection` is the case split over the classes, on lemmas that say which flags the objects of `Constrain` describe (`OneFlagSays`, `TwoFlagsSay`). Without `JNG`, which violates it (`branch_jng`). `ReplayRecordsPath` (a refinement of `BranchConstraints`) carries it to the composition. |
| | `SameRunsCounted` | `RunsOK`: both erase loops keep the set of inputs that satisfy what the trace's key satisfies (`KeptErased`), and that set is the runs that go the trace's way. Without `JNG` and `JCXZ`; `JCXZ` has the class of another jump, so its constraints say something else. |
| | `ResultsMatchGroups` | `GroupsOK`: the groups partition the constraints by address in the order of the vector (`SplitOK`, `GatheredOK`), and a result is appended for each (`InStep`), through the erasing of groups whose samples fail. |
| `LoopDetectionProofs` | `TypeCorrect`, `ReportsRepeat`, `CandidatesInStep`, `Implementation` | `IInv == TypeOK /\ Shape /\ CandidatesAligned /\ ConfirmedRepeat /\ Distinct /\ WrittenOnce`, for every trace and whatever lies around the vector. `ConfirmedRepeat` is not inductive: a body is confirmed because its candidate has been compared instruction by instruction, so the invariant says what a live candidate has passed, and that candidates keep the finder's shape when they go stale. `LiveAligned` is the heart: whatever the check of the current body decided, the survivors are aligned; once the pass is astray none of them began in the vector. `Implementation` adds that no two confirmed bodies are the same as long as the pass is not astray (`Distinct`, from `std::find`), that nothing is written while the pass runs (`WrittenOnce`), and that a pass that has jumped over `cend()` never meets it again. |
| | `FirstLoopIsFound` | `NothingMissed`: until something is confirmed no stride is skipped, every position has been indexed, and each visible body whose repetition has begun has a candidate in step with the pass (`Followed`). The step in which several candidates finish needs that the first in the list is fresh (`FirstDoneIsFresh`). |
| `CallSitesProofs` | `TypeCorrect`, `AnswersHold`, `CacheInvisible`, `InteriorsAreExact` | `Inv == TypeOK /\ CacheSetLast`: the table is complete before the cache is set. The least-holder lemmas say what the linear search returns; where routines are back to back, two holders of one address meet at its boundary, so an interior has one. |
| | `DepthsAreHeights` | `DepthIsHeight` with the types of the stacks is inductive for every way of updating them, one lemma per operation of `CallStack`; then for `CallSites`, whose steps are steps of the stacks or leave them alone. |
| | `SitesAreThePath`, `TableIsKept` | `SitesInv`: a stack that is not at its end `Reaches` the path (the sites end with the function executed last, and the answer of the cached lookup is the uncached one by `CacheTransparent`); once the first function has returned the sites stay behind. `TableIsKept`: a replay with the table is a table. |
| `ComparisonProofs` | `TypeCorrect`, `PairsComparedOnce` | `PoolInv`: a chunk is in one place, whichever of queue, worker, ended or lost that is (`OnePlace`); a worker is at a pair of its chunk (`Positioned`); how often a pair was compared follows from where its chunk is and how far that worker has got (`Counted`). The lemmas on chunks say that `start.py`'s slices partition the targets. |
| | `ReportsAreExact` | `ReportInv`: what a match file holds was written by a comparison of that name (`FilesOK`, `NamedOK`), and while no two comparisons share a name nothing is overwritten (`Kept`). |
| | `MappingsAreExact` | `MapInv`, one statement for each stage of a call (`FrameOK`). Between tests the first `k` PartMaps divide the unmapped bits of both sides and the rest pair one bit (`Divided`, `Paired`). In `reduce` that is not inductive; what is: some one-to-one map of all bits is followed by the mapping and by every PartMap (`Working`). Splitting, erasing and taking out single bits keep that map, and the three parts of `MappingsExact` follow from it; it need not be known. That there is one after a test is `ConsistentFits`: where `checkConsist` lets a list pass, what two groups have in common has equally many bits on both sides, so that one-to-one maps of the common parts can be put together. |

The theorems hold for all values of the constants under the assumptions named in
the modules (`BoundsAssumption`: loops have at least two instructions;
`SurroundingsAssumption`: what can lie around the vector is made of instructions, and
at least two positions on either side can be read;
`AddressSpaceAssumption`, `FilesAssumption`; `HeaderAssumption`: a header is never
followed by a header; `LimitsAssumption`: one reading without a limit, or growing
limits; `NamesAssumption`, `KeyIdsAssumption`; `KeyInput \in Inputs`; at least one
instruction, a nonempty address space; `SettingsAssumption`, `FindsAssumption`,
`ClockAssumption`: at least one file on each side, at least one process, counts that
are counts; `ProgramAssumption`, `ContentsAssumption`: programs are made of the
instructions named, in range; `SizesAssumption`: numbers of bits are naturals). Conditions on the program are part of the properties
themselves, as in the runs: `Computed`, `Understood`, no words for `DynExact`,
separated or adjacent routines, `OneToOne` texts. `MemoryEngines` instantiates
`StaticProofs`, which is `StaticEngine` with its theorems, so that they can be cited
of the instance; its `StaticProgramAssumption` is what they ask of the programs.
`TraceReadersProofs` is first about `TraceLoading` and `QifLoading` by themselves, on
any file, and then about `TraceReaders`, the tools and both readers together.

Induction over the length of a list or the number of bytes is done without an
induction theorem: a nonempty set of naturals has a least element (`LeastExists` of
`StaticProofs`, from `WFMin`), and the least index at which a claim fails is refuted
from the one before it.

Attempts that failed told something about the model. `BlocksExact` was false of lists
that are not in the order of addresses, which no instance had; it now says so.
`CreateDataOperand` chose between overlapping cases, which TLC resolves by their order
and logic does not: it is now a chain of conditions, as the code is. The guards of
`Pop`, `Ret` and `Leave` compared an address that could have been no number.

Only model-checked:

* liveness (`LoadEnds`, `Finishes`, `Terminates`), which is beyond the prover;
* `LanesExact`, `FullWidthExact`, `FlagsTrusted`, `JumpsRefine` of `LaneReplay`,
  `FastEvalAgrees`, `SameFunctionFound`, `SameSubformulaMapped` of `FormulaMatching`:
  what a formula of any depth evaluates to is defined by recursive operators, which the
  prover does not read.

`FormulaMatching` reaches these operators, too, so no theorem says that its runs are
runs of `BitMapping`. They are because it changes `frames` and `maps` by `CallMap` (for
numbers in `Sizes`), `Test`, `MapTurn` and `ForgetMaps` only, and counts ones; the run
checks `MappingsExact` of it directly.

## 5. What is left out, and the plan

### 5.1 Not modelled

* *Byte taint* (`Tainter.cpp`) and *bit taint* (`BitTaint/`): no program reaches them.
  The loop of `TaintTrace`'s main that calls `taintIns` is a comment
  (`TaintTrace.cpp:40`), and so is the line of `Dataflow.cpp` (45) that would make a
  `BitTaint`. What their mains do, loading the trace, is the taint driver of
  `TraceLoading`.
* *`MonteCarlo`*, the estimator before `FastMonteCarlo`: only a demonstration calls it,
  and it is one loop over samples.
* *SSE instructions*: all are one class that does nothing, which is the kind "sse"
  of `KeyMemory` and `ReplayLoop`.
* *Printing*: leak reports beyond their order, formulas, loops, statistics.
* *ELF, debug information, options*: input and output without behaviour over time.
* *Disassembler script, Ngram's metric, `test_vs_traces.pl`, examples, tests*.
* *Threads of a traced program*: the Pin tools' globals are not locked; `Tracers` has
  one thread.
* `external/`, `target/`, `references/`, `results/`, `testVectors/`: vendored code,
  programs to be traced, and data.

Abstracted in the modules above: the text of instructions and operands beyond its
pieces; formulas beyond value and key dependence in `SymMemory` and `ReplayLoop`,
and beyond concatenation in `LaneFormulas`; partial registers and flags other than
the carry in `ReplayLoop`, which `LaneReplay` has; the parity flag; the bank and page
modes of `checkOperand`, which differ in a shift; ids that are not positions in the
loop detector (`IdsFollowPositions` says when they are), and what order it writes
reports in; the rounding and logarithms of
the reports. Arithmetic with memory operands is the pair `SymMemory` (the access) and
`LaneReplay` (the operation), never one instruction. Input the tools do not accept by
their own formats is not enumerated, except the missing key line.

Smaller things that no run shows: `SETcc` after a comparison of high bytes, whose
formula keeps their `low_bit` and fails the assertion in `writeReg`
(`QIFSEEngine.cpp:348`); `ebx`, which `CPUID` sets and the model does not have;
RefMaker's "Entering" and "Leaving" lines, which go to the console that no loader
reads; the order of equal elements under `std::sort` (`VarMap.cpp:565`), which is kept
in `BySize` and need not be for more than sixteen PartMaps; a worker of `start.py`
that is killed during a comparison, whose `SymbolicExecution` goes on beside the
process the pool starts instead (`Kill` is between comparisons); an `ofstream` that
puts part of a match file on the disk before it is closed; a comparison that aborts
after its first match (`ComparisonFails` is one that cannot open a file or aborts
before). Shifts by 32 and more, which C++ leaves open, take the count modulo 32, as
x86 does.

### 5.2 Next

Models: instructions with memory operands as one instruction of both `LaneReplay` and
`SymMemory`; a traced program with threads in `Tracers`; the vectors that a
second reading of QIF_EXP finds, composed with `PathLeak`.
