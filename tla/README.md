# ZX BASIC: formal models and proofs

This directory holds a TLA+ model of the parts of ZX BASIC (the Boriel BASIC
compiler, its assembler `zxbasm` and the Z80 runtime library linked into every
compiled program) that carry its trickiest state, the TLC configurations that
check it on small instances, and proofs of its most important invariants.
Everything is translated from the source under `src/`; the line ranges each
definition stands for are in `PROJECT.json`, under `map`.

    tlc -workers 2 -config MCHeap.cfg MCHeap      # one run; all are in PROJECT.json
    tlapm HeapProofs.tla        # the proofs: also HeapMemProofs, StringsProofs,
                                # StringOpsProofs, AsmMemoryProofs, PreprocProofs,
                                # SymbolTableProofs and SequenceLemmas (the longest,
                                # AsmMemoryProofs, takes a quarter of an hour)

## 1. Inventory of the system

Compiling `prog.bas` is a pipeline of passes in one process and one thread:

    zxbpp (preprocess) -> zxbparser (parse; symbol table, syntax tree)
      -> api/check, api/optimize -> Translator visitors (quadruples)
      -> backend (assembly) -> peephole and flow optimizer -> zxbasm -> outfmt

The compiled program is a second system: the emitted code plus the runtime
library (`src/lib/arch/*/runtime/*.asm`), in which strings, local arrays and the
heap interact through raw pointers. Nothing runs in parallel in either. What is
hard is sequences: calls of the heap in any order, the life of temporaries across
an expression, frames of functions that call each other, statements of an
assembly or a BASIC program in any order, the code chosen for an instruction by
where its operands happen to be.

| Component | State it keeps | Operations | Used by / interacts with | Hard behaviour | What makes it correct |
|---|---|---|---|---|---|
| Memory manager (`runtime/mem/*.asm`) | headers and links inside the heap; `TEMP`, a pointer kept in an instruction | `__MEM_INIT`, `__MEM_ALLOC`, `__MEM_FREE`, `__REALLOC`, `__MEM_CALLOC` | called by every string routine, by local arrays, by `alloc.bas` | any order of calls; the list lives in the memory handed out; 16-bit wrap | blocks tile the heap, the list is sorted and joined, nobody's bytes are damaged, requests refused only when they must be, calls return |
| Strings: ownership (`_str.py`, `strcpy`, `strcat`, `loadstr`, `storestr*`, `strslice`) | a pointer per variable, temporaries on the stack | assign, concatenate, slice, load, pass, return, compare, leave a function | the compiler decides which operands are temporaries; the program frees them | freeing decided at compile time, done at run time; heap full | each block has one owner and is freed once; texts are those of BASIC |
| Strings: values (`string.asm`, `strslice.asm`, `letsubstr.asm`, `symbols/strslice.py`) | none beyond the strings | comparison, slicing, assignment to a slice, folding | emitted code; the compiler folds what it can | wrap at 65535, strings next to other bytes | results are those of BASIC, the compiler's folding agrees, nothing outside is written |
| Assembler memory and labels (`zxbasm/memory.py`, `label.py`, `asm.py`) | bytes, instructions per address, label objects, scopes, temporary labels, namespaces | PROC/ENDP, LOCAL, declare, use, ORG, `#line`, namespaces, dump | driven by `asmparse.py`; label objects shared by scopes and instructions | declarations and uses in any order; several instructions at one address; end-of-scope handover | every operand has the address of the visible declaration; duplicates are reported; proper programs assemble |
| Instruction encoding (`z80.py`, `asm_instruction.py`, `expr.py`) | none | encode, evaluate | the assembler | operand widths, relative jumps out of range | each mnemonic gives the bytes of the Z80 manual; a table, covered byte by byte by the functional tests |
| Symbol table (`api/symboltable`, `api/check.py`) | scopes with two indices each, entries shared by the tree, pending calls and labels | declare, access, enter/leave scope, move undeclared entries out | driven by the parser's actions; read by every later pass | uses before declarations; what an entry is may change after it was used; entries moved onto others | what the program refers to is defined, names of the output and cells of a frame are distinct, errors are reported exactly when there are any |
| Parser (`zxbc/`) | the parser's globals: loop stack, function level, labels | grammar actions | the symbol table, the tree | loops and functions left half way by an error | the stacks are balanced at the end of each construct |
| Syntax tree (`symbols/`, `ast_/`) | attributes of nodes | construct, fold, convert | parser, optimizer | constant folding at 8/16/32 bits | folding agrees with the runtime |
| Tree optimizer (`api/optimize.py`) | marks on functions and variables | visit | symbol table | recursion, order of visits | nothing reached is dropped |
| Visitors (`arch/z80/visitor`) | loop and data tables, temporaries | one visit per node | optimizer, backend | string temporaries; where each parameter, local and array of a frame is; FOR edges, READ/DATA | a variable holds what was last assigned to it under any name; a frame is left as it was found |
| Backend (`arch/z80/backend`) | options, required libraries | one routine per quadruple | visitors, optimizer | operands as constants, variables and temporaries, at five widths; special sequences for some constants | each sequence computes its operation, pops what it uses, writes its destination only |
| Assembly optimizer (`arch/z80/optimizer`) | abstract registers, flags, memory | execute, look ahead, delete | works on the assembly text | stale knowledge of the processor | no instruction that matters is removed |
| Peephole (`arch/z80/peephole`) | none; rules are data | match, rewrite | runs on the backend's text | rules that enable each other | each rule keeps the meaning; rewriting ends |
| Preprocessor (`zxbpp`) | ENABLED and IFDEFS, the stack of files, CURRENT_FILE and CURRENT_DIR, definitions, the output | `#if…`, `#include`, `#define`, `#pragma once`, `#line`, expansion | front of both the compiler and the assembler | nesting across files; what a directive does while it is disabled; text kept or dropped long after it was read | text is kept exactly when its conditions hold, disabled directives have no effect, lines are reported where they are |
| Options (`api/options.py`) | a stack of values per option | push, pop, assign | everything | unbalanced push/pop | pop restores |
| Output formats (`outfmt`) | bytes | emit | assembler | lengths and addresses near 64K | checksums and block lengths are those the loader expects |
| Runtime arithmetic and conversion | registers | routines | emitted code | overflow, sign, zero | agree with the definition |
| Runtime arrays | memory | address, bounds, free | strings, heap | dimensions ≥ 256, zero elements | addresses are right |
| Screen, keyboard, sound, storage; other targets; standard library | hardware registers, the print position | device routines | the ROM | timing | the position stays on the screen |

Generated parsers, tests, documentation and examples keep no state.

The status of each and the reason for it are in `PROJECT.json`, `components`; the
hazards, each at its line, in `hazards`.

## 2. What is modelled, and how it corresponds to the code

    Allocator  <--implements--  Heap  <--implements--  HeapMem
                                 ^                      ^
                                 |  HeapProofs          |  HeapMemProofs
    Strings    <-- StringsProofs     (the heap as a set of blocks, as Allocator promises)
    StringOps  <-- StringOpsProofs   (values)
    AsmMemory  <-- AsmInvariants <-- AsmMemoryProofs   (the assembler)
    Preproc    <-- PreprocProofs
    SymbolTable <-- SymbolTableProofs
    Z80 -- Arith -- Codegen16 -- Codegen8 -- Codegen32 -- CodegenReal -- Codegen
     |                                          |  (Longs, Reals, Calculator)
     |                                          +-- CodegenFrame -- Frames
     |
     +-- Assembly -- Peephole -- CpuState -- BasicBlocks --+
                                   TreeOptimizer ----------+-- Statements -- Programs

    SequenceLemmas  (lemmas about sequences and induction, for the proofs)

**Allocator** is the promise: extents that never overlap, a request granted with
any vacant extent that is long enough and refused only when there is none.

**Heap** is the free list at the level of headers. `size` and `next` are the
length and link words, by the address of the block; `cur`, `prev`, `len`, `blk`
are HL, TEMP and BC in the two routines; `pc` is the label the processor is at.
One action is one trip round a loop of the assembly or the straight code after it:
`AllocSkip`, `AllocWhole`, `AllocSplit`, `AllocFail` for `__MEM_ALLOC`,
`FreeSkip`, `FreeLink`, `JoinBlock`, `JoinPrev` for `__MEM_FREE`; `Realloc` starts
a release that goes on to an allocation. Registers are cleared on return because
the routines do not read them on entry.

**HeapMem** is the same code over bytes: headers live in `mem`, words are two
bytes, addresses wrap, stores below `RomTop` are lost, LDIR copies byte after byte
and takes a count of 0 as the whole space. It adds the copying of `__REALLOC`, the
fill of `__MEM_CALLOC` and a program that writes its blocks; `data` records what
the program expects to read back and no routine looks at it. `ImplementsHeap`
rebuilds the block list from the bytes (`BlockStarts` follows lengths,
`FreeStarts` follows links).

**Strings** is who owns which block. `var` holds the pointers of the variables,
`stack` those of the temporaries; the operators `StrAssign`, `LoadStr`, `AddStr`,
`StrSlice` are the runtime routines and return the set of heaps and pointers they
may leave; the actions are what `_str.py` and the visitors emit around them,
`FreeTemp` being the `free_sequence` calls. `val` and `tval`, the texts BASIC
says each should have, are read by no action. Which unused block an allocation
returns does not matter here; it is a block of the length asked for plus a slack.

**StringOps** computes, for two strings lying in memory, what `__STRCMP` and the
six operators, `__STRSLICE`, `__LETSUBSTR` and the compiler's folding of constant
slices return, with the 16-bit arithmetic of the code.

**AsmMemory** is the class `Memory` as the parser's actions drive it; `kit` is what the
program is made of (`Kits`). Label objects
are positions in `labels`, so that a scope and an instruction may share one; the
scopes are `local_labels`; `slots` and `cells` are `orgs` and `memory_bytes`; the
temporary labels are `tmps` and `pending`. `errors` records each report once. An
instruction is one cell holding its operand. `log` is the program as read, used by
the properties only: they are stated over the source program (which declaration is
visible from a use) and not over the tables the code keeps.

**Preproc** reads its files a line at a time; what a file contains is chosen as it
is read and found again when it is read twice. `filestack`, `current_file`,
`current_dir`, `enabled`, `ifdefs`, `id_table` and `included` are the globals of
`zxbpp.py`; `parser` is the stack of the LALR parser, where the output of open files
and blocks waits for the reduction that keeps or drops it. `conds`, `shown`,
`sealed` and `begun` are the history the properties speak of.

**SymbolTable** is `SymbolTable` and `Scope` as the statements of a program drive
them: DIM (plain, at an address, at that of another variable), assignments and uses,
`@`, labels and GO TO, calls, and SUBs inside SUBs. An entry is a place in `entries`,
so that the tree (`refs`), two indices of a scope and two scopes may share it, and it
changes class when the name turns out to be something else. `LeaveScope` gives
offsets, moves entries of unknown class to the global scope and makes the rest
inaccessible; `ProgramEnd` is `check_pending_labels`, `check_pending_calls` and the
checks after them. `said` is the program as read, for the properties.

**The code generator** is modelled with the machine its code runs on. `Z80` is the
processor: instructions are tuples, `Run` executes a sequence with jumps, calls and
a stack of bytes, and `Routines` are those of the runtime library, instruction by
instruction where they have control flow of their own. `Arith` adds multiplication
and division at 8, 16 and 32 bits. `Codegen16`, `Codegen8`, `Codegen32` and
`CodegenReal` are the emitters of `_16bit.py`, `_8bit.py`, `_32bit.py`, `_f16.py` and
`_float.py` (with `generic.py` and `common.py`): from operands, tagged as constants,
variables, addresses and temporaries, direct or indirect, to code. `Longs` and
`Reals` say what the operations mean, on pairs of words and on floats of five bytes;
`Calculator` is the calculator of the ROM (external: it is not under `src/`).
`CodegenFrame` has the instructions about IX: locals, parameters, arrays and their
elements, the start and end of a function, and the array routines of the library.

**Codegen** pushes up to two operands, or uses variables and constants in their
place, emits one intermediate instruction and runs it. `want` is what should then be
on the stack. Registers start with arbitrary values, and addresses hold a byte that
tells a stray write.

**Frames** emits and runs the statements of a program whose functions call each
other: assignments between variables, constants and elements of arrays, calls with
parameters by value and by reference, returns. `cpu` is the machine, `mem` what each
variable and element should hold by the meaning of BASIC, where a parameter by
reference is another name of a cell (`env`). The visitors' part (`ParamOffset`,
`LocalOffset`, `Prologue`, `Epilogue`, `visit_*`) decides where everything is; the
state is compared at the end of each statement.

**Programs** compiles a whole program of statements and runs what comes out, at any
level of `-O` and at any start of its variables. It composes what the compiler
composes, in its order:

* `TreeOptimizer` is `api/optimize.py` with the parts of `symbols/` and `api/check.py`
  it uses: a tree is a tuple whose first member is the token; `UnreachableCode`,
  `AccessedLabels`, `Optimizer` are the three visitors, `make_node` and
  `make_typecast` the folding and the conversions.
* `Statements` is the translator: one `visit_*` for each kind of statement, to chunks
  of assembly (a chunk is what the backend emits for one quadruple), with the stack of
  loops for EXIT and CONTINUE.
* `Assembly` is a line of assembly as the optimizers read it (`asm.py`,
  `helpers.py`, `memcell.py`): its operands, what it destroys and what it requires.
  `Executed` gives a line to Z80, so that a program can be run after any of them.
* `Peephole` is the engine with the rules of flags 0, 1 and 2 (`Rewrites`), the joining
  of chunks that applies them (`Backend.emit`), and the removal of labels not used.
* `CpuState` is what the optimizer believes of the processor: registers, halves of
  registers, flags and memory, as numbers, names of unknown values or labels.
* `BasicBlocks` is the partition into blocks, the graph between them, the look ahead
  for a register or a cell (`is_used`), and the rules of levels 3 and 4.

A state is a program (`source`) at a level of optimization and how far the compiler
is (`stage`): `Parse` or `Reject`, `Translate` to chunks, `Join` one chunk after the
other as `emit` does, `Relabel`, the second pass without the labels nobody uses, and
`Optimize`, by blocks, at levels 3 and 4, whose order of the labels it joins is open
(`JUMP_LABELS` is a set). Beside the compiler are what the statements mean (`Meaning`
runs the tree over the bytes of memory, statement by statement) and what the assembly
does (`Execution` runs it line by line, `DidLine`, on Z80). `SameEffect` compares the
two for the final assembly. At the stage "joined", before the optimizer of blocks,
`KnownRight` runs the assembly with the belief of the optimizer beside the machine and
compares them after each line, and `UsedRight` spoils, at the start of each block that
is reached, the registers said not to be used, and compares the outcomes.

## 3. The runs

Those with `expect: violation` are where the code disagrees with what one of its
comments, documents or tests says (section 6).

| Run | Checks | Instance and why it is enough |
|---|---|---|
| `heap` | `TypeOK`, `Tiling`, `FreeListSorted`, `Defragmented`, `WalksRight`, the refinement `ImplementsAllocator`, liveness `CallsReturn` | 22 bytes of blocks and requests 2, 3, 5, 8: up to five blocks, whole and split grants (2 and 3 leave remainders 0–3 and more), joins with either, both or no neighbour, refusals with enough memory in pieces |
| `heap_mem` | `ContentsIntact`, `Confined`, the refinement `ImplementsHeap` | 36 addresses, a heap of 16 bytes, requests 2 and 6: splits, whole grants, joins, reallocations in place and over the old block, refusals |
| `strings` | `OneOwner`, `TextFits`, `ValuesRight` | two variables, two temporaries of two characters in all, a waste of one byte instead of four: every pair of operands of every kind, the same variable twice, in-place and fresh assignments |
| `strings_full` | `NoSharing` when an allocation may fail | violated |
| `string_ops` | `ComparisonsRight`, `SliceRight`, `FoldingAgrees`, `SliceAssignmentRight` | every pair of strings of up to three characters, every byte that follows either, and every index of an 8-value word, the last included: indices up to, at and past the end, past it from inside, and the wrap |
| `asm` | `OperandsResolve`, `DuplicatesRight`, `ProperAssembles`, `TemporariesResolve`, `OutputPlaced` | scopes two deep in three kits: every program of up to seven statements about one name (a declaration or use before, in and after PROCs with LOCAL, twice, nested or not), of up to five about two names, and of up to five with a temporary label, a named one, two files, `#line`, a namespace, ORG and empty instructions |
| `preproc` | `EnabledRight`, `CurrentFileRight`, `OutputRight`, `PositionsRight`, `OnceOnly`, `DisabledInert` | three files, two of one name in two directories, five lines of any kind in all, four files and blocks inside one another: a file that includes itself under a condition, a block around an include, #else in both states, a pragma after the second inclusion |
| `symtab` | `ReferencesDefined`, `MangledDistinct`, `FramesDisjoint`, `Accepts` | a variable and a label spelt alike but for case, a name never declared, two SUBs of up to one parameter, nested once; six statements: a use, its declaration and a second one on either side of the start and end of a SUB |
| `codegen` | `Balanced`, `ValuesRight`, `MemoryRight` | every instruction with every kind of operand in every position, and values at the edges of each type and of the constants that have sequences of their own (`MCBytes` … `MCFloats`) |
| `float_jump` | `FloatJumpRight` | violated |
| `frames` | `VariablesRight`, `FramesIntact` | six programs (`MCKits`): parameters, locals and results of 1, 2, 4 and 5 bytes by value and by reference; arrays of one and two dimensions, with lower bounds, with and without initial values, global, local and passed; variables on both sides of the reach of IX; calls two deep, recursive too |
| `programs` | `SameEffect`, `KnownRight`, `UsedRight` | all levels, 0 to 4, and two contents of memory (one in which words point to each other's cells): eleven simple statements, every pair of them, each in fourteen compound statements (both forms of IF, every loop, EXIT and CONTINUE out of inner loops, a jump into a branch that is never taken) and in programs with GOSUB, GOTO forwards and back, and END in the middle |

What the properties of the passing runs say, in one place:

* *Heap.* Blocks tile the heap and none is shorter than its header and link
  (`Tiling`); the list holds every free block once, by address (`FreeListSorted`);
  no two free blocks touch between calls (`Defragmented`); TEMP follows the walk,
  every block passed was too short and a released block is linked at its place
  (`WalksRight`); a request is refused only if no run of bytes long enough is free
  anywhere (`ImplementsAllocator`); walks end (`CallsReturn`).
* *Bytes.* What the program stored stays (`ContentsIntact`), nothing outside the
  heap is written (`Confined`), and a pointer leads to as much room as was asked for
  (the second half of `ContentsIntact`).
* *Strings.* No pointer to a freed block, no block with two owners, none with no
  owner (`OneOwner`), no text longer than its block, and every text right.
* *Values.* Comparison, slicing and assignment against definitions written from
  BASIC's meaning; after the string an assignment changes only bytes its slice
  reaches, `p0` of them at the most.
* *Assembler.* Operands get the address of a visible declaration; LOCAL hides;
  a name declared twice is reported, and a duplicate is reported for such a name or in
  the two situations with nested PROCs that `DuplicateMeansTwo` names; programs that
  keep the rules (`Proper`) assemble; temporary operands get the label a reader would
  say; the output has operands at their addresses.
* *Preprocessor.* ENABLED is the conjunction of the open conditions; a file is
  looked for where the one being read is; the output is the lines all of whose
  conditions hold, at the positions `#line` says; a file marked once is read once; a
  disabled directive has no effect.
* *Symbol table.* What an accepted program refers to is defined; two things have not
  one name in the output, nor one cell of a frame; double definitions are refused and
  proper programs accepted.
* *Code.* Each instruction leaves the stack balanced, the right value on it and the
  rest of memory as it was; every variable of every active function holds what was
  last assigned to it, under any name, and calls leave IX, stack and heap right.
* *Programs.* The assembly of a program, at every level, leaves memory, the number of
  END, the stack and the registers of the caller as the statements say (`SameEffect`);
  what the optimizer of blocks believes of registers and memory is true wherever it
  believes it (`KnownRight`); registers its search finds unneeded at the start of a
  block are (`UsedRight`).

### Preconditions of the passing runs

They exclude only what section 6 shows or lists, and are named in the modules:

* `Heap`: requests of two bytes or more, a heap below the top of memory
  (`HeapAssumption`). Strings ask for their length plus two.
* `strings`: `MayFail = FALSE`. When an allocation fails the ownership is lost,
  which is `strings_full`.
* `string_ops`: `OrderRight` leaves out a string compared with its own prefix;
  `SliceRight` lets a slice whose upper limit is past `Words - 2` (the code's
  `MAX_STRSLICE_IDX`) be too short and `FoldingAgrees` leaves it out;
  `SliceAssignmentRight` leaves out the slice from 0 to `Words - 1` and, for a slice
  that ends past the string, bounds what is written there instead of forbidding it.
  `SliceRight` takes a slice past the end to be cut there, against a comment of the
  source. All of these are in section 6.
* `asm`: `DuplicateMeansTwo` excepts a name used in a PROC around the one that declares
  it (`UsedAround`) and programs in which a LOCAL label has no value, and `Proper`
  leaves out the first; both are in section 6. The properties leave out operands that
  share an address (`AloneAt`) and, for temporary labels, programs whose lines go back
  or have two statements about one name, in any namespace (`OrderedLines`; section 6).
* `symtab`: `Accepts` is about programs in which a name means one thing and is not
  taken the address of before it is known; aliases of locals are not referred to.
* `codegen`: `Deviations = FALSE` leaves out the operands section 6 lists (`Wrong` and
  the guards beside it), `Interrupts = FALSE` the interrupt in `__SWAP32`.
  `LoadIndirect` has no constant address for widths other than 8 and 16: the emitters
  give such a load one indirection too many, and no visitor emits one.
* `frames`: `Deviations = {}` leaves out the four kinds of code listed in section 6.
* `programs`: the programs leave out what section 6 shows (a constant operand wider
  than the variable it is added to, loops over an empty range of constants, jumps into
  a loop that is removed, a pointer to a variable that is assigned as well, END with a
  byte variable). `KnownRight` is about registers and the cells of memory whose address
  the optimizer knows: not about flags, nor cells at `(label - 1)`, whose text the
  optimizer does not connect with that of the cell. `UsedRight` is about registers at
  the starts of blocks. `SameEffect` is about programs that end (`Fuel`, below).

### Bounds

`HeapSize`, `Requests`, `Base` (values of a byte), `Words` (values of a word),
`MaxLen`, `MaxTemps`, `Slack`, `Waste`, `MaxIndex`, `MaxMem`, `MaxDepth`, `MaxSteps`,
`MaxLines`, `MaxOutput`, and `statements`, `maxSteps` and `maxDepth` in the kits.
In `Programs`, a program that takes more than `Fuel` statements, 64, is not looked at
(eleven of the about 350 programs, which never end whatever memory they start with; all
others end for one of the two contents or both), and one that takes more than
`FuelOfLines` lines of assembly, 512, counts as not ended, which `SameEffect` refuses.
`Waste` is 4 in the code and smaller in the runs. No bound cuts a routine half way:
`MaxTemps` and `MaxLen` are limits on expressions, the number of statements and lines
on programs, and the others are the sizes of the machine. `Codegen`, `Frames` and
what they use have the real widths.

All runs but `heap` and `strings` switch deadlock checking off, because a program
that has been assembled, compiled or run, and an operation that has been done, are
the end.

### Fairness

Only `FairSpec` of `Heap` and `HeapMem` states fairness: `WF_vars(Step)`. A routine
that has been entered is executed by the processor instruction after instruction, so
some step of it is taken as long as one is possible. Nothing is assumed of `Call`:
no one obliges the program to call the heap. `CallsReturn` is the only liveness
property, since nothing else in the modelled parts waits.

## 4. What is proved

For every value of the constants that the modules' assumptions allow: any heap address
and size and set of requests, any files, macros and depth of nesting, any programs for
the assembler, any programs, names, sizes of variables and depth of SUBs for the symbol
table, any number of variables and temporaries and any length of their texts.
What the theorems assume besides is in the table.

| Module | Theorem | States |
|---|---|---|
| `HeapProofs` | `TypeCorrect` | `Spec => []TypeOK` |
| | `NoOverlap` | `Spec => []Tiling` |
| | `SortedFreeList` | `Spec => []FreeListSorted` |
| | `AlwaysDefragmented` | `Spec => []Defragmented` |
| | `WalksCorrect` | `Spec => []WalksRight` |
| | `HeapImplementsAllocator` | `Spec => ImplementsAllocator` |
| `HeapMemProofs` | `HeapMemImplementsHeap` | `Spec => ImplementsHeap`, if `Sane` |
| | `HeapMemIsAllocator` | `Spec => P!ImplementsAllocator`, the two refinements together, if `Sane` |
| | `ContentsAlways` | `Spec => []ContentsIntact`, if `Sane` |
| | `ConfinedAlways` | `Spec => []Confined`, if `Sane` |
| `StringsProofs` | `FitsAlways` | `Spec => []TextFits`, the heap full or not |
| | `OwnedAlways` | `Spec => []OneOwner`, if allocations do not fail |
| | `ValuesAlways` | `Spec => []ValuesRight`, if allocations do not fail |
| `StringOpsProofs` | `ComparisonsAlways` | `Spec => []ComparisonsRight` |
| | `SlicesAlways` | `Spec => []SliceRight` |
| | `FoldingAlways` | `Spec => []FoldingAgrees` |
| | `SliceAssignmentsAlways` | `Spec => []SliceAssignmentRight` |
| `AsmMemoryProofs` | `DuplicatesAlways` | `Spec => []DuplicatesRight` |
| | `OperandsAlways` | `Spec => []OperandsResolve` |
| | `PlacedAlways` | `Spec => []OutputPlaced` |
| | `TemporariesAlways` | `Spec => []TemporariesResolve` |
| | `ProperAlways` | `Spec => []ProperAssembles` |
| `PreprocProofs` | `EnabledIsRight` | `Spec => []EnabledRight` |
| | `DisabledIsInert` | `Spec => DisabledInert` |
| | `CurrentFileIsRight` | `Spec => []CurrentFileRight`, if `"empty"` is not one of `Kinds` |
| | `OutputAlways` | `Spec => []OutputRight` |
| | `PositionsAlways` | `Spec => []PositionsRight` |
| | `OnceAlways` | `Spec => OnceOnly`, if `"empty"` is not one of `Kinds` |
| `SymbolTableProofs` | `FramesAlways` | `Spec => []FramesDisjoint` |

`Sane` says of the bytes what `HeapAssumption` says of the blocks: the heap ends below
the top of memory, where the end of a block would be 0 and equal NULL, and requests
have two bytes or more and do not wrap when their own length is added; section 6 lists
what the code does otherwise. `MayFail = FALSE` says that the heap has room: without it `strings_full` shows the first
of the two to be false. An included file of
no bytes leaves CURRENT_FILE behind (below), and with it what is compared with INCLUDED.
The other assumptions are the named ones of the modules (`HeapAssumption`, `HeapMemAssumption`,
`StringsAssumption`, `StringOpsAssumption`, `AsmAssumption`, `PreprocAssumption`,
`SymbolTableAssumption`, `StatementsAssumption`), which TLC evaluates in the runs. All obligations are checked by `tlapm` with Z3, Zenon and
LS4; nothing is omitted.

*The heap.* None of the first five is inductive alone. `Tiling` can only be kept by a
join if the block absorbed is the very next one in the list, which is
`FreeListSorted`; the list can only be kept sorted by `FreeLink` if the walk stopped
at the right place, which is the second half of `WalksRight`; `Unlink` keeps it only if TEMP is the
predecessor, which is the first half; and after a split the shortened block must
not touch its successor, `Defragmented`. `Inv` is the conjunction of all of them
with `DeadRegisters` (what registers hold in routines that do not use them). There
is a lemma per action (`AllocFailInv` … `JoinPrevInv`), one for the three calls
(`CallInv`), and three about the list: `BlockFacts` (no free block lies inside
another block), `OneLink` (two links do not lead to one block) and `AbsorbHeap`
(joining two blocks that touch keeps the whole heap well formed, used by both
joins).

*The refinement.* Each call is the step of Allocator of the same meaning (`CallMaps`),
the walks, the links and the joins are stutters (`WalkStutters`: they change no block
the program holds), and the two ways of granting are `Grant` (`AllocWholeGrants`,
`AllocSplitGrants`, with `OwnedApart`: no extent held covers a byte of a block that
is not). The interesting one is `AllocFailRefuses`: the walk has found every free
block too short, and one must show that no extent long enough is vacant, wherever it
starts. If there were one, the block its first byte is in (there is one: `Covered`)
would be free and end before the extent does, so the block after it would be free
too, hence next in the sorted list and touching, against `Defragmented`. This is
where the joins of `__MEM_FREE` pay off: without them the theorem is false.

*The bytes.* `Mapped` says that the blocks the bytes make up satisfy `Inv`, as an
instance of `HeapProofs`, that what the program stored lies inside a block in use, and
what the call in progress keeps in registers. Where a block starts depends on the
lengths in memory, so the first half of the module is about two things: what a store or
a copy leaves in the cells around it (`StoreWordIs`, `HeaderStored`, `LdirIs`), and how
the places that lengths or links lead to change when one of them does. `Reached` is the
only set closed under the step that leads from each place to the next (`FixedOnce`); a
place is added after one that is there (`ReachedMore`) or led past (`ReachedLess`), which
is what a split, a link, a join and a grant do (`BlocksMore`, `FreeMore`, `BlocksLess`,
`FreeLess`). Then each action has two halves. The block-level one: it is the step of
`Heap` of the same name, so `Inv` is kept by the lemmas of `HeapProofs`. The byte-level
one: it writes only in the headers of blocks not in use (`HeadersWritten`) or in the room
of the block it hands over (`PayloadWritten`). That the link of a free block and the first
bytes of a block in use share the same cells is why the second needs the first.

*The preprocessor.* The stack of the parser holds files and blocks in one order, and
the variables beside it hold only the one or the other: the lexers and CURRENT_FILE
the files, IFDEFS the blocks. What makes the reductions right is that they agree, in
order; `PreprocInv` says so with numberings: a strictly increasing function from the
places of `filestack`, and of `ifdefs`, to the places of `parser`, onto those of that
kind (`Numbered`). Pushing extends a numbering and popping the top restricts it, one
lemma each; then `EnabledIs`, that each entry of IFDEFS is the conjunction of the
conditions outside it, is kept by `#else` and `#endif`. `CurrentFileIsRight` needs
that no included file be empty: that one leaves CURRENT_FILE behind (section 6).

*The output of the preprocessor.* The output waits in pieces on the parser's stack, so
that what it will be cannot be read off one variable. `Z[i]` in `PreprocProofs` is what
the pieces of the `i` outermost files and blocks lead to: the lines of text in order,
the file and line the reader of the output is at, whether the text is live and how many
blocks are open. `Walk` relates a sequence of lines to what reading it does, `Trace` one
such step after the other; a reduction that keeps its piece joins two walks, one that
drops it must show that nothing live was in it, which is `EnabledIs` again. Beside it
`Counted` says how many blocks and files are among the outer ones, and `LexersOK` where
each lexer is. `TextsFollow` and `PlacesFollow` carry this to `TextOf` and `Placed`, the
recursive functions of the properties, by induction on the length of the output.

*The strings.* That every block has one owner is inductive only with what the code
counts on: the blocks of the heap are those its pointers lead to, no two pointers are
equal, and a block has at most `Waste` bytes more than its text. The last is not only
about room: `__STRASSIGN` of a variable to itself frees or keeps its block by comparing
lengths, and `a$ = a$` would free the text before it is copied if the block were longer.
`TextFits` needs none of this and holds when allocations fail too.

*The values.* Each routine gets a lemma about its operator (`StrCmpEqual`, `StrCmpOrder`,
`StrSliceIs`, `FoldIs`, `LetSubstrIs`). For comparison, the first difference lies inside
both strings unless one starts with the other, and if a$ is the longer one of those the
byte after b$ is read: `DifferenceInside` is the place where the exception of
`OrderRight` is needed. A slice to the last index wraps to an empty one (`SliceIs`). The
assignment to a slice compares the window, cut to the length of the whole string, with
what is left of it after `p0` (`WindowIs`, `AssignedIs`), and shows that the excess falls
outside the string, where the slice reaches and in `p0` bytes at the most (`RestIs`). None
of the four theorems restricts the strings, what follows them or the indices.

*The assembler.* Its invariants are defined in `AsmInvariants`, apart from their proofs
in `AsmMemoryProofs`. `DuplicatesInv` says of every label in a scope what the program read so
far has to do with it: one with a value was declared, one without was used or is LOCAL,
LOCAL ones are in the scope of their PROC only, and every declaration of a name that no
LOCAL hides is in the scope it was made in or in the global one. It holds as long as
nothing has been reported (`Quiet`), and what is reported is traced to two declarations.
The first attempts failed at nested PROCs, for good reason: see section 6.

*The operands of the assembler.* An operand and a scope share one Label object, so an
operand without an address is answered by whatever gives that object a value: a
declaration in its scope, or the hand-over of another scope's label at ENDP. `OperandsInv`
says where the operands that wait are and whom they wait for: `Waits`, that the object
is in the scope of every LOCAL that stood before the operand, or further in; `NoneAround`,
that a name waiting in a PROC is known in no scope around it; `Before`, that an operand in
the global scope was read before any declaration still in an open PROC; and `Answered`,
that one with an address has that of a declaration it may mean for good. Each statement is
one of three kinds to these: it puts a label into the current scope (`PutOperands`),
closes a scope (`ExitOperands`) or leaves the labels alone (`OtherOperands`,
`EnterOperands`, `SameOperands`). `Steady` is what they say of the labels, an action
property that the memory needs: an address once given stays, and a new one comes from a
later declaration. `Laid`, `Stored` and `Own` then follow the memory: an operand alone at its
address is either written or marked to be completed, unless an empty instruction came
first. `DumpIs` is about the recursive function of the dump, by induction on the
addresses: whatever is held back comes out before the next instruction, so every address
with an instruction has its place.

*Temporary labels* are not in the scopes: each use has a Label of its own, and the end of
the program searches the labels kept, by the line of the use (`Label.resolve`,
`memory.py:128`). `Kept` says that what is kept is exactly what was declared since the last
ORG, in the order of the lines of each file; `Asks`, that a use without an address still has
the name, file, line and direction that were read, and that none waits from before the last
ORG. The search goes by lines and the property by the order of reading: that the two
agree is `InOrder`, from `OrderedLines`, which holds of every beginning of a program it holds
of (`OrderedBefore`), so that it can be assumed at the end and used at every step.
`ResolvedMeant` is then that the first label the search accepts is the nearest one.
`AsmAssumption` says of the names that none is empty, which the lexer guarantees: a
statement about a name is told by it from one without (`NoName`).

*Programs that keep the rules* (`Proper`: as many ENDPs as PROCs and in order, LOCAL
before use, one declaration to a scope and no use around it) assemble. What is reported
while a program is read leaves a mark in it that the rules exclude (`Reported`, `Paired`).
What is reported at its end is a label without a value: one was made by an operand or by a
LOCAL (`Asked`), the rules give each of these a declaration, and that declaration has given
its value to the label by then, since what a scope keeps and what it hands over at ENDP
have been followed all along (`AllKnown`).

*The frames of the symbol table.* Offsets are given once, when a scope is left, to the
variables it has then (`LeaveIs`: in the order of their sizes, each after the sum of those
before, `SumIter`; with `-O2` only those that are accessed). Two things could put two variables on one
cell: an entry placed twice, and two SUBs with one namespace, whose frames have one name.
`Unplaced` (what an open scope made has no place) excludes the first; `Taken` the second:
the namespace of a SUB is its name in the scope around, and from the first time it is
entered that name is declared there, so that a second declaration of it is refused. This
must survive what moves entries to the global scope, as a label, a `GOTO` or a call does: such an
entry leaves the scope with its name, but, when case is ignored, stays known under the folded one
(`Stale`), and it must not hide, or start to be hidden by, an entry of the same name (`Mids`,
`Tops`). `Awaits` is the other half: an entry that the code refers to has a place, needs
none, or is in an open scope, and with `-O2` accessed, so that leaving that scope places it;
`Right` says that a change to the table keeps `TableInv` and every such reference, and
composes (`RightTrans`), so that each statement is followed change by change:
a new entry (`AddsRight`), a change of one entry (`ChangeRight`, `SetsRight`), a move
(`MoveRight`), a scope entered and one left (`EnterScopeKeeps`, `LeaveKeeps`).
The folds that place, move and declare sets of entries are taken one element at a time
by `FoldExists`, by induction on finite sets. Of the names it is assumed that folding the
case of one twice is folding it once, as `lower()` does, and that statements have
names of `Names`.

## 5. What is only model-checked

* Liveness (`CallsReturn`): the prover does not do fairness. The measure is plain
  from `FreeListSorted`, which is proved: a walk goes up in addresses.
* `ReferencesDefined`, `MangledDistinct` and `Accepts` of `SymbolTable`. `FramesInv` does
  not give them: the first two are about the mangled names of global entries, the last
  about what a program has said.
* `Codegen`, `Frames` and `Programs` rest on recursive operators (`Z80`, `Assembly`,
  `Peephole`, `BasicBlocks`, `TreeOptimizer`, `Statements`, `Longs`), which the prover
  cannot use: what they say is about all operands of an instruction or about the
  programs tried.

## 6. Where the code and its words disagree, and where it is wrong

Shown by a run each (details and quotations in `PROJECT.json`, `findings`):

* `strings_full`: with the heap full an assignment leaves the variable sharing the
  other string's block (or pointing to a literal) instead of empty.
* `float_jump`: `jzerof` and `jnzerof` test C, L, H, E and D, but the float is in A, E,
  D, C, B.

Seen while modelling, with no run. Those the models could show are left out of the
passing runs by the preconditions of section 3.

*Memory manager*

* `__REALLOC` does not keep the content: the block is released first, and links,
  lengths or the split are written over bytes still to be copied (`realloc.asm:119`).
* `realloc.asm:87` says a length of 0 frees the block; the code (122, 138) allocates
  a new one and copies 64K, as 0 − 2 wraps.
* Requests of 65534 and 65535 bytes wrap to tiny ones (`alloc.asm:102`).
* A request of one byte splits off a block of three (`alloc.asm:142`), too short for
  the link a free block needs (`alloc.asm:23-29`).
* A heap that ends at the top of memory has an end of 0, which equals NULL in the
  join test (`free.asm:152`).

*Strings*

* Comparing a string with its own prefix reads one byte too many (`string.asm:68`).
* A slice that ends past the string is cut to the string's end (`strslice.asm:45-48`;
  the comment in the code: "Copy to the end of str"). `strslice.asm:12-14` says
  "if Y > len(a$), then a$ will be padded with spaces (reallocating it in dynamic memory
  if needed)" and "NULL (0) if no memory for padding". The routine has no padding: it
  never writes a space, and the only NULL for lack of memory is that of the slice
  itself. `SliceRight` states what the code does, which is also what the compiler's
  folding does (`strslice.py:103-105`, Python's `s.value[lo:up]`), so that the comment is
  what is out of date; under its reading `SliceRight` would be violated by the shortest
  string, `""(0 TO 0)`.
* An assignment to a slice past the end writes past the end: the length is compared with
  that of the whole string and not with what is left from `p0` on (`letsubstr.asm:70`),
  although the comment at line 75 says "Truncate length of substring to fit within the
  strlen". `LET a$(2 TO 6)` of a string of three characters writes two bytes after it.
  `WritesWithin` shows that it is never more than `p0` bytes.
* A slice to 65535 is empty (`strslice.asm:41`); `LET a$(0 TO 65535)` has a length that
  wraps to 0 and fills memory with spaces (`letsubstr.asm:52`, `99-106`).

*Assembler*

* A name used in a PROC and declared once in a PROC inside it is reported as already
  defined (`PROC`, `jp f`, `PROC`, `f: nop`, `ENDP`, `ENDP`): the inner ENDP hands the
  label to the global scope, where the outer one's, still without a value, meets it
  (`memory.py:104-128`, `label.py:43`), and the operand is lost. The comment there says
  "Local labels are transferred to global scope unless they have been marked as local
  ones".
* After "Undefined LOCAL label" the scope stays open, and the next ENDP hands over its
  labels again: `PROC`, `g: nop`, `LOCAL f`, `ENDP`, `ENDP` reports `g` as already
  defined (`memory.py:111`).
* After an empty instruction a forward reference stays zero, silently
  (`memory.py:195`).
* `#line` going back in a file that has temporary labels trips the assertion of
  `memory.py:239-241` (the model's phase `"crashed"`).
* `__set_byte` does not look at MAX_MEMORY, its docstring says so
  (`memory.py:81-83`).
* `exit_proc` does not forget temporary labels (`memory.py:94`); `set_org` does.
* A temporary label on the line of its use is found in both directions
  (`memory.py:131-136`).
* The temporary labels of a line are kept by number, without the namespace: one that
  `#line` puts on the line of another, in another namespace, replaces it
  (`memory.py:245`).

*Encoding and output* (found reading, confirmed by assembling)

* `LD IYH,IYH` and `LD IYH,IYL` have the prefix of IX.
* With `#init`, or END with an address that is not the lowest, the start address in the
  TAP and TZX header and the load address of SNA and Z80 files are the entry point, not
  the origin (`asmparse.py:639`, `tzx.py:76`). With a label after the last instruction,
  or an ORG that goes back, the code of `#init` is not where the entry point says
  (`zxbasm.py:192`).
* DEFS, RST, BIT, ORG and ALIGN with a label defined later, and a circular EQU, end the
  assembler with an exception. Code past 65535 is accepted; bytes out of range are cut
  without a warning.
* Read, not run: `INITS.union` discards its result (`zxbc.py:34`), so that an `#init` in
  the BASIC source is lost.

*Symbol table*

* `LET a = @x: GO TO x` in a SUB stops the compiler with an exception: the entry has
  become a label but its reference has no `size`. `docs/labels.md:4-5` says the scope
  of labels is always global.
* `@x` in a SUB whose label is in a SUB inside it is reported as undeclared.
* `LET a = @x: PRINT x` is rejected and `PRINT x: LET a = @x` accepted.
* A nested SUB called in advance gets the name `_f_g`, that of a SUB `f_g`.
* A nested SUB that uses a local of the outer one gets its offset from IX, on a frame
  of its own.
* A local declared at the address of another one (`DIM x AT @y`) has a cell of its own
  and does not follow it (`zxbparser.py:758`; `AliasesShare`). `docs/dim.md:156` says
  they "can be used interchangeably".
* Deleting an entry pops the case-insensitive index by its name as written
  (`scope.py:60`).

*Preprocessor*

* Including a file of no bytes leaves CURRENT_FILE and CURRENT_DIR at it.
* `#pragma once` and `#line` take effect in a disabled block, and macros are expanded
  there, which can be an error.
* The parameters of a macro are visible in the macros its body uses.
* `#line n` numbers the line after the next as `n + 1`, one too many.
* A conditional block with nothing in it is a syntax error.

*Code generation* (`Wrong` in `Codegen` and the guards beside it)

* Shifts by a constant 0 and `BAND` with 65535 push nothing at 16 bits; a shift right
  by 1 of a signed word is a logical one; `MOD` 1 of a word stops the compiler.
* Division of a negative byte by the fast routine, and of a negative word by 2, do
  not give what `divi` gives elsewhere. The folding of MOD for signed constants follows
  Python's sign (`zxbparser.py:2146`). `traverse_const` swaps SHL and SHR
  (`translator_visitor.py:218-219`).
* Operations at 32 bits that do not commute take a constant address and a temporary
  in the wrong order; `Bits32.get_oper` gives `#_x` for it.
* Comparisons give 255 where their docstrings say "Pushes 0/1".
* Fixed point: division by −1 negates as if it was a float; a product with −1 in the
  first place stops the compiler; a dividend below 1.0 leaves the count of shifts
  undefined (`divf16.asm:9`); `MOD 1` gives 0; the quotient loses its last bit.
* Floats in the short form for whole numbers lose the sign in ABS (`res 7, e`) and
  become 0 as fixed point.
* `__SWAP32` leaves a word under the stack pointer with interrupts enabled
  (`swap32.asm:10-15`): with `Interrupts = TRUE` TLC shows it overwritten.

*Frames* (confirmed by compiling)

* A by-value float parameter is written at IX + 4 + offset and read at IX + 5 + offset;
  its address, when it is passed by reference, is the wrong one too.
* A by-reference float is read from (IX+1), (IX+0), whatever its offset
  (`_pload.py`); `docs/byref.md:3` promises otherwise.
* Storing a global variable in an element of a local array, with an index that is not
  constant, pops a value nobody pushed.
* Storing a pushed float in an element of a local array pops its registers in the
  wrong order.
* With `--debug-array`, a local array whose upper bounds are not used has six bytes
  (`arrayref.py:59`), and the pointer to them is written after these
  (`function_translator.py:74`).
* `@b` of a by-reference parameter is the address of the pointer.
* An array that does not start at 0 and is only passed to SUBs called before they are
  defined has no table of lower bounds (`call.py:48-55`).
* Read, not run: an inner dimension of a local array from 256 up loses its high byte;
  `READ a(i)` and an assignment to a slice of an element take an array parameter for
  a local; `g + f()` reads `g` after the call.

*Tree optimizer* (confirmed by compiling)

* `GOTO inner` into the body of `WHILE a < 3` right after it: the whole loop is removed
  as unreachable, with the label, which is then undefined (at levels 0 and 2).
* `FOR i = 5 TO 1` with constants, from level 1 on: the loop is removed with the
  assignment `i = 5`, which `docs/for.md:21` promises.
* `ON a GOTO` to a label inside `IF 0 THEN`: undefined label, from level 1 on.
* At the default level `b = a + 200 + 100`, `200 + a + 100`, `a * 20 * 20` and
  `(a + 200) + (b + 100)` on bytes: the constants are folded to one of 16 bits, the
  16-bit result is popped as a byte and its high half stored (`optimize.py:218-271`).

*Visitors and front end*

* `FOR` of an unsigned variable with a STEP that is not a constant stops the compiler
  (`translator.py`, `visit_FOR`); `docs/for.md:15` says the step is an expression.
* `END a` with a byte variable returns a word whose high byte is whatever follows it.
* The limit and the step of FOR are evaluated again at each iteration.

*Assembly optimizer* (confirmed by compiling at levels 3 and 4)

* `x = b - x` twice: the second `ld hl, (_x - 1)` is removed, because memory is known by
  its text; at level 4 the second subtraction goes.
* `POKE p, w + 1` becomes `ld hl, (_p)` and `ld (hl), l`.
* `x = 5: y = PEEK p` with `p = @x`, then `x = 6`, at level 4: the store of 5 is removed.
* The labels of the table of `ON GOTO` start no basic block.
* Read, not run: patterns match prefixes of lines; rule 018 matches nothing; flags of
  INC, DEC, OR, AND and XOR are computed wrong; `ex (sp), hl` is taken for
  `ex af, af'`; rules of equal flag are applied in the order of the directory.
* `docs/zxb.md` gives 1 as the default level; the code's default is 2.

## 7. What is not modelled, and why

Instruction encoding, grammar actions that only build trees, generated parsers,
hardware routines, other targets and the BASIC standard library keep no state a
model would say something about, or drive devices. `memcopy.asm` only chooses the
direction of a copy. String arrays, `STR$`, `CHR$` and `INKEY$` follow the rules of
Strings with other texts. EQU and expressions over labels are left out of AsmMemory:
they evaluate to numbers before a label is defined. Interrupt routines that use
strings are left out of Heap: the library is not written for them. Of the
preprocessor, macros with arguments and the operators of `#if`; of the symbol table,
types, arrays and constants; of the code generator, DATA and READ, bounds checks and
the functions of the calculator beyond arithmetic. Of the tree, functions, arrays,
strings and builtins; of the assembly optimizer, index registers with offsets, labels of
inline assembly, block moves, and the rules whose lines no emitter modelled here gives
(023 and 032) or that match nothing (018). `ON GOTO` and the statements that drive
devices are not in `Statements`.

## 8. Plan

1. The encoding of the assembler (`z80.py` against a decoder) and the layout of the
   output formats: block lengths, checksums, the start address.
2. `ON GOTO`, READ and DATA; FOR with a signed variable and a step that is not constant.
3. Options: a stack per option.

Proofs: `MangledDistinct` of SymbolTable, with the mangled names of entries added to
`TableInv`.
