# A TLA+ model of NextBuild

NextBuild builds programs for the ZX Spectrum Next: a BASIC compiler and
assembler in Python (`zxbasic/`), a runtime library in Z80 assembly, a library
of game routines (`Scripts/nextlib.bas`) and a driver that turns the result into
a NEX file (`Scripts/nextbuild.py`, `zxbasic/tools/nextcreator.py`).

There are no tests of this code in the repository. This directory models the
parts where state lives on between calls and where the order of events
decides what happens.

## Inventory

| Part | State it keeps | Operations | What is hard | What makes it correct |
|---|---|---|---|---|
| Heap (`library-asm/heapinit, alloc, free, realloc, calloc`) | linked list of free blocks in RAM, one length word per block | `__MEM_INIT`, `__MEM_ALLOC`, `__MEM_FREE`, `__REALLOC`, `__MEM_CALLOC` | long sequences of calls, splits and joins at the boundary of 4 bytes, a copy out of a freed block | no overlap, no leak, neighbours joined, data kept, every call returns |
| Sound and interrupts (`nextlib.bas`) | MMU slots, NextReg select port, channel descriptors, `itbuff`, enable flags | `SetUpIM`, `ISR`, `InitSFX`, `PlaySFX`, `CallbackSFX`, `InitMusic`, tile routines | an interrupt between any two instructions | slots and interrupts as the program left them, effects played whole, on the right channel |
| NEX generation (`nextbuild.py`, `nextcreator.py`) | list of `.cfg` lines, trimmed files, 16K bank image, flagged banks | `ParseNEXCfg`, `CreateNEXFile`, `parse_file`, `add_file`, `load_mmu`, `generate_file` | three numberings of banks, files across bank ends, files read after they were overwritten | after loading, memory holds what source and compiler asked for |
| Assembler memory (`zxbasm/memory.py`, `label.py`) | label objects per scope, temporary labels, instructions and bytes per address | labels, `LOCAL`, `PROC`, `ENDP`, `ORG`, instructions, `#init`, `dump` | objects shared between scopes, forward references, transfers at `ENDP` | an operand is the address its text means; wrong sources are refused, right ones are not |
| String runtime | strings in heap blocks, ownership of temporaries | load, store, concatenate, slice | who frees a temporary | no double release, no leak |
| Preprocessor (`zxbpp/`) | macro table, stacks of files, constructs and conditions, once marks | `#include`, `#define`, `#if...`, `#pragma once` | flags saved by one directive and restored by another, with whole files between; regions that are dropped are reduced all the same | stacks match, the text is what the lines ask for |
| Compiler driver (`zxbc/zxbc.py`) | what lives on between its two preprocessor passes: once marks, options, `REQUIRES` | preprocess, translate, preprocess again, assemble | a table reset or kept that should not be; text of uncalled subs that goes after it had effects | every required runtime file once, as the options ask |
| Symbol table (`api/symboltable/`) | scopes, entries, offsets | declare, access, enter and leave | forward declarations | names resolve as declared |
| Optimizer, peephole (`arch/z80/`) | basic blocks, edges, register knowledge | partition, trace of calls, shorten jumps, rewrite | routines that end in a jump, circles of jumps, edges changed while they are used | every edge there is, same behaviour |
| Parser, translator, backend, options, tape formats, loader generator | see `PROJECT.json` | | pure translation or I/O | |

The driver calls the compiler, which calls preprocessor, parser, backend and
assembler one after the other; they share global tables (`gl`, `OPTIONS`,
`MEMORY`). The driver then hands text lines and files to nextcreator. At run
time the main program and the interrupt routine share the hardware ports and
the data of nextlib, and all string and array code shares the heap.

## Modules

- `Allocator` is what the headers of `alloc.asm` and `free.asm` promise, without
  a free list: a request is answered by a run of bytes nobody holds, and by NULL
  only if there is none.
- `HeapBlocks` is the free list as a set of blocks: first fit, `__MEM_SUBTRACT`,
  and the two runs of `__MEM_JOIN_TEST`. It implements `Allocator`
  (`KeepsPromise`). Requests are of 2 bytes or more.
- `Heap` is the same code on bytes of memory, with registers and a program
  counter: one step per pass of a loop, the hidden length words, `__REALLOC` and
  `__MEM_CALLOC`, and callers that fill their blocks. It implements `HeapBlocks`
  (`ImplementsBlocks`) by reading the list out of memory.
  What memory holds at first is a constant (`Memory`), so the proofs are about
  every content.
- `HeapBlocksProofs` has the theorems about `HeapBlocks`, `HeapProofs` the invariants
  of `Heap`, and that `Heap` implements `HeapBlocks`.
- `NextlibIM` has one action for each instruction of `PlaySFX` and of a tile
  routine that touches what they share with the interrupt routine, which is one
  action. What runs under `di` is one action too. Instructions that touch private
  registers only are merged into their neighbour. `DoTileBank16` stands for the
  other tile and text routines of nextlib, which use slot 2 in the same way.
  Address bytes are named by the effect they belong to. As in the library's
  examples, `InitSFX` comes before `SetUpIM`, `PlaySFX` and the flags.
- `NextlibIMProofs` has the theorems about `NextlibIM`.
- `NexCreator` is nextcreator: one action per `.cfg` line, per chunk of a file
  and for the output; also the loader of the machine (external), which reads
  the file back. `NextBuild` extends it with `ParseNEXCfg` and `CreateNEXFile`.
  `NextBuildProofs` has the theorems about both.
- `AsmMemory` has one action per statement of an assembly source, so its
  behaviours are all sources; at the end one for each call of an `#init` routine,
  the jump behind them and `dump`. The reference meaning of a source is defined by
  its text alone, below the actions. An instruction is one cell with one operand.
- `AsmMemoryProofs` has the theorems about what `AsmMemory` refuses, and
  `AsmBinaryProofs` those about the binary it puts out.
- `Preprocessor` has one action per line of the file being read (a directive, a
  line of text, the end of a file, an unexpected token). `filestack` is the stack
  of the lexer; `constructs` is the part of the parser's stack that matters, one
  entry for each file and each part of a conditional that is not reduced yet. The
  rest are the global variables of `zxbpp.py`. Macros are defined or not; a line of
  text is a name. `search_filename` looks a name up in the directory of the current
  file and in the library's (`-I` paths are left out), and `include_once` looks up
  again what it found: `Resolve` says for a directory what a name is there, and what
  the path of a file is there, for which the file stands. So each file is found by
  one path.
- `Compiler` extends it with `zxbc.py`: `Preprocess`, `Translate` (from the parser
  to the start of the second pass), `Assemble` and the exits on errors. Of the
  BASIC program there is which sub calls which and which runtime labels a line
  uses.
- `Expansion` says what the first pass should give, as a recursive reading of the
  lines; it is a module of its own because `CompilerProofs` reaches `Compiler`.
- `CompilerProofs` has the theorems about `Compiler`.
- `FlowGraph` is the optimizer of level 3: splitting into basic blocks, edges of
  jumps, the trace of each call to the `ret`s of its routine, jumps to jumps, and
  the removal of loads nobody reads (pattern 15). One action per pass of a loop;
  the order of sets is left open, as in Python. `is_used`, which the code writes as a
  recursion that locks the blocks it is asking, is a function of rounds: a block
  answers no only after all it asks have, so the blocks that answer no after n rounds
  are those whose recursion goes no deeper than n. A label that is not in the program
  has a dummy block that ends in a `ret`, and calls of it are traced like others.
  `Z80Flow` is the machine against
  which the result is judged: one register, the Z flag and the return stack.
- `FlowRun` extends it with two such machines side by side: one runs the program as it
  was given, one what the optimizer made of it. They step together while they are
  at the same place; over the labels and jumps that a shortened jump skips, the
  original catches up. `strayed` is set when the run of the code leaves a block by a
  way the graph has no edge for.
- `FlowGraphProofs` has the theorems about `FlowGraph` and `FlowRun`.

`MC*` modules only give values to constants.

## Runs

| Run | Configuration and bounds | Result |
|---|---|---|
| `heap_blocks` | 30 bytes, requests of 2, 3, 5 and 8 bytes | passes |
| `heap` | 64 bytes of memory, bytes of 8 values, heap of 22 bytes, 2 callers, requests of 2, 3 and 6 | passes |
| `heap_realloc` | the same | `ReallocCopies` violated |
| `compile` | six files in three directories; 2200 main files around one conditional with 12 pairs of included files, and 135 programs of two subs with a runtime file that includes another, with labels of both | passes |
| `flow` | 6624 programs of up to 13 instructions with two labels, a routine and a second one outside, each run with either flag; 2 calls open | passes |
| `im` | 2 channels, 2 effects, `Radix` 5, effects of one frame | passes |
| `im_torn` | the same | `EffectsWhole` violated |
| `im_long_effects` | `Radix` 4, effects of up to 4 frames | `ChannelChosen` violated |
| `nex` | 8K banks of 2 cells, ten 16K banks, two `LoadSDBank` lines out of thirteen, five origins, programs of 1 and 5 cells | passes |
| `nex_trim` | lines with offsets only | `LoadedAsAsked` violated |
| `asm` | one name, one `ORG` address, 7 statements, 2 open `PROC`s, 2 `#init` lines | passes |
| `asm_nested` | the same without `ORG` and `#init` | `NoSpuriousErrors` violated |

Why the bounds are enough. The heaps hold up to five blocks, so every case of
split, whole block and join on either side, both sides and neither occurs, and
every remainder from 0 to more than 4. With 8 values per byte, word arithmetic
carries. Memory starts with changing values, as it does when a program is loaded
over another. Two channels are the fewest for which the search can go wrong, and
`Radix` 5 the least with which one frame of an effect stays below the value
`$fd` of a free channel. `MaxFrames` bounds an effect. Two cells are the least
for a first and a second half of an 8K bank to differ from its ends; ten 16K
banks have the eight that NEX files reorder and two behind them. Clashes of
labels are between two uses of a name, so one name is enough; seven statements
are enough for a `PROC` in a `PROC` with a `LOCAL`, a declaration and a use. The
sources of `compile` put each line whose effect could leak out of a region - a
macro, a wrong call, an error, a mark, an include - before, in and behind a
conditional with and without `#else`, with a second conditional in one of its
parts, and let a file include itself or another of the same name elsewhere;
unclosed and surplus directives are among them. Every effect needs one region to
leak from and one line behind to show in. Two subs are the fewest of which one
can keep the other alive. The programs of `flow` have a branch of each kind,
followed by each kind of instruction, a label that may be fallen into, chains
and circles of jumps, and routines with one exit, two, a call or a jump at the
end: a wrong edge needs one caller and one routine.

Views and symmetry: `MCHeap` explores states once that differ only in bytes
nobody reads before they are written; `MCNextlibIM` treats effects as symmetric.
Deadlock is not checked in `NextBuild`, `AsmMemory`, `Compiler` and `FlowGraph`,
which end; `FlowRun` also stops where a call would be the third one open.

Fairness: `Heap` has weak fairness of `Runtime`, the steps of a routine that has
been called: nothing else runs on the Z80 until it returns, and the processor
does not stop. It is used for `CallsReturn` only. No other module needs any.

What the properties say, in short:

- Heap: `Sized`, `Disjoint`, `NoLeak`, `Coalesced` and the contract; in `Heap`
  also that callers' bytes survive (`ContentsKept`), length words stay right and
  calls return. `ContentsKept` leaves out blocks that `__REALLOC` put where its
  copy overtakes itself (`moved`); `ReallocCopies`, without that exception, is
  what the header says, and does not hold.
- NextlibIM: `SlotsKept`, `LaunchWhole`, `ChannelChosenUndisturbed` and
  `InterruptsKept` name the windows in which an interrupt does harm (variable
  `hits`), and show that there are no others. In slots 6 and 7 nothing is left of the
  program's banks once an interrupt has played music: `SlotsKept` says that banks 0
  and 1 are there from then on. `EffectsWhole` and
  `ChannelChosen` are the comments of the code, and do not hold.
- NextBuild: `CodeInPlace` holds of every source; `LoadedAsAskedPlain` of
  sources without `sub` in a line, without two trimmed copies of one stem, and
  whose data do not run out of one of the banks 0 to 7.
- AsmMemory: `AcceptedRight` and `RejectsWrong` hold of sources with `LOCAL` at
  the beginning of its `PROC` and without an inner `PROC` that declares a name
  LOCAL outside it. `NoSpuriousErrors` does not hold. `StartsWithInits` leaves out
  sources that do not end next to their highest address, or end with a label.
- Compiler: `ConditionsMatch` has no exception. `ExpandedAsWritten` leaves out
  sources with a line that takes effect under a false condition (`#pragma once`, a
  wrong macro call), that include a file without lines, or that ask once for a file
  whose path is not that file where it is asked for; `RequiredOnce` runtime
  files in the text of a sub that is never called; `ConfiguredAsAsked` runtime files
  that an asm block includes, which the first pass reads. In the cases left out
  the code does something else (below).
- FlowGraph: `JumpsAlike` has no exception. `FlowCovered` says that the graph has every
  way the runs in `FlowRun` go. It asks this of programs in which every routine called
  gets to its `ret` before a jump or call without condition (`PlainRoutines`), and
  after the optimization if no conditional jump or call stands just before a label
  with a jump behind it (`NoJumpInto`). `ReadsAlike` is about every program: its jumps
  and calls lead where they did, and its reads find what they found as long as the run
  has not strayed. Without `PlainRoutines` or `NoJumpInto` runs do stray, and the
  optimizer removes loads that are read (below).

## What the checks found

1. `__REALLOC` damages the content when the new block starts inside the old one
   (`realloc.asm:119`).
2. `PlaySFX` writes a descriptor while interrupts are on (`nextlib.bas:3306`; the
   `di` is commented out) and an effect may start at a torn address.
3. `PlaySFX` compares low bytes first (`nextlib.bas:3291`) and does not find the
   longest sounding channel.
4. `trimmed+1` has no effect (`nextbuild.py:249`): two offsets into one file give
   one trimmed copy.
5. `exit_proc` reports a label as defined twice that is declared once in a nested
   `PROC` (`memory.py:112`). In the same way `ORG` and `ALIGN` forget pending
   temporary labels (`memory.py:48`), which `NoSpuriousErrors` also rules out;
   the run without `ORG` shows the first of the two.

The exceptions that properties of passing runs make are where the code does
something else than asked; no run is kept for each. Those marked * were also seen
when running the tools on a small source.

- Blocks of one byte, for which `calloc.asm:40` has a case, are shorter than what
  `__MEM_FREE` writes into them.
- `LoadSDBank`'s length is ignored when the NEX file is built (`nextlib.bas:1429`).
- `#pragma once` and a wrong macro call take effect in a region that is dropped
  (`zxbpp.py:334`, `:566`); after the include of a file without lines the directory
  of `#include` stays that file's (`zxbpp.py:366`).
- Runtime files marked by the first pass are not included by the second even if
  their text went with an uncalled sub (`zxbc.py:170`), and the first pass reads
  them before the options of `#pragma` are set (`zxbc.py:169`).
- A heap that ends with the last byte of memory, which `--heap-address` and
  `--heap-size` allow, is joined with what lies at address 0 (`free.asm:156`, see
  Proofs).
- `include_once` finds a file and gives its path to `include_file`, which looks it up
  again (`zxbpp.py:236`, `:204`) *: when the current file is in a directory given by a
  relative path, as in `zxbpp.py d/main.bas`, the `#include once "a"` of a file `d/a` is
  rejected.
- The trace of a call ends at a jump, or a call without condition, in the routine
  (`flow_graph.py:93`) *: a routine that ends in a jump to another, or calls one, has no
  edge back to its caller, and a load its caller reads may be removed.
- Shortening jumps to a label drops the edge of a conditional jump that falls into
  that label (`main.py:237`) *, and a load read over that way may be removed.
- With `#init`, in a source that ends with a label, the program is started one byte
  behind the first call of an `#init` routine (`zxbasm.py:171`) *.

## Proofs

`HeapBlocksProofs` proves, for every start and size of the heap and every set of
requests from two bytes on (`HeapBlocks`' assumption: 8 bytes of heap at least),
that each safety invariant of `heap_blocks` holds and that `HeapBlocks`
implements `Allocator` (`HeapKeepsPromise`).

The inductive invariant `IInv` is the conjunction of the invariants: none is
inductive alone. A release keeps blocks apart only if what it joins really is
beside it and unique, which needs `Disjoint`; joining leaves no two free
neighbours only if there were none before (`Coalesced`); `NoLeak` needs `Sized`
for the bytes of a block to be where its bounds are. There is one lemma per action
(`TakeWholeInv`, `TakeTailInv`, `ReleaseInv`; `SameBlocksInv` for the others) and one
about the block a release leaves (`JoinedBlock`). For the contract,
`FreeRunIsInFreeBlock` is the heart: a run of bytes nobody holds lies in one free
block, because a block that ended inside the run would touch the next one. So
when no block is long enough there is no run either.

`CompilerProofs` proves `ConditionsMatch` for every tree of files and every content
(`CompilerConditionsMatch`): no assumption is made about the lines, so that missing
and surplus `#else` and `#endif`, files that include themselves without end and
syntax errors at any depth are covered. The invariant `IInv` adds what the property
does not say: the constructs open hold exactly as many files as the lexer reads
and as many parts of conditionals as `IFDEFS` has entries (`Balanced`), the first of
them is the input of the pass, and the saved values decrease outwards in, the
outermost being true (`Nested`). At the end of the input there is one file, so
the construct on top is the first, so no conditional is open, so the next pass
starts enabled (`EndInputInv`). There is one lemma for each way a step treats the
two stacks, and lemmas about how pushing and reducing change the counts
(`PushKinds`, `PopKinds`).

`CompilerTypes` proves `TypeOK`. Here the lines matter: `PreprocessorAssumption` says
that what a file defines is a macro and what it includes is a name, and
`CompilerAssumption` that the runtime files of labels, finitely many, are names
(`LABEL_REQUIRED_MODULES` is a table in the code). `TypedInv` follows the lines: those
left in the files, those reduced in each construct and those in the output are
`WrittenLines`, that is lines of the files, the empty line that stands for a file not
found, or includes of runtime files. That the last are all the second pass can
see besides the text of the first takes two lemmas about data, `FlattenTyped` on the
recursive function inside `FlattenSeq` and `SetToSeqTyped`. `TypedFiles` has the fact
that matters: `CURRENT_FILE` is at least as long as the stack of the lexer, also
after an empty file left its name there, so that the end of a file finds the name
of the one that includes it.

`CompilerConfiguresAsAsked` proves `ConfiguredAsAsked`, from what `RuntimeAssumption`
says of the runtime library: its files include each other only; the label and the
guarded text are in one file, as in `alloc.asm`, whose conditionals are not inside
each other; and no file of it changes the macro, which `set_option_defines` alone
sets. (In `library-asm` this holds of `alloc.asm`, `array.asm`, `load.asm` and
`save.asm`, the files `__MEMORY_CHECK__`, `__CHECK_ARRAY_BOUNDARY__` and `__ENABLE_BREAK__`
are for; only `print.asm`, which has no such text, nests conditionals.) About the
other files nothing is assumed but that they do not contain the two texts: the
program may include a runtime file anywhere, inside its own conditionals too.

`WatchInv` follows one guarded text through both passes, together with its label. A
text that does not end inside the file is `Fine` if the guarded text comes with the
label and, in the second pass, the label with it exactly if the option is set. Every
construct is fine whose file is another one (`ConstructRead`), because whatever is
included in it ended and is fine as a whole; so is what a conditional keeps or drops,
which is all of a reduced file or nothing. For the watched file itself, `FileRead` and
`PartRead` say how far it has been read: the label is there once its line was, the
guarded text once its conditional was closed, if lines were enabled there as the
option asks. For that, `enabled` must be true wherever a file is opened and still be
so behind every conditional of the file, which `Owns` gets from the order of the
constructs: `own[i]` is the file construct `i` is of, and with `i - own[i]`
conditionals open below it, `Value` finds the saved `enabled` it will be given back.
There is one lemma for each way a step treats the stacks (`SkipRead`, `IfRead`,
`ElseRead`, `EndIfRead`, `OpenRead`, `EndFileRead`, `StartRead`).
Between the passes, `Left` says that the first put the label in nowhere, and then by
`Fine` not the guarded text either, so that the generated code has neither
(`TranslateWatch`, with `FlattenTyped` again) and both come from the second pass, which
reads runtime files only (`RuntimeInv`, which needs that the directory a file leaves
when it ends is that of a runtime file). So the macro stays what the options say
(`MacroKept`). `RuntimeAssumption` says of paths that those of the runtime library are
the same in every directory, as absolute paths are, and that no other leads to one of
its files: otherwise looking a path up again could open one.

`CompilerRequiresOnce` proves `RequiredOnce`, from what `LabelAssumption` says of
`library-asm`: a label that code may require is declared under no conditional, by the
file it is listed with or by one that file includes (`__PRINTU8` is listed with
`printu8.asm` and declared by `printi8.asm`), by no other file, and wherever a file
includes the one that declares it, it does so `once`. The library satisfies this for
193 of the 195 labels in `LABEL_REQUIRED_MODULES`, and none of its files has an
`#include` that is not `once`; the other two, for local arrays with bounds, are
declared under an `#ifdef` in `arrayalloc.asm` and are not in `Module`. Of a program it
asks that it does not declare such a label itself, nor includes its file other than
`once`: then the code would have two. `RequiredOnce` speaks of what the second pass
gives when it ends without an error, whether or not all it uses is declared.

`RequiredInv` follows the line that declares a label. Either its file has not been
opened (`Awaited`), or it is still to be read in one of the files being read, with no
conditional open there (`Arriving`), or it is in the text of one construct, where it
will not be dropped (`Arrived`). For the last there must be, for each construct, the
value `enabled` has directly in it (`Levels`), and for each file being read the
construct it is (`Bases`), so that a line without a conditional around it in its file
is enabled however deep its file is included (`OnTop`). `Awaited` holds what makes the
file be opened at all: once the file a label is listed with has been opened, a line of
it that includes the label's own is still to be read, and in the second pass, until
then, the line of the generated code that includes the first. `Named` adds that
`#pragma once` marks only files that were opened. Between the passes, `CodeOne` says
that a line which is not dropped with its sub is in the generated code once, for which
each sub must be translated once (`SetToSeqOnce`).

`NextlibIMProofs` proves every invariant of the run `im` for any number of channels
and any effects, banks and byte values, with interrupts between any two steps
(`NextlibIM`'s assumption: at least one channel, bytes of more than three values).
There is one inductive invariant per property. None is inductive alone, because
each says something only of the moments when the program runs its own code:

- `SlotsInv`, for `SoundSlotsKept`: at each step of `PlaySFX` and of a tile routine,
  which slots hold the program's banks and which operands are going to put them
  back. It needs that the select port is at 2 when slot 2 is read, and that is
  where an interrupt leaves it.
- `LaunchInv`, for `SoundLaunchWhole`: between its two stores, `PlaySFX` owns one
  channel whose low byte is already that of the new effect.
- `IntsInv`, for `SoundInterruptsKept`: `itbuff` is what `checkints` found as long
  as a routine has yet to reach `ReenableInts`.
- `TimesInv` and `SearchInv`, for `SoundChannelChosen`: the time of a channel that
  plays counts its frames, except the bytes `PlaySFX` has not zeroed yet; so the low
  byte of a channel that plays is below that of each free one (`LowBytes`), which
  is why comparing low bytes first is right for short effects; and the search
  knows the best of the channels behind it. The theorem assumes `ShortEffects`,
  at most `Radix - 4` frames (252 in the code): `im_long_effects` shows what
  happens to longer ones.

The arithmetic of two-byte times is in lemmas about `%` and `\div` (`LowAndHigh`,
`NextTime`), and what an interrupt does to the channels in `Callback`.

`HeapProofs` proves each invariant of the run `heap`, for every heap, content of
memory, number of callers and value of a byte, with two hypotheses. `Askable`: a
request is of 2 bytes or more, since a smaller block cannot hold what `__MEM_FREE`
writes into it, and its length with the two bytes in front does not wrap.
`EndsBelowTop`: the heap does not end with the last byte of memory. The proof does
not go through without it and the code does not work without it: the end of the
last block is then 0, `__MEM_JOIN_TEST` (`free.asm:156`) takes the NULL behind it in
the list for a neighbour and joins the block with whatever lies at address 0.

The invariant says of memory what a picture of the heap shows (`Whole`): for the
set F of addresses where free blocks start and the set of those handed out, the
chain of next pointers visits F in order and ends in NULL (`Chain`), blocks lie in
the heap, have room for a header and are apart (`Laid`), and cover it (`Covered`);
no free block ends where another starts (`JoinedBut`). None of the three properties
is inductive, because the routines work in steps and on bytes. So the invariant
also says where each walk is and what it has passed (`Walking`: a first fit is
first only if the blocks before were too short; `temp` is the word that points to
the current block), what each caller has (`Handles`), and for `__REALLOC`
which bytes it still has to copy and in which block they are safe (`Saved`): its old
block is free by then, and joining and splitting write into it. The lemmas follow
the routines: `Linking`, `Joining` and `Releasing` for `free.asm`, `Unlinking` and
`Splitting` for `alloc.asm`, `LdirFrame` and `LdirCopies` for the copy, which is right
unless source and target overlap the wrong way.

The module also proves that the bytes implement the blocks
(`BytesImplementBlocks`, the same hypotheses). The free list is a recursive function
of memory; the provers have no induction over it, so induction on the natural
numbers is derived from the library's theorem on well-founded sets (`Induction`), and
with it that the list read from memory is exactly F (`Listing`). Then the second
run of `__MEM_JOIN_TEST` is `Release`, taking a whole block or a tail is `Allocate`,
the end of the list is the refusal, and every other step changes nothing that
`HeapBlocks` sees. With `HeapKeepsPromise`, the bytes keep the contract of `Allocator`.

`NextBuildProofs` proves the invariants of the run `nex` for every size of banks, any
number of 16K banks above eight, all files, lines and programs
(`LinesAssumption`, `NexAssumption`). `PagesAnnounced` counts: the pages written are in
one-to-one correspondence with the flags set. For the other two, the place of a
byte is followed through three numberings: a cell of `bigFile` belongs to one address
of one bank only (`CellInjective`), because the real bank and the bank order are
inverse to each other (`RealBank`, `BankOrder`). The invariant `Built` says that the
`.cfg` lines are those of the source read so far, in order and then the program's
(`CfgWritten`), that files on disk stay as they were but for trimmed copies
(`FilesKept`), and that each byte copied so far is in its cell with its bank flagged
unless a later line covers it (`Honoured`). `LinesHonoured` assumes in addition that no
line asks for a file with the name of a trimmed copy (`Apart`): such a file is
overwritten by `ParseNEXCfg`.

`AsmMemoryProofs` proves `TypeOK` and `RejectsWrong` for sources of any length, any
names and `PROC`s nested to any depth, without hypotheses. `RejectsWrong` is about the
end of a source and about its text; the assembler has tables of objects that
references, declarations, `LOCAL` and `ENDP` make, change, move and merge. The
invariant `Scoped` relates the two at every line: which table keeps what is known of
the label of a line (`Lies`: the table of its `PROC` while that is open, then the
global one), that declared labels have objects with values there (`Declared`), that
objects are local exactly where the text has a `LOCAL` (`Flags`), that a local object
with a value was declared in its own `PROC` (`Backed`), that no object is shared by two
tables (`Unshared`), that two declarations of one name never fall to one object
(`Once`), and that a `PROC` that ended has its `LOCAL`s declared (`Finished`). It holds as
long as no error is reported and every `LOCAL` stands at the beginning of its `PROC`;
`Opening` says why that matters: an object made before its `LOCAL` could already have a
value. The lemmas treat tables, scopes and source as parameters, so that what a
statement does is told apart: it is added to the source (`ReadScoped`), an object is
put into the last table or changed there (`Entered`, with `UseScoped`, `LabelScoped`
and `LocalScoped`), a table is opened (`ProcScoped`), or it ends and leaves its names to
the first one (`Left`, `EndScoped`). `ExitLeft` shows that this is what the loop of
`exit_proc` does, with its CHOOSE of the object merged being unique.

`AsmBinaryProofs` proves `AcceptedRight` and `StartsWithInits`, again for every source,
name and depth. They are implications whose hypotheses (`Plain`, no two instructions at
one address, the end of the source at its highest address for `StartsWithInits`) are
those of the run, so nothing is assumed on top. The argument has three parts.

- What names mean. `Meaning` adds to `Scoped` that a local label is found before those of
  the scopes around it (`Exposed`) and that the value of an object that is not local is
  the address of a declaration of the global label (`Known`, which needs that no inner
  `PROC` declares a name that is `LOCAL` around it: `Unshadowed`, from `Plain`). Then
  `get_label` binds the operand of a use to the object of what the text means
  (`Binds`), and every later statement keeps it so: `Follows` says so once for reading a
  line, making or changing an object, opening and closing a `PROC`. The object of a
  `PROC`'s own label leaves the tables at `ENDP` with the address of its declaration
  (`Bound`).
- What memory holds. `MInv` says which places are filled and by what (`Filled`), that
  each instruction has its operand's value already or is marked pending (`Written`),
  that a reference to `1B` or `1F` has an object of its own that waits for the line it
  was made in (`Awaits`, `Waiting`), that the temporary labels kept are those since the
  last `ORG` in the order of their lines (`Since`), and where the calls of the `#init`
  routines and the jump stand (`Finish`, `Calls`). One lemma per action keeps it
  (`LabelKeepsMemory`, `CallKeepsMemory`, ...).
- What `dump` puts out. Its loop is a recursive function; `SomeLoop` shows that a
  function with its equation exists, for every lowest and highest address, and
  `DumpedRight` that the byte of each instruction is as far from the beginning of the
  output as its address is from the lowest one (`Progress`: bytes put out and zeroes
  held back add up to the distance). Both inductions go through the least number that
  fails, because no prover can instantiate the library's induction theorems.

`FlowGraphProofs` proves the four invariants of the run `flow` for every set of
programs, of any length and with any labels, and any number of calls open
(`Z80FlowAssumption`, `FlowGraphAssumption`: the last instruction of a program never
goes on, and jumps have labels). `PlainRoutines` and `NoJumpInto` are conditions in
`FlowCovered` itself, and that the run has not strayed is one in `ReadsAlike`, so nothing
is assumed on top. The two go together: `ReadsAlike` says of every program that only a
missing edge can make a read differ, `FlowCovered` of which programs no edge is missing.
The argument has three parts.

- Jumps. From a state, labels and jumps make a `Trail`; a label `Leads` to another if
  the trail from it gets there; and code `Threads` the program at a place if it has
  the same instruction there or a jump that leads where that one does. Shortening keeps
  this whatever the order of the labels, because the target it takes is read from
  the program as it was given, and leading is transitive (`LeadsOn`, `LeadsBehind`).
  Each step of the code's trail is then one or more of the program's (`ThreadedTrail`),
  so the two settle at the same place, or both never do (`ThreadedSettles`, with
  `TrailEnds`: a trail that ends does so within as many steps as the program has places,
  by the pigeonhole principle).
- The graph. `GraphInv` has a part for each thing the phases build: where blocks begin
  (`Partitioned`), the edges of going on (`OnEdges`, which shortening keeps only under
  `NoJumpInto`) and of jumps (`JumpEdges`), and what the tracing still owes
  (`Tracing`: the successors of a traced pair are traced or pending). Of removed loads
  it says that they are followed by `DeadPlaces` only, the largest set of places
  where the register is not read and from which the graph leads on inside the set
  unless it is loaded there. `is_used` answers no only of such places (`RoundsHold`,
  `NotUsedDead`); a load removed later can only make more places dead.
- The runs. None of this says that the graph has what a run does, returns above all: a
  `ret` has an edge to behind a call because the pair of both was traced. `Frames` says
  that every return address is that of a call whose routine made the next call or is
  where the machine is, and by induction along a plain routine every block of it is
  traced for every call of it (`RoutineTraced`, `ReturnEdges`). So every step has its
  edge (`StepCovered`). For `ReadsAlike`, of any program, `RunInv` adds that return
  addresses are behind calls (`Calling`), so that every step leads on in its block or to
  the beginning of one (`StepLands`), that the original is where the code is or its
  trail leads there (`OnTheWay`), and that both have the same load in the register or
  are at a dead place while the run has not strayed; a step from a dead place that the
  graph has leads to a dead one or loads the register.

Only model-checked:

- liveness (`CallsReturn`);
- `ExpandedAsWritten`, because `Expansion` is recursive over the lines.

## Plan

Modelled in this order, most state and most hazards first: heap, sound and
interrupts, NEX generation, assembler memory, preprocessor and compiler driver,
optimizer (done). Next:

1. `Strings`: ownership of string blocks, composed with `Allocator`; no string is
   released twice or lost by `letsubstr`, `strcat` and array release. Abstract
   specification: the set of live strings.
2. `SymbolTable`: scopes, forward declarations, offsets of locals.
3. `AsmMemory` extended: namespaces, `EQU`, instructions of several bytes; an
   abstract assembler that resolves all labels first, with `AsmMemory` as its
   implementation.
4. The register values the optimizer keeps for a block (`cpustate.py`), judged by
   `Z80Flow`; `djnz` and `jr` as enders of their own.
5. The run-time `LoadSDBank` and the comparison with the NEX file; the other tile
   routines one by one if they differ; requests of 0 and near 64K in `Heap`.

## Not modelled

Pure translation and formatting (parser, translator, backend, opcode tables, tape
formats, `txt2nextbasic.py`), vendored code (`ply`, Python, the emulator, editors),
examples and assets. Drawing, sprite, file and input routines of nextlib change
the screen or device registers only. In the modelled parts: `.sna` files and
loading screens other than Layer 2 bitmaps, the bodies and
arguments of macros, `#line` and `#require`, `-I` paths, a `#pragma` that switches an
option off that an earlier one set (`OptionsOf`), relative jumps and `djnz`, the `__MEMORY_CHECK__` build, and
effects whose data have no end marker. Wording of messages and logging are left
out throughout.
