# A verification of the Lazy Virtual Machine

LVM executes lazy functional programs.  A library in Haskell (`src/src/lib`)
compiles Core programs to a binary file of instructions; a runtime in C
(`src/src/runtime`) loads such files and evaluates them on a garbage-collected
heap.  This directory holds TLA+ models of the runtime's stateful parts, of the
compiler from Core modules to code, and of separate compilation and loading; the
TLC runs that check them on small instances; and proofs checked by TLAPS.

All paths below are relative to `src/src/`.

## 1. Inventory

| Component | State | Operations | Interacts with |
|---|---|---|---|
| Pending signals (`runtime/core/signals.c`, `systhread.c`, `schedule.c`) | circular queue, `_pending_signal`, `force_major_slice`, mutex, mask | push (handler, `urge_major_slice`), pop, handle, install/uninstall | evaluator polls the flag; scheduler drains; allocator pushes `Sig_gc` |
| Evaluator (`evaluator.c`, `stack.c`) | stack of frames, registers, the thunks it updates | enter, argument check, return, catch/raise, suspend/resume, instructions | heap (allocation, `Modify`), signals, threads |
| Threads (`thread.c`) | thread list, stack chunks and their accounting | new, destroy, grow | roots, evaluator, signals |
| Minor collector (`heap/minor_gc.c`, `memory.c`) | young area, `ref_table` | allocate small, promote, empty, write barrier | major heap, roots |
| Major collector (`major_gc.c`) | phase, colours, mark stack, rescan and sweep pointers | start cycle, mark, sweep, allocate, barrier | free list, minor collector, mutator |
| Free list (`freelist.c`) | sorted list of blue blocks, `fl_prev`, `fl_merge` | allocate, merge, add chunk | major collector's sweep |
| Compactor (`compact.c`) | inverted pointers, chunk fill | compact, give chunks back, rebuild the free list | the whole heap, roots |
| Weak arrays, finalisation (`weak.c`, `finalise.c`) | weak list, final table, to-do list | create, get, set; register, update, call | marking |
| Global and fixed roots (`globroots.c`, `fixed.c`) | skip list; list of fixed blocks | register, remove, oldify | collectors |
| Loader and modules (`loader.c`, `module.c`) | ring of modules with their records, fixups of imports | read, find, link imports, resolve code | evaluator, dynamic libraries, collectors |
| Dynamic libraries and C calls (`dynamic.c`, `ccall.c`) | list of libraries with counts | open, symbol, close, call | loader, finalisation of custom blocks |
| Buffered channels (`prim/primio.c`) | buffers, descriptors, offsets | open, close, read, write, seek, flush, finalise | the operating system, exceptions, finalisation |
| Other primitives (`prim/`, `core/sys.c`, `primfloat.c`) | C library state | strings, floats, files | evaluator |
| Core parser (`lib/Lvm/Core/Parsing`) | none (pure) | lex, lay out, parse | declarations |
| Core passes (`lib/Lvm/Core`) | none (pure) | remove dead, rename, saturate, normalise, sort lets, lift, translate | assembler |
| Assembler and instruction passes (`lib/Lvm/Asm`, `lib/Lvm/Instr`) | none (pure) | inline, translate, resolve, rewrite | writer |
| Reader, writer, importer, compilation (`lib/Lvm/{Read,Write,Import}.hs`, `Core/Main.hs`) | the files on disk | number and write records, read, chase imports | loader |

What is hard here:

* **Interleaving.** A signal handler runs on top of, or beside, the main thread
  inside `push_pending_signal`/`pop_pending_signal`.  The evaluator runs between
  any two slices of a collection.
* **Bounded resources.** The signal queue, the mark stack, the reference table
  and the evaluator's stack are all bounded; two of them forget entries
  and must recover.
* **Staleness.** A module is compiled against the files of others as they were; the
  loader trusts numbers that a compiler computed from an older file.  A C variable
  that points to a young block is stale after a collection.
* **Order of evaluation.** The passes move bindings; the language promises which
  exception comes first and that a value is computed once.
* **Partial failure.** Growing the mark stack fails in the middle of marking; an
  exception unwinds a stack full of half-evaluated thunks; a write takes a part of a
  buffer and the next one raises.
* **Long histories.** An incremental cycle spans thousands of mutator steps; a
  wrong colour shows as a crash in a later cycle.

What makes each component correct:

* signals: the queue is a FIFO buffer; the flag agrees with it; a delivered signal
  is dispatched;
* major collector: nothing reachable is freed; marking is complete when it ends;
  garbage is freed; the program cannot see the collector;
* evaluator: a frame is returned to exactly once and in order; a blackhole is
  being evaluated by the stack that owns it; updating changes no value;
* minor collector: the reference table misses no old-to-young reference; a collection
  keeps the heap as it was, up to addresses, and no pointer into the young area is left;
* free list: free blocks are disjoint, sorted, maximal, and never overlap live ones;
* compactor: the reachable graph is preserved, a block never overwrites one that is still
  to move, the new free list is all the rest;
* channels: what was output reaches the file once and in order, what is read is what the
  file has at the position;
* passes: a program means the same before and after, each pass gets the form it
  relies on, and running the code shows the meaning;
* loader: what an instruction is linked to is the declaration its name denotes, each
  module exists once, what the compiler accepts is loaded, libraries are counted.

`PROJECT.json` lists the hazards with their lines.

## 2. Plan

Order of the modules; all but those of 10 exist:

1. `SignalBuffer`, `SignalQueue`, `SignalQueueProofs`.
2. `MajorGC`, `MajorGCProofs`.
3. the compiler's back end, `Expr` to `Emit`, and the machine that executes what
   it makes, `Evaluator`, on the programs of `Programs`.
4. `FreeList` and the abstract allocator it implements, `Allocator`, `FreeListProofs`.
5. the compiler's front end, `Core`, `CorePasses`, `ToAsm`, `Inline`, composed with
   the code generator in `FrontEnd`; and `MinorGC`.
6. separate compilation and loading: `Decls`, `Imports`, `LvmFile`, `DynamicLibs`, the
   loader `Linker`, composed in `Loader`; `LinkerProofs`.
7. `MinorGCProofs`, the theorems of `MinorGC` for every size of the areas and of the
   table; the second half of `FreeListProofs`, about the list itself; the refinement `IsBuffer` in
   `SignalQueueProofs`; the action property of `MajorGC`, the second half of
   `MajorGCProofs`; `InductionLemmas`, which these share.
8. `Compact`, the compactor over the words of the heap, and `CompactProofs`.
9. `Channels` and the stream it implements, `Stream`; `ChannelsProofs`.
10. thread stacks and their accounting, installing signal handlers.

Composition: `Emit` instantiates `CodeGen`, `Resolve` and `Rewrite`; `MCEvaluator`
joins them with `Evaluator`; `FrontEnd` feeds the same `CodeGen` and `Resolve` from
Core; `Loader` joins compiler, file and libraries; `MCHeap` joins `FreeList` and `MajorGC`.

## 3. The models

### Pending signals: `SignalQueue`, `SignalBuffer`, `MCSignalQueue`

A step is one access to a shared variable.  Three kinds of actor share them: the
main thread as evaluator (`UrgeMajorSlice`), the main thread as scheduler
(`CheckPending`, `Pop...`, `Dispatch`), and handler activations (`HandleSignal`
followed by `Push...`).  Two constants choose the build: `Mutex` (is
`mutex_lock` a lock, or one of the empty functions at the end of `systhread.c`)
and `Preempt` (does a handler run on top of the main thread, as on POSIX, or in
a thread of its own, as on Windows).  `SignalBuffer` is the specification: a
FIFO buffer.  `SignalQueue` implements it under the mapping `Waiting`, the cells
between head and tail without those in the middle of a push or a pop.

| Run | Instance | Shows |
|---|---|---|
| `signals_threads` | mutex, threads | FIFO, flag in sync, every signal and urge answered |
| `signals_overflow` | more pushes than cells | the index leaves the array (finding) |

Bounds: `MaxPush` calls of push in a behaviour, of which the array has room for
all (passing run) or for all but one; two activations; two signals.  The
interesting interleavings need a push inside a pop and a push inside a push,
hence two handlers.  A handler on top of the main thread (`Preempt`) takes part
in fewer interleavings than one in a thread of its own, so the run with threads
covers the safety of both, and the theorem is about both.  Liveness differs, see
section 5.  With `Mutex = FALSE` (a platform without pthreads) TLC
refutes `PendingInSync`, `IsBuffer` and `SignalDispatched`; no run is kept for
that build, the repository promises nothing about it.

Deadlock is not checked in these runs: when the budget of pushes is used up and
the queue is empty nothing is left to do.

Fairness (`Fairness`): each actor that can take a step eventually does (threads
and handlers are scheduled by the operating system), and the main thread comes
back to a signal check, which ARGCHK and the return instructions contain.

### Major collector: `MajorGC`

Blocks are slots in address order with a colour and `NF` fields.  A collector
step is one iteration of a loop in `mark_slice` or `sweep_slice`, so that a
slice is any number of steps and the mutator runs between any two.  The loops that
darken (over the roots, over the fields of one block) are steps too, but the mutator
waits until they end (`toDarken`).  The mark stack is a set whose size is
bounded by `gray_size`; which entries survive an overflow is arbitrary.  The
mutator loads, drops, overwrites (`Modify`), updates (`Indirect`) and
allocates (`alloc_shr`, also in a chunk added in the middle of a cycle).

| Run | Instance | Shows |
|---|---|---|
| `major` | 3 blocks, the third in a later chunk; a stack of 2 that overflows, grows or fails to | nothing reachable freed; `CollectorChecks`: heap check, purity, assertions; complete marking, invisibility |
| `heap` (`MCHeap`) | 2 blocks of 2 fields, fair collector | garbage is collected |

`GrayLimits` are the values that the limit on the mark stack may have: the code
compares with the size of the heap, which changes.  Three blocks are the least with which a chain of references outlives an overflow
of a stack of two (the smallest size with a "lower half").  Deadlock is not checked: it
cannot occur, and `CHECK_DEADLOCK FALSE` only spares the check.

Fairness: the collector takes a step whenever the program runs for long enough; in the
code every minor collection runs a slice and the minor heap fills up as long as
the program allocates.  A program that allocates nothing never collects.

Not modelled: the amount of work of a slice (any amount), infix pointers (LVM
creates no closures of that kind), weak arrays and finalisers (no primitive and
no caller creates one), compaction (a module of its own).

### Free list and heap growth: `FreeList`, `Allocator`, `MCHeap`

`MajorGC` has slots; `FreeList` has words.  Addresses count words, `hd` has the
words that are headers now, `fl` the variables of `freelist.c`, `live` what the
program holds.  The actions are `alloc_shr` with all it calls (the search from
`fl_prev`, the split, and the growth by a chunk when nothing fits), `Truncate` (what
an update does to a block that is too long), and the iterations of `sweep_slice` with
`fl_merge_block`.  Marking is one step here, since `MajorGC` is about it: when it ends, an
arbitrary part of what the program held before the cycle is dropped, the rest is black.

`Allocator` is the specification: a block in use keeps its words to itself.  The
mapping `held` takes the sizes from the headers in memory, so that a header that
the sweep or a split damages shows up as a step the specification does not have.

| Run | Instance | Shows |
|---|---|---|
| `heap` | a chunk of 6 words that grows by one of 4 above it, or the other way round; requests of up to 3 words | blocks in use are not freed or overlapped; every word belongs to one block; the list is the free blocks; the search finds what fits; adjacent free blocks are merged; memory becomes whole again |

Six words are the least in which a freed block meets a free block of two words (the
smallest that can be linked) on either side and is itself not a fragment.  The two chunks have
a word between them, as the head of a chunk has in the code.  `SortedForMerging`, `Merged` and
`BecomesWhole` hold as long as no chunk was appended behind the sweep
(`grewBehind`): after that the code does not keep them, the other properties it does.
In the same run a behaviour may be one of `MajorGC` instead (`part` says which), with
blocks of two fields and a fair collector, for the question that the run `major` leaves
open: whether garbage goes.  Deadlock is checked.  Fairness: that of `MajorGC`.

Not modelled: the page table and malloc's failures (nothing changes).  `fl_reset` and
`shrink_heap`, which only the compactor calls, are in `Compact`.

### Compiler back end: `Expr`, `Asm`, `CodeGen`, `Resolve`, `Rewrite`, `Emit`

Five stages, one module each, from the expressions of the assembly language to
the code that the evaluator reads.  The operators have the names of the Haskell
functions.

| Module | Code | Result |
|---|---|---|
| `Expr` | `Asm/Data.hs` | the syntax |
| `Asm` | none: the reference | `Means`, what an expression evaluates to, call by name |
| `CodeGen` | `Asm/ToLvm.hs` | instructions with names (`cgTop`) |
| `Resolve` | `Instr/Resolve.hs` | instructions with stack offsets (`instrResolve`) |
| `Rewrite` | `Instr/Rewrite.hs` | tail calls, merged slides, short forms (`instrRewrite`) |
| `Emit` | `Write.hs` | the code laid out, matches and continuations by offset |

`Means` knows nothing of thunks, stacks or updates: it is what the other five and
the machine together are compared with.  An instruction with its operands is one
element of a sequence, so that offsets count instructions where the file counts
words.  `Emit!plain` is the code after one round of rewriting and without the
short instructions; what the later rounds do is checked by comparing the two.

Not modelled: floats and byte strings, the table of constructors (constructors
carry their tag), and the bytes of the file.

### Evaluator: `Evaluator`, `Programs`, `MCEvaluator`

An action is one instruction, one turn of a loop (ENTER, ARGCHK, RETURN,
RETURNCON), or one frame of an unwinding.  The state is that of `evaluate()`:
heap, stack with `sp` and `fp`, program counter, the register `accu`, the size
of the stack, the pending signals.  The frames are words on the stack with
relative links, as in `thread.h`.  Around the instructions:

* `Signal` lets a signal arrive; at a safe point the machine saves its registers
  (`Yield`), blackholes what is under evaluation, and the scheduler (`Schedule`)
  collects or puts an exception on the stack;
* `GrowStack` and `StackOverflow` are the other half of a safe point;
* `Collect` is a minor collection at any instruction that allocates: the young
  blocks move, and pointers to indirections are shortened.  What the C
  variable `upd` still points to is lost (`Moved`);
* `RaiseException`, `RecoverFrame`, `SuspendFrame` and `Recovered` are
  the recovery from synchronous and asynchronous exceptions.

The memory above `sp` is kept as far as `fp`, since the machine may go on reading
a frame it has popped.  `CodeGen` and `Evaluator` are composed in `MCEvaluator`,
where `ResultIsMeaning` relates what the machine shows to `Means`.

| Run | Instance | Shows |
|---|---|---|
| `evaluator` | 27 programs, compiled and after one round of rewriting, with collections anywhere and two signals at any point; 7 programs that catch, one interrupt at any point, a stack that overflows | each ends with the result of its source, also when an exception is caught on the way; `StackSound`: frames linked, a word above each frame, variables in their frame, the margin of the stack suffices; `BlocksSound`: what is entered, updated and filled is what the instructions assert, only thunks are blackholed; `ValuesStay`: a block that leads to a value or an exception leads to it for good, also when a thunk is entered twice before it is blackholed, or a suspension is resumed; no thunk loses its update; never a fatal error |
| `evaluator_catch` | a compiled catch | its frame is popped too early (finding) |
| `evaluator_moved` | a thunk updated by a larger constructor | a collection in the middle loses the update (finding) |

The programs are chosen to reach every instruction and every frame that is
modelled: accumulating recursion, lists built and consumed lazily, a shared
thunk, partial applications in every frame, recursive bindings, all kinds of
match, fields, external calls, the four divisions, overflow, underflow and division by zero, products beyond a value and beyond a long, failed patterns, two kinds
of black hole, exceptions caught and raised again, suspensions resumed with
arguments and in matches.  The numbers in them are small because every turn of a
recursion repeats the same frames; two turns are enough for a frame on top of one
of its own kind.

A scenario (`Scenarios`) is a program, its code, the sizes of the stack and the kinds
and number of signals.  Bounds: `ConMaxTag = 10` (the code's is larger by the width of a header), words of
six bits (`WordBits`, values of five: -16 to 15), a stack of 24 to 200 words (36 to 44 where it has to overflow) with a margin of 12, at most two signals.
Two signals are the least with which a second interruption meets a stack that the
first one has blackholed.  Since a catch as compiled pops its own frame, the runs
about what happens behind a catch use `Repaired`: the same code with the `SLIDE`
that does so replaced by the one that the commented-out rule of `Resolve.hs` gives.
`direct` is a program in instructions, for a constructor returned to a catch: the
compiler never puts a call there, but the machine has the case.

`ResultIsMeaning` is about the runs that end; a program that is interrupted, or whose
stack overflows, may end in another way.  Two programs have no meaning by
`Means`, which would not end: they are black holes, and `Endless` names them.

Deadlock is checked.  Fairness (`FairSpec`): the machine takes a step whenever it can;
it is the only thread of the process, and a finite number of signals arrives.

Not modelled: the instructions SWITCHCON, STUB, SETFIELD, UNPACK, TESTCON,
UNPACKCON, TESTINT, PUSHBYTES, bit operations and floats; a collection
in the middle of the allocation of an exception or a suspension; several threads
(the code runs one at a time, nested for a call from C).

### Compiler front end: `Core`, `CorePasses`, `ToAsm`, `Inline`, `FrontEnd`, `MCFrontEnd`

The state is a module on its way through the compiler, and an action is one pass over
all of it, in the order of `coreToAsm` and `compile`.  Core expressions have a meaning
of their own (`Core!RunsModule`), assembly expressions have `Means`, and
`KeepsMeaning` compares them after every pass: the result, the results in its
fields to depth 2, and the exception that comes first.

| Module | Code | Content |
|---|---|---|
| `Core` | `Core/{Expr,FreeVar,Utils}.hs` | syntax, free variables, meaning (the reference) |
| `CorePasses` | `NoShadow`, `Saturate`, `Normalize`, `LetSort`, `Lift` | renaming, eta-expansion, atoms, smallest groups, lambda lifting |
| `ToAsm` | `Core/ToAsm.hs` | Core to assembly expressions |
| `Inline` | `Asm/Occur.hs`, `Asm/Inline.hs` | occurrences and inlining |
| `FrontEnd` | `Core/Main.hs`, `RemoveDead.hs` | the order of the passes, dead declarations |

| Run | Instance | Shows |
|---|---|---|
| `frontend` | 18 modules by hand, 2600 generated | the meaning is kept; `PassesDeliver`: nothing dangles, nothing shadows, normal form, closed functions; smallest groups; the result has code |

The supply of fresh names is a counter in the code; here the path to the binder makes a
name unique, which is all the passes rely on.  The generated modules have three
nested bindings, each lazy or strict, each an exception, a number, a call, a pair or a
function that captures: three are the least with which a binding is moved past another
one into a third.  `NoDeadBinding` keeps out lazy bindings that nothing uses, since
they are what the inliner is wrong about (section 5).  The run stops when the last pass is done, so
deadlock is not checked.  No fairness: nothing is said about progress.

Not modelled: types, kinds, source positions, floats and byte strings, the parsing of text.

### Minor collector: `MinorGC`, `MCMinorGC`

Blocks of the young area are at the address of their first word, so that "below
`young_ptr`" means what it does in the code.  The mutator's actions are the ways in
which the runtime writes: `AllocSmall`, `AllocLarge` (with `Initialize`), `Load`,
`Modify`, `Indirect` and `UpdateInPlace`, with the reference table, its threshold and its reserve.
A collection is one step for each call of `oldify_one` and for each turn of its tail
call; nothing else runs meanwhile.  The to-do list is explicit, and its links are also
what lies in the second field of a copy.  `MajorSlice`, at the end, frees some of what is
unreachable; how is the subject of `MajorGC`.

| Run | Instance | Shows |
|---|---|---|
| `minor` | a young area of 5 words, blocks of up to two fields, three old blocks, two roots, four steps of the program with collections after any of them | `TableSound`: no reference is forgotten, the table stays in its bounds; `NoneLeftYoung`: only what is in use is promoted, nothing young is left; the heap is as before up to addresses; a collection ends |

Five words are two blocks of one field or one of two and one of one, which is what a
chain of indirections and a shared block need; `YoungLimits` also makes blocks of two
fields large, so that they are old at once.  Four steps suffice for old-to-young
references that are entered, overwritten and entered again, with the table in
its reserve.  `Room` is a bound: the code ends with a fatal error when the major heap is
full.  Deadlock is not checked (the program stops after `MaxSteps`).  Fairness: a
collection is a call that goes on until it returns.

`Update` copies the fields of raw blocks with `Store_field`, too (`heapfast.h:202`), so
that bytes of a string go through the barrier; the model does so, and with `Bytes = {0}` the run keeps to
strings whose bytes do not look like an address.  Weak arrays and finalised values are left out.

### Separate compilation and loading: `Decls`, `Imports`, `LvmFile`, `DynamicLibs`, `Linker`, `Loader`, `MCLoader`

| Module | Code | Content |
|---|---|---|
| `Decls` | `Core/Module.hs`, the declarations of `Parser.hs`, `RemoveDead.hs`, references in `ToLvm.hs` | declarations, export lists, what a module uses |
| `Imports` | `Import.hs` | import chasing: `expandModule`, `resolveImport` |
| `LvmFile` | `Write.hs`, `Read.hs` | records numbered by the writer, declarations read back |
| `DynamicLibs` | `dynamic.c`, `prims.c` | counted libraries, the tables of functions |
| `Linker` | `loader.c`, `module.c`, `main.c` | loading, linking, running, exit, on any files |
| `Loader` | `Core/Main.hs` | `Compile`, `Edit`, `Interrupt`, and then `Linker` on the files that are there |

The programmer edits sources and runs the compiler on one module at a time, in any
order; nothing recompiles what depends on a file.  Then the runtime loads.  `calls` is
the stack of active calls of `resolve_external_records`, one for each module that is
being read; `mods` has their records, an import with its fixup.  A step is
one record, one link of an import chain, one instruction.  What an operand is linked to
is compared with what its name denotes by the declarations alone (`Origin`).

`Linker` is the loader without the compiler: `LinkSpec` has one step, `WriteFiles`, for whatever
leaves files that are as `FilesOK` says.  This is what the loader relies on without a check, that a file is
of the module of its name, names modules, and has code where a value has its code.  A step of
`Build` in `Loader` changes only what `WriteFiles` may change, and the others are those of
`LinkNext`; that the files are `FilesOK` is part of the `TypeOK` which the run checks in
every state.  So the theorems about `LinkSpec` are about `Spec`.

| Run | Instance | Shows |
|---|---|---|
| `loader` | 11 projects of three modules | linked as named; each module once and resolved completely; what the compiler accepts is loaded with the sizes it assumed; libraries counted and closed; loading ends, where a circle of imports goes through the import that is resolved |

The projects have what the code has a case for: import lists with renaming, modules and
types exported as a whole, mutual imports, circular abstract declarations, a function
that moves to another module, a constructor that changes its size, externs of every sort, an imported
`main`.  Three modules are the least in which an import leads to an import of a module
that the first one does not name.  The program may stop building at any point, so deadlock is
not checked.  Fairness: the loader is a loop of one thread that goes on while it can.

Not modelled: the layout of the bytes, byte order, the search path, threading of the code, C calls (machine
code), the kind check of `resolve_index`, which no file of this compiler fails.

### Compactor: `Compact`, `MCCompact`

The state is the memory as words, the place of the pass that is under way, and the
bookkeeping of `compact_allocate`.  A word is a header, an encoded header, a pointer or
something else; whether a pointer has been reversed is not written in it, as it is not in
the code.  One step of a pass is one block (or one root), with all its fields; `NextPass` is
the loop that ends, with `init_compact_allocate`.  `Shrink` is the loop that gives empty
chunks back, with `shrink_heap`; `Rebuild` is `fl_reset` and the call of `fl_merge_block` for
one chunk.  `HeapsAssumption` says what a heap is when a compaction begins (`WellFormed`):
blocks fill the chunks, and what is scanned leads to a block in use or out of the heap.  `compact_heap_maybe`, `gc_compaction` and `check_heap_size` say when a compaction
may begin: the first two finish a cycle before.

| Run | Instance | Shows |
|---|---|---|
| `compact` | two layouts of three chunks with 14 words in all, a root, every choice of up to two blocks that are free, raw or finalised, two graphs of pointers over them | `ListsSound`: at each step of the passes the list of a block is what led to it, once, and ends in its header; `NeverOvertakes`: a block moves down and where the third pass said; `CompactionSound`: graph, contents, free list, sizes and the reserve are right; a compaction decided on by `compact_heap_maybe` ends |

Three chunks are the least with one that fills up, one that is skipped and one that is
emptied; the graphs have pointers forwards, backwards and of a block to itself, once or from all its fields, and
free blocks and strings hold words that look like pointers.  `Slack`, `Hundred` and
the percentages are the code's numbers scaled to such chunks.  The run stops when the
heap is rebuilt, so deadlock is not checked.  Fairness: a compaction is a call that goes
on until it returns.

Not modelled: infix headers and weak arrays (nothing in the repository makes them), and
the raising of an exception when the heap stays too large after a compaction.

### Buffered channels: `Channels`, `Stream`, `MCChannels`

A channel is the `struct channel` with its pointers as numbers of bytes.  A step is what
happens between two system calls; the call under way, what is left of its request and what
it waits for are in `call`.  The operating system is modelled from how the code uses it: a table from
descriptors to files (`table`, where a closed descriptor is given out again), a write that
takes any part, a read that gives any part, errors, and a device that would block.  `Stream` is the
specification of an output channel: bytes are accepted, delivered in order, and all of them
before it is closed.

| Run | Instance | Shows |
|---|---|---|
| `channels` | buffers of two bytes, binary integers of two, requests of two and three, files of up to four; an output and an input channel on one descriptor | `OwnDescriptor`: no channel uses or closes the descriptor of another; `OutputAccounted`: what was output is in the file, the buffer or the call, once; `IsStream`; `InputTrue`: what is read, and where lines and the file end, is what the file has |

A buffer of two bytes has a partial flush, a request that is larger than the buffer and one that
fills it; a file of four has the end in each place of a buffer.  No fairness and no liveness: a
device may refuse for ever, and `do_write` asks it again without a limit.
Deadlock is not checked (a bounded file ends up full).

Not modelled: `close_channel` and `caml_output_partial`, which nothing calls; the hooks that lock a
channel, which nothing sets.

## 4. Proofs

The type invariants of `SignalQueue`, `MajorGC`, `FreeList`, `MinorGC` and `Channels` are proved
and in no run; those of the other modules are part of a property that a run checks, the one of
`Linker` of `LinkedOnce`, which is proved.

`SignalQueueProofs`: `FlagMatchesQueue`, for every capacity, any number of handlers
and both ways of delivery, assuming a real mutex.  The invariant `SyncInv` says
who is in the critical section (`Exclusion`) and what the holder of the mutex
knows about flag and queue at each of its steps (`Knowledge`); `PendingInSync`
alone is not inductive because it says nothing about the inside of the section.

On top of it `QueueTypeCorrect` and the refinement `QueueIsBuffer`, with `QueueInv`:
where the two indices are at each step of the holder (`Position`), that they are
both -1 or in order except after two of the steps (`Ordered`), and that `qtail` has
been moved at most once by each call of push that has begun (`Counted`).
The last is what keeps the indices inside the memory that `TypeOK` gives them: since they
never wrap (section 5), nothing but the number of calls bounds them.  A step of push
or pop is then a step of `SignalBuffer` when it is the one that makes a cell count or
stops it from counting, and a stutter otherwise.  Besides `Mutex` the refinement
assumes `MAXPENDING > 1`, which is 32 in the code (`signals.c:236`).  With a single cell
the macro gives `Qinc(i) = i`, and the second signal overwrites the first.

`MajorGCProofs`: type correctness, `ReachableAllocated`, `HeapCheck`, `Purity`,
`Assertions` (together `CollectorChecks`) and `NoWhiteReachable`, for every heap size, block size and mark
stack size, with an arbitrary limit on its growth.  The inductive invariant is
`GCInv`:

* `LiveInv`: the roots are live (allocated and not about to be swept), and so
  are the contents of live blocks;
* `ColorInv`: which colours and stack entries a phase can have;
* `Purity`: a gray block is on the stack or ahead of the rescan;
* `SATB`: while marking, every set that contains the gray blocks and
  the blocks about to be darkened, and is closed under white contents of its
  unmarked members, also contains the white roots and the white contents of black blocks.

`SATB` replaces "every white block the mutator can get hold of is reachable from a
gray one through white blocks" by a statement over sets, which needs no
induction over paths.  When marking is done the empty set is such a set, so
no root is white and no black block refers to a white one: the live blocks are the
black ones, and the sweep frees no other.  The deletion barrier, the colour of
new blocks and the shortening of indirections each have their place in the
proof that a step preserves `SATB`.

The second half of it: `CollectorInvisible`, for the same sizes.  `ForwardInv` adds to `GCInv` that
only blocks in use are indirections and that the indirections have no circle, stated by a
rank that falls along each of them.  It is inductive because an update makes an
indirection only to a block that is none (`Indirect`), marking
skips a link of a chain, and a freed block loses its tag.  `Behind` is followed for as
many links as there are blocks; that this reaches the end (`EndIs`) needs that the blocks
of smaller rank become fewer with each link, and that two heaps whose chains differ
by skipped links have the same ends (`SameEnds`) is shown at the smallest rank where
they would not.

`FreeListProofs`: `Tiled` and the refinement `IsAllocator`, for every set of
chunks (any number, addresses and sizes), every initial heap and every largest
request; it assumes only what malloc and the chunk head guarantee, that
two chunks do not touch.  The inductive invariant is `HeapInv`:

* `Tiling`: from header to header one gets through every chunk.  Three operations
  change the headers, and one lemma each says that they keep the tiling
  (`SplitTiling`, `JoinTiling`, `ChunkTiling`);
* `FlType`: the list is the blue blocks: each has a position, the sentinel is at 0, and
  the next block is at the next position, down to the last one.  The positions stand for
  the absence of cycles and for reachability, which would otherwise need an induction
  along the list; linking a block moves the positions behind it up by one, unlinking moves
  them down.  That the list is *sorted* is not part of it: a
  chunk that is appended behind the sweep breaks the order (section 5), and
  what a block in use keeps does not depend on it;
* `SweepOK`: the sweep is at a header or at the end of a chunk, and `last_fragment`
  is below it, and still a bare white header when it ends exactly there.
  Without this, joining a freed block with the fragment could overwrite a block in use;
* `LiveOK`: a block in use has its size in its header, is not blue, and is not white when
  the sweep has yet to pass it.

`IsAllocator` says of the blocks in use what `Tiling` says of all blocks, so that a step
that is not an allocation, a shortening or the start of a sweep is a stutter.  In TLC
the invariants `Tiled`, `ListIsBlue` and `IsAllocator` check the parts of `HeapInv`; it is not
evaluated itself, because the positions are drawn from all natural numbers.

The second half of it: `ListSound`, `GrowsWhenFull` and the types, under the same
assumptions.

* A walk along the list (`Walk`, a recursive function) is replaced by a statement
  without recursion: it ends at the first position at which it may stop (`WalkEnds`).
  The proof takes the smallest distance to the end of the list at which this were false.
  `ListIsBlue` follows from it, and so does `GrowsWhenFull`: the search of `fl_allocate`
  goes from `fl_prev` to the end and then from the sentinel to `fl_prev`, and a block
  that fits is at a position of the one or of the other.
* `SizeInv`: `fl_cur_size` is the sum of the sizes of the blue blocks (with their
  headers), each of which has room for a link.  Each operation takes one block out of the
  sum, puts one in or changes one.
* `OrderInv`, as long as no chunk was appended behind the sweep: the list is sorted,
  no two free blocks are neighbours, and while sweeping `fl_merge` is the
  last free block before the sweep pointer.  None of the three is inductive alone: the
  sweep finds the neighbours of a freed block at `fl_merge` and at the link after it, which
  are the neighbours because the list is sorted, and it leaves
  no two of them adjacent because there were none before.  The invariant is
  `grewBehind \/ OrderInv`, since a growth behind the sweep, and nothing else, ends it.

All of these need `HeapInv`: that freed blocks do not overlap is what makes "the
next free block" by address the next one in the list.

`MinorGCProofs`: `TypeOK`, `TableSound`, `NoneLeftYoung` and `HeapPreserved`, for every
size of the young area and its limits, of the major heap, of blocks and of the reference
table, and any number of roots and steps of the program.  Two hypotheses exclude what
the code does not keep (sections 3 and 5): `~Unbarriered`, no application that is too
large for the young area is filled by plain stores, and `Bytes \cap Young = {}`, the bytes
of a string do not look like the address of a young block.  The inductive invariant is
`HeapInv` of that module.  Between collections (`IdleInv`) it says that the heap is
`Sound`: a young reference is to a block in use, an old cell that has one is in the table,
and the table has no cells of free blocks.  During a collection (`CollectInv`) it
relates the heap to what it was at its start, `before`:

* `HeadersKept`, `CopiesMade`: a block is as before, or free before and the one copy of a
  promoted block, whose header and forwarding pointer say so;
* `CellsDone`: a root, an old cell or a cell of a copy stands for a cell of `before`
  (`From`), and is settled (it has the forwarded value, `Settled`), or in the hands of
  `oldify_one`, or the collection still comes to it (`Waits`): in the rest of the roots or of
  the table, or since its copy is on the to-do list, or in the rest of the
  block under completion;
* `CallGoesOn`: what `oldify_one` looks at leads, through indirections, to
  the same block as the cell it is called for did before;
* `ListKept`: the to-do list and the loops are where they can be;
* `Capacity`: the major heap has room for every young block in use, which the guard of
  the allocation provides (`Room`, the bound that stands for a fatal error).

When the lists are empty no cell can wait, so that all are settled: `NoneLeftYoung` and
`HeapPreserved` follow.  `Behind`, which follows indirections, is a recursive function;
`BehindIs` gives its equation, also for a circle of indirections, from a choice of an end
that no set closed under the links avoids (`FollowExists`).

`ChannelsProofs`: `OwnDescriptor`, `OutputAccounted`, the refinement `IsStream`, `InputTrue`
and `TypeOK`, for any number of channels and descriptors, every size of the buffers, and
all files, requests and outcomes of the system calls.  Three invariants build on each
other:

* `CallInv`: where the pointers of each kind of call are between two system calls
  (`Writing`, `Receiving`), that a channel that is not live has no descriptor, and that a closed
  channel for output looks full (`Descriptors`).  That a call of putblock under way has more to
  put than there was room for is what makes its next turn drop the right part of the request;
* `OutInv`: `OutputAccounted`, and what a call of putblock that waits for the system has
  already put into the buffer (`Filled`).  The proof does not look at the buffer in
  each action: every step has one of five effects on the output channels (`Effect`): nothing,
  a request is taken, its rest is given up, a channel is opened or closed with nothing in it,
  or a part of the bytes moves on from the call to the buffer to the file.  Moving on keeps the sequence of them all (`EffectAccounts`), and is a
  step of `Stream` (`AdvanceMoves`);
* `InInv`: the buffer of an open input channel is the part of its file that ends where the
  descriptor is (`Window`), what the program has been given ends at its place (`Ends`), and
  behind that place there is no newline that the scan has passed (`Scanned`).
  `InputTrue` alone is not inductive, since it says nothing of what is in the buffer.

`InputTrue` and `TypeOK` are proved under `~SeekClosed`: when C code positions a channel that
has been closed, its pointers come back from where close has put them, and what it
returns may be bytes that were never stored (section 5).  The other three do not need it.

`CompactProofs`: `ListsSound`, `NeverOvertakes` and `CompactionSound`, for every number,
size and place of the chunks, every heap that is well formed, any number of roots, and all values of
`Slack`, `Hundred` and the percentages.  The assumptions are `ChunksAssumption` (chunks are
in order and do not touch, and none is so small that it is full when empty) and
`HeapsAssumption`.  The inductive invariants are `PassInv` and `FreeInv`.  `PassInv` says
what every word of memory is, as a function of the heap before:

* `Threaded`, first and second pass: the words that lead to a block and have been gone over
  (`Leading`) are a list in falling order that hangs from its header and ends in the
  encoded header; every other word is as it was.  Inverting one more word puts it in front
  because it is the greatest so far.  `ListIs` then shows what following the list
  (`Listed`, `Original`) finds;
* `Renewed`, third pass: behind the place of the pass that is undone, and the cells have
  their new values (`New`);
* `Shifted`, fourth pass: the blocks below the place of the pass are where they belong, and from
  there on nothing has changed;
* `Placed`: what has been taken from the chunks is filled by the blocks that have a place, one
  behind the other, and none of them lies further up than it did;
  `Passed`: the chunks that `compact_fl` has left behind are full and stay so.
  No block goes up because the chunk it is in has room for it: the blocks before it in this
  chunk, or earlier ones, took no more than lies before it (`NoHigher`);
* `Replayed`: the state of the chunks that gave a block its place is determined by the
  blocks before it (`PlacedOnce`), so that the fourth pass finds the same place again.

`FreeInv` has the reserve and the list while it is built (`ListInv`).  At the end `HeadsAre` shows
that the headers found in a chunk are those of the blocks moved there and of its rest.
`FindsChunk` is no theorem: it is refuted (section 5).

`LinkerProofs`: `LinkedOnce` and `SymbolsCounted`, for any modules, files, libraries and
primitives.  The assumptions are that there is a main module and that a path which the search for a
library returns is found under itself (`LibPathAssumption`): `searchpath` returns a name
that has a separator as it is.  Without it one library would be open twice.  The inductive
invariant is `LinkInv`:

* `RingInv`: the links of the modules are one ring, stated by a list of it (`IsRing`).  A
  module that is linked in behind its parent, in the middle of the resolution of others, makes it
  longer (`RingGrows`); it can be read from any of its modules (`RingFrom`).  What following the
  links gives, a recursive function, is this list (`RingLists`), so that
  `find_module` misses no module and names stay unique (`NamesInv`);
* `FixupInv`: an import without its fixup has an active call of
  `resolve_external_records` that is still to come to it.  That modules import each other does not
  matter: a module in the ring with unresolved imports is one that a call further out is
  in the middle of (`CallsInv`), and no module has two calls;
* `AtInv`: the code of the modules before the one `resolve_code` is in has its pointers, and in this one
  up to the instruction it is at (`ResolvedTo`, `ResolvedHere`);
* `LibsInv`, `SymbolsInv`: a library is on the list once, under the path its name is found at,
  counts the symbols that are of it, and is open exactly as long.  A symbol is new when it is added, since the
  call has passed no record twice.

What the code of a linked module refers to (`LinkedAsNamed`) is not among these: it is compared with
`Origin`, which is recursive.

`InductionLemmas` has what stands in for induction in the proofs: a set of
natural numbers that is not empty has a smallest element; a function that follows
links to where they end exists (`FollowExists`), also when some of the links make a circle,
as do one that gathers a set along a chain (`GatherExists`) and one that repeats a step a number
of times (`RecursionExists`); and the sums over finite sets that `fl_cur_size` and the
reserve are (`SumOfTakes`, `SumOfAgrees`).

Only model-checked: liveness (`GarbageCollected`, `SignalDispatched`,
`UrgeAnswered`, `BecomesWhole`, `CollectionEnds`, `CompactionEnds`, `Terminates`, `LoadEnds`), and everything about the
compiler and the evaluator, with what compares linked code with names or sizes (`LinkedAsNamed`,
`FreshLoads`): the passes and the chains of imports are
recursive over data, which the proof system cannot induct on, and no theorem is stated
in a module that uses them.

## 5. Disagreements

Three have a run and an entry under "findings" in `PROJECT.json`: the index of the signal queue that never wraps,
the catch whose frame is popped, and the update that a collection loses.  While modelling, TLC also showed
those below that name a definition or a constant; the models contain them, the passing runs stay outside of them by the
scenario, program, project or constant named.

Signals and evaluator:

* A handler on top of the thread that holds the non-recursive mutex waits for ever
  (`signals.c:246`), and nothing is masked meanwhile, because the set that
  `block_signals` masks is empty (`signals.c:218`): `Preempt = TRUE` refutes
  `SignalDispatched`.  `notes.txt:9` wants signals blocked there.
* `RETURNCON0 t` returns `Atom(t)` for any `t`, also for a tag that needs the extra
  field (`evaluator.c:708`; `RETURNCON` tests for it at 794).  The scenario
  `Alone("lates")` refutes `EntersThunks`.
* A resumed suspension is under evaluation while its block is an indirection:
  `lazy_blackhole` asserts a black hole (`stack.c:41`).  `BlackholesThunks` leaves out
  scenarios with interrupts for this reason; without that, "resumes" refutes it.
* Entering a suspension pushes all of its words without a check of the stack
  (`evaluator.c:523`): "deepens", interrupted on a stack of 48, refutes `StackInBounds`.
* An asynchronous exception is on the stack when this is suspended (`evaluator.c:660`):
  "resumes" refutes `SuspendsComputation`.
* MULINT looks for an overflow of the long product only when an operand is above `Max_half_long`
  (`evaluator.c:1576`), so that the product of two large negative numbers may wrap to a value; and it looks by
  dividing the product, which is undefined in C once that has overflowed: `gcc -O2`, as in the `Makefile`, drops the
  test.  `Multiply` has both outcomes.  `Scenarios <- OnlyProduct`, where -16 times -16 in words of six bits is 0,
  refutes `ResultIsMeaning`.
* The quotient of the least integer by -1 is not compared with the bounds, although the build
  checks them (`config.h:194`): `Val_long` drops a bit (`evaluator.c:1604`, `1637`), so that QUOTINT and
  DIVINT return the least integer where NEGINT raises `Int_overflow`.  No program divides so.
* A let as the definition of a recursive binding: `cgInit'` goes on with the inner variable where
  `cgAlloc'` has allocated the block of the outer one (`ToLvm.hs:101`).  `Scenarios <- OnlyRecursive`
  refutes `PacksAllocated`, which the instruction requires (`evaluator.c:1424`).

Collectors:

* A chunk that is appended above the last free block while the sweep is above that leaves `fl_merge`
  behind (`freelist.c:270`): the next freed block is linked before the chunk although it
  is above it.  `ListSorted` ("kept sorted", `freelist.c:29`) does not hold; `grewBehind` marks it.
* NEWAP and NEWNAP fill their block by plain stores (`evaluator.c:1173`), also when it
  was too large for the young area and is old at once.  `Unbarriered = TRUE` refutes `RefsKnown`.

Front end:

* What is inlined for the head of an application may be a `Let`, and the application
  is rebuilt with the arguments as they were (`Inline.hs:91`); a variable inlined in them
  is left unbound: "let x = (let a = id 1 in plus3 a a) in let z = id 2 in x z" has no code: `Sources <-
  HeadSources` refutes `HasCode`.
* `firsts` looks into the definition of a lazy `Let` although that is not evaluated there
  (`Inline.hs:171`): "let! a = RAISE 1 in let c = id a in 2 2 3" moves the evaluation of `a` into `c`, which is dropped,
  and the exception with it.  `Sources <- LostSources` refutes `KeepsMeaning`.
* A lambda at a strict binding passes `Normalize` and ends `asmAtom` with an error
  (`ToAsm.hs:149`): "let! f = \\x -> e in f 1", also what `Saturate` makes of a strict
  partial application.  The generated modules have none.

Linking:

* A chain of imports that leads into a circle which the instruction is not part of is followed for ever
  (`loader.c:867`: the check compares with the start of the chain).  `Projects <-
  RhoProjects`, which the compiler accepts, refutes `LoadEnds`.
* The arities of NEWCON, MATCHCON and ENTERCODE are not compared with what was
  loaded (`loader.c:952`); with a stale file the code allocates blocks of the
  old size.  `FreshLoads` says what holds when nothing is stale.
* `Check_tag` raises for nothing: `!Is_block(v) && ..` is false of every record (`loader.c:377`), so that the
  kind of what a record refers to is relied on (`FilesOK`).
* The file is written in place (`Write.hs:33`): a compiler that is stopped leaves a short
  file, which the loader refuses.  Versions of modules are always 0, so that
  the check of versions cannot fail.
* `find_symbol` finds the first record of a name, and imports come first in the
  file; a module with a function and an import of the same name is compiled for its own function
  and exports the imported one.  No project has such a module.
* Importing one thing under two names drops the second (`Import.hs`, `seen`); importing an
  extern has no record to refer to and ends `findIndex` with an error, when the file has been opened and emptied: the
  projects that do so have at most a file that is cut short for the importing module.
* A symbol that is not found has been counted already (`dynamic.c:312`); the run is over then.
* Read, not modelled: names are passed as C pointers into the heap across the reading of a
  module, which collects (`loader.c:533`); "fixes GC bug for unknown reasons" stands
  at a `gc_full_major` there; `find_module` compares names without case, the compiler
  with; `done_dynamic` asserts an empty list, which a mark in progress at the exit
  may prevent.

Compactor:

* `compact_allocate` leaves a chunk with room for three fields or less when the next one has no
  more, and reads the size of the chunk behind the last one through NULL (`compact.c:136`; the assertion is at
  143).  It takes a heap with almost nothing free, which `check_heap_size` and `gc_compaction`
  compact: `FindsChunk` is refuted, `CompactionEnds` is about `compact_heap_maybe`.
* `check_heap_size` compacts without finishing a cycle (`memory.c:57`): a finalised block that
  became unreachable since the cycle began is freed without its finaliser, so a dropped channel is
  not flushed ("flush on finalize", `primio.c:388`).  `FinalisedFirst` is refuted.

Channels:

* `seek_in` in a closed channel finds the position within the last buffer and moves `curr` back
  (`primio.c:327`), so that a read returns stale bytes; the comment at 452 says that every read raises.
  `SeekClosed = TRUE` refutes `ClosedRaises`.  No primitive exports `caml_seek_in` today.
* `offset` starts at 0 also when the file is appended to (`primio.c:76`, `primsys.c:174`); `primio.h:46` calls
  it the absolute position.  `OffsetIsPosition` is refuted.

## 6. Not modelled

See `PROJECT.json` "components" for each part with its reason.  In short: the
accounting of threads and the lists of roots are planned; options, printing, statistics and
the other primitives are input and output or C library arithmetic without a protocol; weak
arrays and finalisers have no caller in the repository; parsing of text, byte layout and
machine code are data that no property here tells apart.
