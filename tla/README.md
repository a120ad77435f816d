# jvmplus in TLA+

jvmplus is a small Java virtual machine in C++: it parses class files, links and
initialises classes, interprets bytecode, and brings its own memory manager with
three garbage collectors. This directory holds TLA+ models of it, the TLC
configurations that check them, and proofs for TLAPS. Paths below are relative
to the repository; `src/src`, `src/include` and `src/share/vm` are its trees.

- [1. Inventory](#1-inventory): the parts of the system, what can go wrong in them
- [2. Plan](#2-plan): the modules, in the order they were written
- [3. The memory models](#3-the-memory-models): state and actions against the code
- [4. The interpreter models](#4-the-interpreter-models): the same for classes and calls
- [5. The container models](#5-the-container-models): arrays and the hash map
- [6. The class file models](#6-the-class-file-models): stream, parser, constant pool, descriptors
- [7. The runs](#7-the-runs): what is checked, with which bounds
- [8. The proofs](#8-the-proofs)
- [9. What the models do not say](#9-what-the-models-do-not-say)

`PROJECT.json` relates every definition to source lines, lists the runs, a
mutation for each property, the hazards and the theorems.

## 1. Inventory

The process is single-threaded. What makes it hard is not interleaving but
re-entrance (malloc calls the collector, which calls malloc's helpers; class
initialisation calls the interpreter, which initialises classes), state shared
by activations, uninitialised fields, and long sequences of operations on
tables that are edited while they are iterated.

| Component | State | Operations | Correct when |
|---|---|---|---|
| Memory chunk (`src/src/memory/memory_chunk.cpp`) | available, used, transfer and idle tables (lists of cells), `m_used_cell_num`, `m_cell_start`, the memory itself | constructor, `malloc`, `real_malloc`, `malloc_after_gc` | cells never overlap; no unit is lost; the counter agrees with the tables; contents survive; malloc returns |
| Memory cell (`memory_cell.cpp`) | start, end, size, `m_mark`, `m_transfer_object` | bounds-checked increments and decrements, copy constructor | the checks never fire |
| Copying collector (`src/src/gc/mark_copy.cpp`), the default | none of its own | `run`: mark, swap halves, sweep | every marked cell is moved, none lost or visited twice |
| Mark-clean collector (`mark_clean.cpp`) | a flag | mark, clean | exactly the unmarked cells are released |
| Mark-compact collector (`mark_compact.cpp`) | a flag, the transfer table | mark with copies, clean, two merging passes, data compaction | free memory ends in one piece, contents survive the slide |
| GC factory (`gc_factory.cpp`) | `m_status` | `minor_run` | WORKING exactly while collecting |
| Memory pool (`memory_pool.cpp`) | list of chunks | `new_chunk`, `free_chunks` | trivially |
| Heap (`universe.cpp`, `genCollectedHeap.cpp`, `collectedHeap.cpp`) | two chunks in one pool | `mem_allocate`, `obj_allocate` | delegation to the young chunk |
| Metaspace, `HeapWord`, `MetaWord` (`metaspace.cpp`, `globalDefinitions.hpp`) | raw addresses read once from a cell | `allocate`, `new` of metadata | an address is used only while its cell is there |
| `Array<T>` (`utilities/array.hpp`) | length, capacity, block | insert, get, remove, set, push, pop, resize | behaves as a sequence, stays inside its block |
| `Hashmap` (`utilities/hashMap.hpp`) | buckets, size | put, get, remove, resize | behaves as a map across resizes |
| System dictionary, linking, initialisation (`systemDictionary.cpp`, `instanceKlass.cpp`) | the dictionary; per class its init state, static fields, vtable, itable | load, link, initialise, build vtable and itable | superclasses and interfaces linked first; `<clinit>` once; dispatch finds the most derived method |
| Calls and frames (`prims/JavaNativeInterface.cpp`, `javaThread.hpp`, `javaVFrame.hpp`) | frame stack, locals, operand stacks, a code position *per method* | `call_method`, `call_static_method`, push and pop of frames | one frame per activation, arguments in order |
| Interpreter (`interpreter/bytecodeInterpreter.cpp`) | the above | one case per opcode | every instruction's stack effect; the operand stack never underflows |
| Descriptor parser (`classfile/DescriptorStream.cpp`) | a cursor, shared by nested readers | parse descriptors, take parameters off the stack | every type as it is spelt; as many parameters as declared, in order |
| Constant pool (`oops/constantPool.hpp`) | tags and entries, two indices packed in one | put, get, lookups along references | a reference resolves to the names the file gives it |
| Class file parser (`classFileParser.cpp`, `classFileStream.cpp`, `classLoader.cpp`) | a stream, the tables of a class | sequential parse, no check of the bounds | every byte consumed once, in the right table |
| JNI glue (`src/src/jni`), printing, OS layer | host JVM handles | wrappers | the host gets the arguments in their order |

Interactions: `Universe` creates the heap over a memory pool; object and
metadata allocation end in `MemoryChunk::malloc`, which calls
`GCFactory::minor_run`, which runs the collector over the same chunk and returns
to malloc, which calls itself. The interpreter's `new`, `getstatic`,
`putstatic` and `invokestatic` link and initialise classes; initialisation runs
`<clinit>` through `JavaNativeInterface::call_method`, which pushes a frame and
enters the interpreter again. An instruction on a class of the `java` packages is
handed to the host JVM. The parser fills the constant pool and the tables the
linker and the interpreter read their names and descriptors from; frames,
operand stacks and every table of a class are `Array`s and `Hashmap`s.

What is hard to test, each with its line and the properties that watch it, is
the list `hazards` of `PROJECT.json`. The main ones:

- *Memory.* A sequence of splits, releases and reuses that makes two cells
  share memory, noticed only when one owner overwrites the other; the unused
  result of `malloc_after_gc` (`mark_copy.cpp:80`, `mark_compact.cpp:203`), which
  would drop a live cell; a list pushed to and erased from while it is iterated;
  overlapping `memcpy`; flags no constructor sets; unbounded mutual recursion of
  malloc and the collector; a status flag that would turn collections off.
- *Classes and calls.* A class initialised while its initialisation is under
  way, the superclass initialised after the class and unconditionally, a
  class without `<clinit>` that never becomes initialised, a code position that
  belongs to the method and not to the activation, dispatch through the
  class the instruction names.
- *Containers and encodings.* Growing and shrinking at the thresholds, an index
  truncated to eight bits, constants that take two places, a cursor that nested
  readers move, attributes that are not skipped.

## 2. Plan

| Order | Modules | What | State |
|---|---|---|---|
| 1 | `MemoryChunk`, `MarkCopy`, `MarkCopyLiveness`, `ObjectStore`, `MarkCopyProofs` | the allocator under the default collector; the promise to its clients as an abstract specification | written, checked; safety and the refinement proved |
| 2 | `CleanStep`, `MarkClean`, `MarkCompact`, `CleanStepProofs`, `MarkCleanProofs`, `MarkCompactProofs` | the two other collectors over the same chunk, implementing the same `ObjectStore` | written, checked; the invariants and both refinements proved |
| 3 | `Bytecode`, `Host`, `JavaMachine`, `Interpreter`, `InterpreterProofs`, `JavaMachineProofs` | loading, linking and initialising classes as the interpreter's instructions trigger it; the nested calls of interpreter and initialiser; frames and per-method code positions; objects, vtables and itables; what running a program means, as an abstract specification | written, checked; invariants, action properties and the refinement proved, most of them under conditions on the program |
| 4 | `ArrayT`, `StackStore`, `Hashmap`, `MapStore`, `ArrayTProofs`, `TableProofs` | arrays side by side in the metaspace and the hash map, each implementing an abstract container by refinement | written, checked, all properties proved |
| 5 | `Descriptors`, `ConstantPool`, `ClassFileStream`, `ClassFileParser`, `ClassFormat`, `ClassFile`, `TableProofs` (again) | reading class files: the parser against the format's meaning of a file | written, checked, the resolution of references proved |

Theorems, in the order they are worth having: the safety of each collector
(done) and that the chunk under it implements `ObjectStore` (done; for mark-compact
under two conditions on what the code leaves open); which references a constant
pool resolves (done);
the invariants of `ArrayT` and `Hashmap` and that they implement their abstract
containers (done); that a class which is linked has its superclasses linked
(`TypeOK` of `Interpreter`, done), that initialisers run once and that frames match
activations (done, under two conditions on the program); that a program
which the verifier of Java accepts never makes the process exit (`NeverExits`, done,
under those two and what no verifier can see); that the interpreter implements
`JavaMachine` (done, where the code does what Java says). Section 8 says what each rests on.

Modules to be proved about declare their parameters as `CONSTANTS` with named
assumptions and use no `RECURSIVE` operator.

## 3. The memory models

### How the modules fit

    ObjectStore          what any collector promises (abstract)
        ^ implemented by MarkCopy, MarkClean, MarkCompact
    MemoryChunk          chunk, tables, malloc; the steps all collectors share
        ^ EXTENDS        ^ EXTENDS
    MarkCopy         CleanStep         clean_step, shared by the next two
        ^                ^ EXTENDS     ^ EXTENDS
    MarkCopyLiveness MarkClean     MarkCompact
    MarkCopyProofs   MarkCleanProofs   MarkCompactProofs
                         CleanStepProofs      what the last two share

`MC*` modules give the constants their values for TLC.

### State

A chunk is `CellNum` units of `AlignSize` bytes, addressed `0 .. CellNum - 1`
relative to `m_data`. Variables are the members of `MemoryChunk`; `data` holds one
abstract word per unit. A cell of the used table carries its *address* (`id`:
where `new MemoryCell` put it, the identity the program holds), since moving a
cell changes its place but not its identity; the cells of the available and
idle tables are only extents. `written` is a history field: the owner has
stored its object. The word an owner stores, `Word(cell, u)`, names owner and
offset, so no two words are alike and a misplaced copy cannot go unnoticed.

A collector erases from the list it iterates over. The iterator is kept by
splitting the used table in `used` (before it) and `rest` (from it on): erasing
is taking the head of `rest`, and `push_front` goes to `used`, behind the
iterator, as in the code.

`phase` is the program counter inside `malloc` and the collector it called.
`malloc` may run at any time in phase `running`; the steps in between are the
turns of the collector's loops, so that the invariants are checked between
any two of them.

| Model | Code |
|---|---|
| `Malloc`, `RejectRequest` | `malloc`, up to the search: rounding to units, the check against the chunk |
| `RealMalloc`, `Carve` | `real_malloc`: first fit, split, remove, empty the table when the chunk is full |
| `MinorRun`, `ReturnToMalloc` | `GCFactory::minor_run` and malloc's call of itself |
| `MallocAfterGc`, `Copy` | `malloc_after_gc`, with the order of an overlapping `memcpy` left open |
| `Store` | the program writing through the cell it was given |
| `MarkStep`, `SwapHalves`, `SweepCell`, `EndOfSweep` | `MarkCopy::run`; `MarkStep` is also mark-clean's: a loop over the flags that touches nothing else, in one step |
| `MarkBegins`, `MarkCell`, `EndOfMark` | `mark_step` of mark-compact, one cell a step: it sets live cells aside in the transfer table and leaves copies of them |
| `CleanCell`, `NothingReclaimed`, `EndOfClean` | `clean_step` of the two others, with its `exit` |
| `CompactBefore`, `CompactAfter`, `TransferCell`, `EndOfTransfer` | `memory_compact_before`, `memory_compact_after` (one merge a step), `data_compact_step` |

The repository has no reachability analysis: each `mark_step` marks cells of
certain sizes (`size == 4`, in the copying collector also `size == 1`), a
stand-in for it, and the models do the same. The constructor of `MemoryCell`
sets neither `m_mark` nor `m_transfer_object`; a new cell therefore takes any
flags of the constant `FreshFlags`. `exit` leads to phase `exited`, in which
only stuttering is possible.

`ObjectStore` sees the live objects as a function from addresses to size, mark
and content, and allows allocation, writing, marking, the freeing of unmarked
objects during a collection, and the end of a collection when every object left
was marked. It has no places. Each collector implements it under the mapping
`Promise` of its module: a step that moves a cell maps to a stutter, which is the
point. While mark-compact runs, the cells the program holds are the originals
in the transfer table and not the copies left in the used table
(`CellsHeld`).

## 4. The interpreter models

### How the modules fit

    JavaMachine          what running a program means (abstract)
        ^ implemented by Interpreter
    Bytecode             programs, tables, the effect of an instruction on a frame
    Host                 the Java machine behind g_env (external)
        ^ EXTENDS (both)
    Interpreter          run, initialize_impl and call_method over shared state
        ^ EXTENDS
    InterpreterProofs    its invariants
        ^ EXTENDS
    JavaMachineProofs    that it implements JavaMachine

A program is data: what all programs of a run share (`Common`: classes with
superclass, interfaces, static and instance fields, signatures, the code of the
library methods) and the code of `main` and of the static initialisers
(`program`). Code is straight-line; the interpreter implements no jump. Values
are abstract, and an object is a number, its place in the heap. The host keeps
what is stored in its fields, remembers the calls made of it, and answers each
with a value of its own, so a wrong receiver or argument is a different call.
`StackDepth` gives each code the depth of its operand stack at every position, as
javac computes it; the model does not read it, only the proofs and the assumption
about programs (section 8).

### State

| Model | Code |
|---|---|
| `classState` | presence in `SystemDictionary`'s dictionary and `InstanceKlass::_init_state` |
| `statics` | the static fields in the class mirrors, once `initialize_static_filed` put them there |
| `position` | `BaseBytecodeStream::_current`, one for each *method* |
| `frames`, `thread` | the `JavaVFrame`s ever made, and `JavaThread::_stack` of indices of them |
| `control` | the C++ call stack: activations of `run` with their local `frame`, and of `initialize_impl` |
| `heap` | the objects `InstanceKlass::allocate_instance` made, each with its class and its fields by declaring class |
| `host` | the host JVM: its fields, the calls so far |
| `exited` | `exit(-1)` |

`frame` in `run` is a local variable of C++ and need not be the top of `_stack`;
some instructions use the one (loads, stores, `new`), some the other
(`aconst_null`, taking arguments, the returns). Keeping both is what makes the
model able to go wrong as the code can.

An instruction that uses a class takes two steps: `UseClass` reads the opcode and
operand (the position is past the instruction), resolves and links, and puts
`initialize_impl` on `control`; when that has returned, the action of the
instruction finishes it. Anything may have run in between, and the values the
code had popped before (`putstatic`, `getfield`, `putfield`, the arguments of
`invokeinterface`) wait in a local variable of C++, here `held`.

| Action | Code |
|---|---|
| `EnterInitialize` | `initialize_impl` up to its call of `<clinit>`, with `link_class_impl`, the static fields and the early return of a class without `<clinit>` |
| `LeaveInitialize` | the rest: `fully_initialized`, and `initialize_impl` of the superclass whatever its state |
| `LocalInstruction`, `AconstNull` | constants, loads, stores, dup, pop; `aconst_null` |
| `ReturnVoid`, `ReturnValue` | `return`; `ireturn`, `areturn`: they pop a frame and stay in the loop |
| `UseClass` | `ldc` of a class, `new`, the field instructions and the calls, up to `klass->initialize()` |
| `LoadClass`, `New`, `GetStatic`, `PutStatic`, `GetField`, `PutField` | what follows it |
| `Invoke` | the same for `invokestatic`, `invokespecial`, `invokevirtual`: the lookup, its `exit`, the reset of the stream and `call_method` |
| `InvokeInterface` | `invokeinterface`: the itable of the class the object had before initialising, and `call_method` with an array of parameters |
| `HostInstruction` | the branches `start_with("java")` of the same instructions, with `get_params_val` |
| `EndOfCode` | `while (!code->end())` |

`main.cpp` resolves the launch class and calls `main`; it does not initialise the
class, although the comment on `initialize_impl` counts the launch class among
those initialised (`instanceKlass.cpp:374`). `Init` does as the code does.

### Refinement

`JavaMachine` has activations with a pc of their own, fields that exist from the
beginning, and the set of classes whose initialiser has begun. It lets a class
above the one in use be initialised at any time the use is pending, since the
code initialises superclasses *after* the class, and does not ask for it, since
the code skips it for a class without `<clinit>`. In the mapping (`Machine` in
`Interpreter`, with `Activations`, `Fields` and `BegunClasses`) the activations are the frames on `thread`; the pc is the method's
position, less one while the frame waits for a class; the values an instruction
holds are still on the operand stack; `begun` is the classes with a `<clinit>`
whose state is past `linked`. Resolving, linking, leaving `initialize_impl` and
the end of the loop are stutters. A constructor of the host is not called, and its
operands stay on the operand stack: `left` counts those at the bottom, which the
mapping leaves away. (Only there can it: in the middle of an expression, such as
an argument, the program would take such an operand for another value.)
That the mapping exists is a strong statement:
a position shared by activations has to be right for each of them.

## 5. The container models

`ArrayT` is `Array<T>` where it matters: several arrays and other objects in one
memory. `memory` holds the words, `top` is where the next block goes, `array` has
`_size`, `_capacity` and `_data` of each array. Allocation takes the next words
upwards: that is what the first fit of malloc amounts to between collections,
proved for the chunk as `BumpAllocation` (section 8). `NewObject` stands for
everything else that is allocated in the metaspace and must not be overwritten.

| Model | Code |
|---|---|
| `New` | both constructors |
| `Push`, `Insert` | `push`, `add`, `insertLast`: `insert` at `_size`, with its `resize` |
| `Pop` | `pop`: `remove` of the last element, with its `resize` |
| `SetAt` | `set_at`, which writes by index and increments `_size` each time |
| `Moved`, `Resize` | `resize`, which copies `_capacity` elements whatever the new capacity |

When an array shrinks, `resize` writes beyond the new block. The words it hits lie
above everything allocated so far, and are given to the next object, which
initialises its own. So `StackStore`, in which arrays are sequences and tables of
their own, is implemented all the same, and `ObjectsIntact` holds; both would
fail with an allocator that reuses memory, and the code is wrong at the end of
the chunk. A new table's words are arbitrary in `StackStore`: nothing sets
them.

`Hashmap` has `_hashtable`, `_size` and `_M`, and the hash function as a parameter.
`put` and `remove` are actions, with `resize` inside them; `get` and `contains`,
which change nothing, are the refinement mapping: `MapStore`'s map is what they
find. Keys are equal when their symbols' content is: buckets are `std::map`s
over `std::less<Symbol*>`, which compares content.

## 6. The class file models

    ClassFormat          class files and what they mean (external)
    Descriptors          DescriptorStream
    ConstantPool         ConstantPool
    ClassFileStream      ClassFileStream, Bytes
        ^ EXTENDS (the last three)
    ClassFileParser      parse_class_file over a stream
        ^ EXTENDS, with ClassFormat
    ClassFile            the parser reading files that keep to the format
    TableProofs          about ConstantPool (and Hashmap)

A file is a sequence of bytes; `current` is the stream's position, `cp` and
`klass` are the pool and the class under construction. The C++ calls of the
parser are in `todo`, a stack of loops with the turns each has left: an action
is one turn of one loop (`ParseEntry`, `ParseInterface`, `ParseField`,
`ParseFieldAttribute`, `ParseMethod`, `ParseMethodAttribute`,
`ParseExceptionHandler`, `ParseCodeAttribute`, `ParseLocalVariable`,
`ParseLineNumber`, `ParseClassAttribute`, `ParseBootstrapMethod`,
`ParseInnerClass`) or what lies between the loops (`ParseHeader`,
`ParseClassInfo`, `ParseFields`, ..., `CreateKlass`). `outcome` tells a parse that
goes on from one that ended, was ended by `exit`, or by an assertion of the pool.

`Descriptors` reads descriptors character by character with the cursor of
`do_parse` made explicit: every reader returns what it read and where it left the
cursor. Class and member names are short texts of arbitrary characters.
The stream checks no bounds; reading past the end gives zeros in the model, and
`TypeOK` says that it does not happen.

`ClassFormat` goes the other way and shares nothing with the parser: `Encode`
writes a file given as a record, with the lengths and counts the format
prescribes, and `Meaning` is the class it describes. Parser and format meet in
`ClassReadBack` and `ReferencesResolve`.

## 7. The runs

| Run | Configuration | Question | Bounds |
|---|---|---|---|
| `copy_safety` | `MarkCopy.cfg` | safety of the copying collector, refinement | 11 units (odd: half is rounded down, 5 and 5, one wasted), 5 addresses, sizes of 0, 1, 2, 4, 6 and 12 units |
| `copy_liveness` | `MarkCopyLiveness.cfg` | malloc returns when the request fits beside the survivors; collections end | 10 units, 2 addresses, sizes 2 and 4 |
| `copy_passed_size` (violated) | `MarkCopyPassedSize.cfg` | a size that passes malloc's check is served or refused | as before, and size 6 |
| `clean` | `MarkClean.cfg` | safety, refinement and termination of mark-clean | 7 units, 3 addresses, sizes 2, 4 and 8 |
| `compact_tables` | `MarkCompact.cfg` | tables of mark-compact under any garbage flags | 9 units, 4 addresses, sizes 2 and 4 |
| `compact_moves` | `MarkCompactMoves.cfg` | contents, refinement and the result of a compaction | 13 units, 6 addresses, sizes 2 and 4, flags zero, ascending copy |
| `interpreter` | `Interpreter.cfg` | frames, static initialisers, termination, refinement of `JavaMachine` | 5812 programs, all of up to 2 statements, see below |
| `interpreter_clinit` (violated) | `InterpreterClinit.cfg` | a method's stream is reset before each call | the programs in which a superclass is initialised first |
| `interpreter_reentered` (violated) | `InterpreterReentered.cfg` | returning from `run` restores the caller's frame | the programs in which a static initialiser re-enters a method |
| `array` | `ArrayT.cfg` | arrays in one memory: disjoint, others untouched, resizing, refinement of `StackStore` | two stacks, a table of 2, objects of 2 words, first capacity 2, 11 words, up to 3 elements |
| `hashmap` | `Hashmap.cfg` | count and load (`LoadBounded`), resizing, refinement of `MapStore` | 7 keys, 2 values, tolerances 3 and 1, first capacities 1, 2 and 5, three hash functions |
| `class_file` | `ClassFile.cfg` | files are read to the last byte and mean what the format says; references resolve | 2916 files, see below |

No state constraint is used: the chunk bounds everything. The sizes are chosen
around the stand-ins of marking (sizes 1 and 4 live, 2 dies) and around the
boundaries: a cell that is used up exactly, a half that is full, a size between
a half and the whole. There are as many addresses as cells fit in the chunk
with the sizes that matter, so running out of addresses never stands in for
running out of memory in the runs whose properties depend on it; with
`copy_safety`'s requests of one unit a half of five cells is full as well.
The behaviours are infinite: any number of allocations and collections follow
each other.

*Programs.* `MCInterpreter` makes programs of a `main` of up to two statements
out of twenty-four: creating objects; reading, writing and inheriting statics;
class literals; virtual, special, static and interface calls with up to two
arguments and nested calls; instance fields of a class and of its superclass, read
and written by name from below; and the host: constructing, storing into static
and instance fields, calling with and without an answer. There are three
classes and two interfaces; A and B each implement an interface of their own, and
B extends A and with it the interface of A. Each class is with or without one of several static
initialisers, which use each other's fields and methods. Two statements are
enough for a class to be in any state when the second one uses it; the
initialisers add the nesting. Two families are kept apart, because the code is
wrong on them: the programs in which a superclass's `<clinit>` is due a second
time (`RunsClinitAgain`), and those in which a method is entered again while it
is active, which without jumps only a static initialiser can do and end. Each
is the subject of a violated run. The programs of the passing run call virtual
methods only through the object's own class, and only public instance methods.

*Class files.* `MCClassFile` has constants of every tag, in front of them none, a
long or a double (which move all indices by two); four method signatures, with
arrays of up to three dimensions, references whose names contain the letters of
basic types, and a result of each kind (none, a basic type, a class, an array); three field types; up to three fields, up
to two methods, with every attribute the parser knows, tables with no, one and two
rows, code attributes in code; class attributes none, one and two. Indices are
small: what happens above 255 is proved instead (section 8).

*Containers.* The capacities of the code are scaled down so that a few elements
make an array or a table grow and shrink several times; `TolerancesApart` names
the relation between the tolerances and the first capacity that makes resizes not
undo each other, which 10, 2 and 7 satisfy (section 8 says why the tolerances alone
are not enough). `MemoryEnd` bounds what is allocated in a behaviour,
`MaxSize` a `_size` that `set_at` only ever increments. When the memory is used up
a behaviour of `ArrayT` may end. The hash functions of the run spread the keys,
put them all in one bucket, and leave buckets empty.

*Symmetry and views.* Addresses are only compared for equality, so
`AddressSymmetry` is sound; it is not used in a run with a liveness
property. `LiveDataView` forgets the words of units no written cell lies over:
nothing but `Store`, which overwrites them, and `Copy`, which carries them to another
unwritten cell, touches them, and no property compares them with anything.
`ReadableView` forgets the words nobody reads
(blocks an array has left, capacity above `_size`, memory not handed out): they
are copied, but no property depends on them. `PlacesView` forgets the data and the `written` fields altogether and is used
only with properties about tables; no guard reads either.

*Fairness.* `FairSpec` asks that `RealMalloc`, `MinorRun` and the collector's
step are taken when they are enabled for ever. One thread executes malloc and
the collector it calls, they wait for nothing, and in a phase other than
`running` nothing else of the process can execute. Nothing is assumed of the
program: it may never call malloc again.

`Interpreter`'s `FairSpec` asks that some step is taken while one can be: the
one thread runs on, and nothing in it waits.

*Mutations.* Every property of a passing run is shown to notice a plausible bug.
The distorted operator stands right before the one it distorts
(`CarveNothing` before `Carve`, and so on) and nothing else uses it.

### What the violated runs show

- `copy_passed_size`. malloc compares a request with the whole chunk
  (`memory_chunk.cpp:146`), but the copying collector allocates from one half. A
  size between the two passes the check, no collection can ever make it fit,
  and malloc and the collector call each other without end (in the program: until
  the stack overflows).
- `interpreter_clinit`. After class A, its subclass B: `initialize_impl(B)` ends
  with `initialize_impl(A)` without looking at A's state, and calls A's `<clinit>`
  again without the reset that every `invoke` does. The stream is at its end, so
  `run` returns at once, and the frame it was to pop by its `return` stays on the
  thread's stack, under which everything after takes its arguments.
- `interpreter_reentered`. `A.twice` uses class C, whose initialiser calls
  `A.twice`: the inner activation resets the stream, reads it to the end, and the
  outer one finds itself at the end as well. Its frame is not popped and its
  value not returned.

And three that are not runs:

- `clean_step` of mark-compact ends the process when it released nothing
  ("there is no reclaimable memory", `mark_compact.cpp:184`), but the copies
  `mark_step` leaves in the used table are released by the same loop
  (`mark_compact.cpp:176`): with only live cells the exit is not taken, and malloc
  and the collector call each other for ever. Mark-clean, which makes no
  copies, does end (`MallocEnds` in run `clean`).
- With `CopyOrders = {"descending"}` in `MarkCompactMoves.cfg`, TLC finds
  `ImplementsObjectStore` violated. A cell that slides down by less than its own
  size is copied with `memcpy` on overlapping blocks (`memory_chunk.cpp:239`),
  undefined behaviour that is harmless only where the library copies upwards.
  In the copying collector source and target lie in different halves and the
  order does not matter, which the proofs confirm.
- Nor does `ImplementsObjectStore` hold of mark-compact for every content of `m_mark`,
  which the constructor of `MemoryCell` leaves unset, even where `memcpy` copies upwards.
  A cell that is marked by accident stays where it is for ever and divides the free
  space, and the order in which the clean step fills the available table is that of
  age, not of address. On 22 units, with requests for 2, 2, 1, 2, 2, 1, 9, 5, 4, 4, 4
  and 5 of which the two of one unit come marked, TLC finds the second collection
  moving a cell up, over one that it has set aside but not moved yet. With flags of zero
  the cells only slide down in their order (`LiveCellsSlide`, section 8).

## 8. The proofs

The theorems hold for every value of the constants that satisfies the named
assumptions of the module: every chunk of at least two units, every `AlignSize`, every
set of request sizes and of addresses, every content of the uninitialised flags, every
order of an overlapping `memcpy`, every hash function, every capacity. The
properties are the definitions TLC checks. Each proof module has the same plan: an
inductive invariant (`IInv`, of the interpreter `TypeInv`, `FreshInv`, `ClinitInv`,
`FlowInv`, `CallsInv`, `DepthInv` and `BegunInv`, stated in the module of the component), one lemma for each
action's effect on it, `Invariance`, and the theorems as consequences. TLC has
checked each of them on the configurations of section 7 before it was proved.

### The copying collector: `MarkCopyProofs`

| Theorem | Property |
|---|---|
| `TypeCorrect` | `TypeOK`, with GCFactory's status tied to the phase |
| `NoCellsOverlap` | `CellsDisjoint` |
| `NothingLeaks` | `HalfAccountedFor` |
| `ContentsSurvive` | `ContentsIntact` |
| `SurvivorsAlwaysFit` | `SurvivorsFit` |
| `OnlyRejectionExits` | `ExitsOnlyOnRejection` |
| `ImplementsPromise` | `ImplementsObjectStore` |

None of them is inductive alone. That cells are disjoint does not say that the
next cell malloc carves is disjoint from them, nor that a survivor fits. The
invariant that does, `IInv` in `MarkCopy`, comes from looking at what first fit
amounts to when nothing is ever released: the available table holds at most
one cell, the top of the active half, so

- `BumpAllocation`: the used table, newest first, fills the active half from its
  start without gaps and in descending order of address, and the one available
  cell is the remainder;
- `SweepHasRoom`: the cells still to be swept descend in the other half, and what
  has been moved plus everything below the end of the first of them is no more
  than a half: the sweep takes cells from the top, so there is room for each;
- `RequestIsPositive` and `ContentsIntact` complete it.

The refinement adds two facts (`RInv`): an address belongs to one cell
(`OwnersApart`), which lets a set of cells be a function from addresses to objects, and
what the sweep has moved is marked (`MovedAreMarked`), so that a collection ends with
marked objects only. A move is a stutter because `Copy` takes the words along
(`ContentsIntact`), whatever the order in which `memcpy` copies.

### The other collectors: `CleanStepProofs`, `MarkCleanProofs`, `MarkCompactProofs`

| Theorem | Property |
|---|---|
| `TypeCorrect` (each) | `TypeOK` |
| `CellsStayApart` (each) | `CellsDisjoint` |
| `NothingLeaks` (each) | `ChunkAccountedFor` |
| `ImplementsPromise` (mark-clean) | `ImplementsObjectStore` |
| `MergesAll` (mark-compact) | `FullyMerged` |
| `EverythingFits` (mark-compact) | `TransferFits` |
| `CompactsFully` (mark-compact, new cells come with flags of zero, `memcpy` copies upwards) | `CompactedAtReturn` |
| `ImplementsPromise` (mark-compact, likewise) | `ImplementsObjectStore` |

Here cells are released in any order, and nothing can be said of where they lie.
`Tiled` says what the tables always are, a partition of the chunk into non-empty
cells, and `CleanStepProofs` that carving, releasing, passing over and marking keep it.
Carving up the first suitable cell keeps it because what is cut off and
what remains are together what was there; `malloc` may replace the table by an
empty one when the counter says that the chunk is full only because the counter
counts the units of the used cells, and the cells are disjoint.

Mark-clean's invariant adds that the iterator has passed marked cells only and
that an address belongs to one cell, from which the refinement follows: releasing
maps to `Free`, everything else the collector does to `Mark` or a stutter.

Mark-compact's needs more, because `data_compact_step` ignores the result of
`malloc_after_gc`. Its argument, `TransferHasRoom`, counts slots, places for four units
at a multiple of four units from the start of a free cell. `mark_step` leaves a copy of four units
without a mark where each cell that it sets aside lies; the clean step turns it
into a free cell, which is a slot; a merge loses no slot, since it maps those of both parts
into the whole one to one; a cell given a place takes the first slot of the first free cell that has
one, and the other slots stay where they were. So there is a slot left for each cell still to be placed,
whatever the flags did to the rest of the table.

`MergedDown` is what the first of the two passes leaves to the second: no cell starts where a
later one ends. A merge upwards keeps it, hence after the second pass no two
cells touch in either order, although neither pass looks both ways.
`TransferHasRoom` and `MergedDown` talk of states between two turns of a loop; the
steps of the model are those turns.

All this holds whatever the flags. What becomes of the live cells does not (section
7), so `CompactsFully` and `ImplementsPromise` have hypotheses, the configuration of
`compact_moves` written as formulas: `FlagsAreZero` and `CopiesUpwards`. They are
properties of the memory `new` returns and of the library's `memcpy`, not of the
code. Under them the chunk is again handed out from its start upwards. `SlideInv`
follows the live cells through a collection:

- between two collections, the used cells lie in descending order below
  `m_used_cell_num`, the newest on top, and everything above is one free cell (`Bumped`);
- the mark step therefore meets them from the top down and leaves them ascending
  in the transfer table, since each goes to its front (`MarksDownwards`);
- nothing is marked, so the clean step releases everything, and since no two free cells
  touch after the merging passes, there is one (`ChunkIsOnePiece`);
- so the first cell set aside goes to the first free unit, which is at or below
  where it lies, and the others lie above it (`Slides`): no unit is written that is
  still to be read, and a `memcpy` that copies upwards copies such a block rightly.

A move then is a stutter of `ObjectStore`, releasing a copy as well, and releasing any
other cell its `Free`.

### The containers: `ArrayTProofs`, `TableProofs`

| Theorem | Property |
|---|---|
| `TypeCorrect` (each) | `TypeOK` |
| `NoBlocksOverlap`, `ObjectsStayIntact`, `ResizesLeaveRoom`, `ImplementsStacks` | `BlocksDisjoint`, `ObjectsIntact`, `ResizeLeavesRoom`, `ImplementsStackStore` |
| `LoadStaysBounded`, `ResizesLast`, `ImplementsMap` | `LoadBounded`, `ResizesAreNotUndone`, `ImplementsMapStore` |

For `ArrayT` the invariant is that whatever belongs to somebody lies below `top`. Every
write of an operation goes into the array's own block or above `top`, also the one
of a shrinking `resize` that copies too much (`CopyEffect`, `TouchKeepsOthers`): the others' words
stay, which is the refinement of stacks and tables that share nothing.

For `Hashmap` it is `WellFormed`: the keys of a bucket are those that hash to it. Then a
key is in one bucket, counting keys is counting entries, and rehashing forgets none. The
proof of `ResizesLast` found that the tolerances have to keep a distance from the
first capacity too: halving rounds down, so a table of 2n + 1 buckets becomes one of n,
and with few buckets the one that is lost counts. `TolerancesApart` says how far is
enough; without its last conjunct TLC finds a table that halves and doubles in turn.

### The interpreter: `InterpreterProofs`

| Theorem | Property | Under |
|---|---|---|
| `Invariance` | `TypeInv` | |
| `TypeCorrect` | `TypeOK` | |
| `ClinitsRunOnce` | `ClinitRunsOnce` | `SupersComeLater` |
| `CallsStartFirst` | `CallsStartAtTheBeginning` | `SupersComeLater` |
| `FramesMatch` | `FramesMatchActivations` | `SupersComeLater`, `NeverReentered` |
| `ReturnsRestore` | `ReturnsRestoreTheCaller` | `SupersComeLater`, `NeverReentered` |
| `ProgramsStay` | `NeverExits` | these two, `ObjectsAreGiven`, `InterfacesAreFound`, `TypesAreKnown`, `HostInterfacesUnused` |

They hold for every hierarchy of classes and every set of programs that satisfy the
assumptions of `Bytecode`; the first five need only two of them. `HierarchyAssumption`: superclasses and interfaces exist.
`CodeAssumption`: a code ends in its one return, since there are no jumps; a
static field that an instruction on a class of the program names is declared there or above; no
instruction names `<clinit>`, which the format forbids. Acyclicity is not assumed:
`Lineage`, the classes from one upwards, is the least set closed under
`super`, and what linking reaches (`LinkedTogether`) is the least set closed under
superclasses and interfaces, which is all the proofs use. The third,
`VerifiedAssumption`, is needed for `ProgramsStay` alone and says what javac and the
verifier see to: `StackDepth` is 0 at the beginning of a code and goes up and down
with its instructions, whose operands are there (`Fits`); a method called by its
class is declared there, one called on an object there or above (`Callable`); the
methods a call may reach take as many arguments and return a value or not, as the
call expects; `main` and `<clinit>` return nothing. It says nothing of what a value is.

There is an action for each group of instructions, but only a few kinds of step, and the
proofs first reduce the ones to the others (`StepsAreOfAKind`): an instruction
is done within the frame (`TurnStep`); a return pops a frame (`ReturnStep`); an
instruction starts to wait for a class (`WaitStep`) and is done when that is
initialised (`DoneStep`), or calls a method (`InvokeStep`); `initialize_impl`
begins, runs `<clinit>`, and ends; the loop of `run` ends. The invariants
then have a step for each kind.

- `TypeInv`: frames, calls and objects are well-formed, each position lies within
  its code, the instruction a run waits in is one of its method's and is on a class of
  the program, and an `initialize_impl` that has run a `<clinit>` is of a linked class that has one.
- `FreshInv`: a method that never had a frame has its code at the beginning. The
  call of `<clinit>` does not reset the code, so it is right because it is the first.
- `ClinitInv`: a `<clinit>` has a frame only when the initialisation of its class has begun;
  an `initialize_impl` that is still to run it is the innermost call, and there is no frame
  of it yet.
- `FlowInv`: the thread's stack has a frame for each activation of `run`, in the same order,
  and no activation but the innermost is at the end of its code; or the innermost is at the
  end and has popped its frame, which is the moment between `return` and the loop's condition.
- `CallsInv`: what lies on a call of `run` is what it has called: another `run`, or, when it waits
  for a class, an `initialize_impl`, and on that the `run` of the class's `<clinit>`. A run waits with the
  instruction just before its position, and `held` has the operands this one pops before initialising.
- `DepthInv`: the operand stack of every activation is as deep as `StackDepth` says, above what
  constructors of the host have left on it (`left`). Where exactly depends on what the run
  is doing: at its position; before the instruction that waits, less what that has popped; after a call, less
  the value the method has yet to return. A method that has returned one but whose loop has not
  ended is the case between, and `Calling` tells the two apart.

An instruction exits when an operand is missing, so for `ProgramsStay` each action has a lemma that
says how deep it leaves the frame it works on (`LocalInstructionWrites`, `HostInstructionWrites`, ...,
`InvokeTakes` for a call, `ReturnsWrite` for a return). The rest is that nothing else is touched: that the calls below the
innermost stand as they stood (`CallsBelowStand`), and that with `NeverReentered` their methods are others
than the one whose position moves, so that what `DepthInv` says of them stays true. `ProgramsStay` needs
`FlowInv` too, since returns and the taking of arguments work on the top of the thread's stack and not on
the frame of the run.

Two conditions are not promised by the code. `SupersComeLater`: whenever
`initialize_impl` will go on to the superclass, that class has no `<clinit>` or its
initialisation has not begun. `NeverReentered`: no method has two activations of
`run` at a time. They are conditions on the states a program goes through, stated with
`[]` in front of the theorems. Without the first a `<clinit>` runs
again with its code at the end, and without the second the return of one
activation ends the other: the runs `interpreter_clinit` and
`interpreter_reentered` show either.

Four more keep a program from what no verifier can see. `ObjectsAreGiven`: a field or method
of an object is not asked of null. `InterfacesAreFound`: the class of the object an interface
method is called on has an entry for it in its itable. `TypesAreKnown`: no field of array type is read and no host method
with a parameter of a type the interpreter does not know is called, for which it has no case.
`HostInterfacesUnused`: `invokeinterface` does not name an interface of the host; the code skips such a
call, so a method that returns something leaves the stack one operand short. Each of the others
ends in an `exit` or a null pointer in the code, so none could be left out.

The programs of the run `interpreter` satisfy all six in every state, and TLC checked that, together
with the invariants, before they were proved: with two statements to a program, 183176 states
(`TypeInv`, which is slow to evaluate, on the programs of one statement).

### The refinement: `JavaMachineProofs`

`RunsAsJava` says that a program whose states all satisfy these conditions is run as `JavaMachine` runs it
(`ImplementsJavaMachine`): `NeverReentered`, `SupersComeLater`, `ObjectsAreGiven`, `InterfacesAreFound`
and `TypesAreKnown`, as above, and three that exclude what the code does otherwise than Java.

- `FieldsAreFound`: the class of an object, or one above it, has the field that is read or written.
- `DispatchesByObject`: the vtable of the class an `invokevirtual` names has the same method as that of the
  object, for the code looks in the former (`bytecodeInterpreter.cpp:1173`). The itable is another matter:
  it belongs to the object, and wherever it has a method at all, that is the one the vtable has
  (`NearestImplements`), so nothing has to be assumed of interface calls.
- `HostServesAsJava`: a host method is given at most one argument, and no floating-point one, for
  `get_params_val` reverses two and converts the other; no field of a host object is read, for the code asks
  the class object; no interface of the host is called; and a constructor of the host, which leaves
  its operands behind, is called where what lies under them reads the same without them, as on an
  otherwise empty operand stack. It implies `HostInterfacesUnused`.

TLC checked these three too on the programs of the run `interpreter`, where they hold in every state.

The invariant, `MachineInv`, adds to those above `BegunInv`, which says that no use comes before its
initialisation: a run that waits for a class has on it the initialisation of that class, or of one above it, or
the class has been begun; an `initialize_impl` that has not run `<clinit>` is of a class that has not been begun, if
that has one; objects are of classes that have been begun; and the fields in the mirrors are those of linked classes.

The proof then compares what is seen of a frame, `Seen`, with the activation that `JavaMachine` has. Reading
an instruction that uses a class is not seen (`UseClassUnseen`): the position has moved, but one is
taken off it while the run waits, and the operands popped are put back from `held` (`WaitingSeen`). The
instruction is seen when the run is resumed (`GetStaticMapped`, `InvokeMapped`, ...), as one step that
takes them and goes on. In between, a `<clinit>` is seen as `Initialise` (`InitialiseMapped`), allowed
because its class is in the lineage of the one that waits, which is what `AwaitsClass` in
`BegunInv` keeps. With one position for each method, the other activations stay as they were only because no
other runs the same method (`ActivationStays`), and because they have frames of their own (`FramesAreApart`).

### Constant pool: `TableProofs`

The rest of `TableProofs` is about the operators of `ConstantPool`, for every pool and
every index of sixteen bits. An entry packs two of them in one word and reads
them back with `>> 16` and `& 0xFF`; `FirstIndexReadBack` and `SecondIndexReadBack`
say for which indices the reading is right, and that it is wrong for all
others: below 32768 and below 256. `MethodRefResolves` follows the words through
two levels: under these limits, and whatever else the pool holds, a method reference
leads to the class, the name and the descriptor of the file. `Pack` is first
reduced to a multiple of 65536 and a remainder (`SmallFirst`, `LargeFirst`); the
rest is reading entries (`WordRead`, `SymbolRead`). Since a name and type or a
descriptor is the second index of its entry, a class with more than 255 constants
in front of them is not read as it was written.

### Model-checked only

- Liveness: `MallocEnds`, `FittingRequestServed`, `CollectionEnds`, `ProgramEnds`. The
  provers here have no rule for fairness.
- `ClassFile`: that the parser reads back any file is an induction over the file.

## 9. What the models do not say

- Reachability: the repository has none; marking is by size, as in the code.
- Failure of `calloc` or `new`, destructors, and printing.
- `major_run` and `full_run`, whose bodies are empty.
- Widths: counters are bounded by the chunk, far below 2^32. The comparisons of
  unsigned numbers with 0 in the `desc_` functions cannot fire in the code and have no
  counterpart here; the invariants show that the counters do not wrap.
- Bytecode. The instructions are all there; these uses of them are in no program checked, mostly
  because the code does not do what Java says, or nothing at all (where the model has such a use,
  a condition of `RunsAsJava` excludes it):
  - fields of array type: `push_field` and the host branches have no case for them
    and end the process (`PushField`, `OfKnownType`); no program of the run has one;
  - `getfield` on a host class, which asks the class object instead of the object
    (`bytecodeInterpreter.cpp:828`); it is in the model (`HostGetField`), not in a
    program;
  - host methods with more than one argument, which are passed in reverse order, and
    with floating-point arguments, whose bits are converted as a whole number
    (`get_params_val`, in the model likewise); interface methods and constructors of
    the host, which are skipped with their operands left behind;
  - `invokevirtual` on an object of a class below the one the instruction names, which
    calls the method of the named class (`bytecodeInterpreter.cpp:1173`);
  - an interface method whose implementation is inherited from a class above the
    one that names the interface: the itable does not take it in;
  - widths of values, and a float field of an object, which `push_field` tags as a long.
  A read off an empty stack of frames, undefined in the code, ends the model; no
  checked property depends on what follows.
- Garbage collection under the interpreter and the metaspace. `HeapWord` and `MetaWord`
  read the address of their cell once (`globalDefinitions.hpp:30`), and everything
  built on them keeps that address: there is no property to state of what follows
  a collection that moves the cell, and no code that would update it.
- Class files that do not keep to the format, attributes the parser does not know
  (it does not skip them), the upper words of long and double constants, which
  `get_java_u8` drops (`bytes_x86.hpp:19`); the search for the file
  of a class; the memory `parse_reference_type` relies on to be zero.
  Lookups made only to print something are left out everywhere.
- Opening files, printing, system calls, the memory pool and the heap's delegation to
  its chunk: no state that a property speaks of. The components' notes in
  `PROJECT.json` say so one by one.
- Containers: the end of the metaspace's chunk, where the overrun of a shrinking
  `resize` leaves it, and collections in it, which would move blocks whose
  addresses arrays hold; operations nothing calls (`insert` below `_size`, which
  overwrites an element instead of making room, `set`, the copying operators).
