# Verification of the clx runtime

clx compiles Lua 5.5 ahead of time to C++ and links the result with a runtime
of its own: a generational garbage collector, tables with inline caches,
coroutines on machine contexts, the Lua library, a C API, and a bridge to a
stock Lua VM for `load`. This directory holds TLA+ models of the runtime, the TLC runs that check them and the proofs TLAPS checks. Paths below are
relative to the repository.

## 1. Inventory

| part | where | state it keeps | operations | what is hard about it |
|---|---|---|---|---|
| garbage collector | `src/runtime/gc.cpp`, `state.cpp`, barriers in `include/clx_runtime.h`, `include/clx.h` | two allocation chains, free lists, `gc_remembered`, `gc_remembered_cells`, `gc_pinned`, `gc_recent`, `gc_finalizable`, ages and marks in `LHeader` | allocate, barrier, minor, full collection, drain of finalizers, mode switch | finalizers run Lua in the middle of a collection; what a minor may skip depends on everything that happened since the object grew old |
| coroutines | `threads.cpp`, `coroutine.cpp`, part of `luaapi.cpp` | `LThread` (status, caller, arguments, flags, stashed frames), `running_thread`, `top_root` | create, resume, wrap, yield, end, close | who returns to whom; a request set on a coroutine that acts on it at some later resume |
| tables | `tables.cpp`, `table.cpp`, `clx.h` (`next`, `rawlen`) | array part, length hint, hash part with tombstones, counters, inline cache | get, set, rawset, length, next, library functions | entries move between the parts; deleted keys keep slots; cached slots outlive their key |
| calls, errors, base library | `calls.cpp`, `base.cpp`, `values.cpp`, `state.cpp` | root frames, `current_func`, close guards, the exception on its way | call, pcall, xpcall, error, `tostring`, ... | unwinding through frames while `__close` and handlers run, and fail |
| numbers | `clx_runtime.h`, `math.cpp`, `values.cpp` | none | arithmetic, conversion, comparison | wrapping, rounding, int/float comparison |
| strings | `strings.cpp`, `utf8.cpp` | interning pool, builder buffers | intern, concat, format, pack, patterns | bounds, backtracking |
| io and os | `io.cpp`, `os.cpp` | file handles, sixteen batches of output | open, write, flush, close, ... | batches in front of libc's buffers, addresses that libc reuses |
| modules | `package.cpp`, `openlibs.cpp` | `package.loaded`, preload, `L->_G` while a loader runs | require, searchers | cycles, failures, nested environments |
| Lua C API | `luaapi.cpp` | per-call stacks, references | `lua_*`, `luaL_*` | index arithmetic, continuations |
| VM bridge | `src/runtime/vm/` | proxies in two heaps | load, convert, call across | identity and lifetime over two collectors |
| function arenas | `clx_runtime.h` | `FuncArena` | tables of one call | escape |
| lexer, parser | `src/syntax/` | token stream, scopes | parse | attributes, goto |
| optimizer | `src/optimizer/` | inferred types, ownership | passes to a fixpoint | soundness of inference |
| code generator | `src/codegen/` | emitted text, temporaries | emit | rooting, evaluation order |
| driver | `src/clx.cpp` | files | build | processes and files |

How they interact. Compiled code keeps its values in **root frames**
(`FrameBase`), linked from `LState::top_root`; a coroutine switch stashes the
chain in the `LThread` that leaves and loads that of the one that comes. Any
allocation calls `gc_maybe_collect`, and a collection marks from the globals and
from the loaded chain; every store into an older object goes through a
**barrier** that fills the remembered set a minor starts from. A collection ends
by draining `gc_finalizable`, which calls `__gc`, Lua code that allocates, stores
and so calls back into all of the above. Tables are recycled by
`create_table` with their hash block and their inline cache. There are no
threads and no persistence; the runtime is sequential, and its interleavings
are those of coroutines, of the collector with the program, of finalizers with
a collection, and of a traversal with updates. Errors are C++ exceptions: on
their way out they run the destructors of the root frames, which unlink
themselves, and of the **close guards**, which call Lua. Three things should
eventually happen: garbage is reclaimed, an error is delivered, a loop ends;
section 3 says under which fairness the last two do, and that the first does not. A probe or a traversal that never
ends is caught as a safety violation instead.

What makes each core part correct:
 - collector: nothing the program can reach is freed; garbage is taken back; a finalizer finds what it needs;
 - coroutines: control is a stack; the loaded frames belong to who runs; `resume` returns for a coroutine that gave control back, and says the truth about errors;
 - collector with coroutines: what a coroutine's frames hold is not freed while it runs, waits or is suspended;
 - tables: a map, for the table library too; one place per key; `#t` a border; a traversal visits every field once; reads agree with the contents whatever is cached;
 - calls: what was opened is closed once, in reverse order; an error is neither lost nor replaced, and is delivered;
 - output: what reaches a file is what was written to it, in order, all of it by the time it is closed;
 - modules: one value per module; the global table is the one of the loader that runs;
 - strings: one copy per string between loads of modules; probes end; pattern matching finds the preferred match, the leftmost first, and substitutions tile the text;
 - numbers and loops: what the manual defines, at the width the code has.

## 2. The modules

| module | models | role |
|---|---|---|
| `Reachability` | the mark worklists | least closed set, as an operator |
| `IdealHeap` | what a collector promises | abstract specification |
| `GC` | collector, allocation, barriers, finalizers | detailed specification |
| `GCProps` | | its properties, inductive invariant, refinement of `IdealHeap` |
| `GCProofs` | | theorems about `GC` |
| `CallStack` | what coroutines promise | abstract specification |
| `Coroutine` | `threads.cpp`, `coroutine.cpp`, `lua_resume`, `lua_closethread` | detailed specification |
| `CoroutineProps`, `CoroutineProofs` | | properties, refinement of `CallStack`; theorems |
| `CoroutineRoots`, `CoroutineRootsProps` | `Coroutine` composed with the thread branches of the collector | composition, its properties; theorems in the second part of `CoroutineProofs` |
| `Dictionary` | what a table promises | abstract specification |
| `Table` | one table: array, hash, cache, `next`, length, recycling | detailed specification |
| `TableLib`, `TableProps`, `TableProofs` | `table.insert`, `remove`, `move`, the length of lists | the library over `Table`; its properties, refinement of `Dictionary`; theorems |
| `Calls`, `CallsProofs` | calls, errors, pcall, xpcall, `<close>` | state machine with its properties; theorems |
| `Files`, `LibraryProofs` | the batches of output of `io.cpp` | state machine with its properties; theorems |
| `Require`, `LibraryProofs` | `require`, loaders and their environments | state machine with its properties; theorems |
| `StringPool`, `StringPoolProofs` | the interning pool, the strings of compiled modules | state machine with its properties; theorems |
| `Loops`, `NumbersProofs` | what numeric loops are compiled to, over `Numbers` | state machine with its properties; theorem |
| `Numbers`, `NumbersProps`, `NumbersProofs` | integer and mixed arithmetic | functions; what the manual says of them; theorems |
| `Patterns`, `PatternsProps`, `PatternsProofs` | patterns, `find`, `gmatch`, `gsub`, positions | functions; a reference that does not search; theorems |
| `Question` | | one state per question put to a function |
| `MCGC`, `MCCoroutine`, `MCCoroutineRoots`, `MCTable`, `MCValues`, `MCRuntime` | | instances for TLC |

**GC.** An object is a table or a closure. `where` is the chain or list it is
on; `age`, `fields`, `meta`, `caps`, `cell` are its contents; `rem`, `remCell`,
`pinned`, `recent` are the collector's lists; `stack` is what the root frames
hold. `Store`, `Erase`, `SetMeta`, `UpvalStore`, `Push`, `Pop`, `CreateTable`,
`CreateClosure` and `SetMode` are what compiled code does; a closure
leads to its captures and to the globals, its environment (`Env`; that of a loader, or one set with
`lua_setfenv`, is left out). `Minor` and `Major` are
`gc_minor` and `collect_garbage_full` with its `gc_step` loop, one step each
because nothing runs between mark and sweep; `RunFinalizer`, `EndFinalizer` and
`FreeWithoutFinalizer` are the drain, with everything a finalizer does between
the first two: `Keep` leaves something only the finalizer holds to the program, its argument, what
its closure captured, or what either leads to. Abstracted: byte counts (a collection may start whenever the code
lets one start), the order of the chains (a child promoted in the same sweep as
its owner may or may not be seen as old: `PerhapsRemembered`), the order in
which the protect pass meets metatables (`PassedOver`), which free object is
taken. The constants `ProgOps` and `FinOps` say what kinds of things the program
and its finalizers do, so a run or theorem can name the programs it is about.

**Coroutine.** `at` is where a coroutine will go on after the switch that
stopped it. `Enter` and `Leave` are the two switches (`resume` and the end of
`fiber_entry_impl`/`yield`); frames are represented by the coroutine that owns
them, so that `loaded = running` is the claim that the right ones are loaded. A
message is its number of values. `Create` also recycles. `Resumable` says which
coroutines the program resumes: the library itself refuses dead ones only.

**CoroutineRoots** adds the values held in frames (`held`), on the way
(`sent`, `gave`), the heap, ages, the remembered threads and the mark of the
main thread, to the very actions of `Coroutine`. `CollectsOn` and `Resumers`
name the threads in which collections start and which resume. Coroutines are
assumed reachable from the globals until they are recycled.

**Table.** `tab` is `LTable` with its `LTableExt`; `small` says the array is
the one embedded in the table, which recycling keeps. `Settable` is
`LTable::settable` with its branches `WriteArray`, `Grow`, `Delete`, `Roomy` and
`Insert`; `Set` is `table_set`, which looks the key up first and so fills the
cache; `Get` is `table_get`; `Length` heals the hint; `NextKey` is `next` with
the cursor the caller passes; `Recycle` is collection followed by
`create_table`. `wrote` is a history variable: the write a step was asked for, by which the
refinement of `Dictionary` holds a step to the field and the value it names, so a store that is
lost or lands on another field is no step of a dictionary. No step reads it, so the runs count states
without it (`VIEW` in the configurations; the steps, and with them `MapSpec`, are checked with it). A program that assigns a new field gives its traversal up, as
Lua requires; whether it assigns to existing ones is the constant `Updates`.
Integer keys stand for integers and integral floats (the code repeats the array
branch for floats, and `Lua`, `Home`, `Cut` and `Payload` say what a key is to the
code); `FirstCap` and `MinHash` are the code's 8, scaled down so that growth and
rebuilding happen with four keys. `hash_version` is modelled by its effect: a rebuild
or recycling empties the cache. Left out: metamethods, `table_op_direct`,
`presize_hash`, tables of function arenas.

**TableLib** adds the library's operations on lists to the same `tab`, each one
action, with the fast paths that move memory when the list lies in the array
part and the element-by-element path otherwise. `ListLen` is the library's own
length (`get_array_len`), which doubles and bisects into the hash. `sort` and
`concat` are left out. To the abstract `Dictionary` an operation is one step,
which does to the contents what `wrote` says.

**Calls.** A frame says who called it, the variables it has to close and how it
is being left (running, a block ends, a return, error number n). `CloseNext`
is `~CloseGuard`, the same for all ways out, and pushes the frame of `__close`;
`Thrown` is one step of the unwinder out of a frame without open variables,
with the catch clauses of `pcall_function`, `lua_xpcall` (which calls its handler
after it has unwound) and `~CloseGuard` (which prints). Values and messages are
left out, so errors are numbers.

**Files.** `slots` is `out_bufs`; `sent` is the sequence of `fwrite`s, one number per
byte. libc's own buffers are taken to keep order and to be written by `fclose`
and at exit. Streams are the addresses libc hands out, so that a file opened
later gets the slot of one that was closed, if that was not dropped. stdout is no such address:
when the program closes it (`io.close(io.stdout)`), `print` and `io.write` go on writing to the closed `FILE`, which
is the stream `Nowhere`. Its bytes are lost, and compete for slots as before.

**Require.** `running` is the stack of calls of `pack_require` that run a loader, with
the `saved_G` of each. Searchers other than preload find nothing in a compiled
program. **StringPool** follows `intern`, `rehash`, and the code that
`emit_module` writes: slots computed for an empty pool, filled in whatever is
there, each time the module is loaded. `given` and `base` are history: the copies that `intern`
returned, and how many there were at the last load. **Loops** has the three kinds of numeric loop that `emitForStatement`
emits; undefined casts are choices over what hardware does, undefined
overflow wraps. With an integer counter a limit that is an integer literal is taken as it is; any other is
made a double by `std::ceil` or `std::floor`, integers too, and cast back (`CounterLimits`). A start that is
a sum or a difference of a literal and a number casts the number (`StartCounterSum`, `Cuts`). `cast`
remembers what was cast, and `Exact`, the precondition of the properties, asks that a double holds it.

**Numbers** has integers of `Bits` bits and floats of `Mant` bits, in
units of one half so that fractions exist; NaN and infinities are values.
**Patterns** takes a pattern as the sequence of its items, so the scanner of the
pattern text is abstracted to the item it finds; captures, positions and all
paths of `match` are there. `Match` gives, for each position in the pattern, what
`match` returns from any state; the code's recursion into the rest of the pattern
is the argument `rest` of `StartCapture`, `EndCapture`, `FirstMatch` and `MatchItem`.
`WellFormed` says what patterns `match` is asked about: parentheses pair, `$` is last, and of
the back references there is `%1`, to a first capture that is closed. The code raises
an error for unpaired parentheses, for 32 captures and for a recursion 200 deep,
which is left out. `Find` may search in each way `str_find_aux` has for such a pattern (`SearchedBy`): the items
do not tell `string.find` from `string.match`, nor an escaped character from a plain one, so a pattern of
literals is searched as plain text or scanned, and `%s*()` may take its shortcut. The plain argument
makes literals of all characters. A first item that is an escaped character counts as a literal for the skip to
the first byte, where the code would try each start. The reference that `MatchPreferred` compares with shares
`MatchBalance` and `ToClose` with the model, so those two are read, not checked.

## 3. The runs

| run | instance | checks | distinct states |
|---|---|---|---|
| `gc_heap` | globals, a table that may be a metatable, a closure, one cell; finalizers that store; generational | `IInv`, `NoLiveFreed`, `MajorReclaims`, `IdealSpec` | 76 thousand |
| `gc_finalizers` | a table with a metatable and its closure, already built; both modes; a finalizer that stores, allocates and leaves what it holds to the program | `FinalizerCallable` | 61 thousand |
| `gc_chain` | a table whose metatable is a table with a metatable that holds a closure | `FinalizerCallable`: violated | |
| `gc_leak` | globals and two tables, one of them usable as metatable; fair | `Reclaimed`: violated | |
| `co_threads` | four threads, both ways to close | `IInv`, `ResumeWaits`, `StackSpec` | 1.3 million |
| `roots_main` | three threads, one value, collections on the main thread | `RootsIInv`, `ResumeTruth` | 1.3 million |
| `roots_waiting` | the same with collections in a coroutine | `HeldNotFreed`: violated | |
| `table_ints` | integers 1 to 3, the array growing from one element, with the table library | `HintSound`, `OnePlace`, `LengthIsBorder`, `MapSpec` | 19 thousand |
| `table_strings` | three strings, two of them colliding, and 1; all cleared and stored raw | `HashAccounted`, `ReadsAgree`, `WalkGoesOn`, `MapSpec` | 41 thousand |
| `table_lost` | a key stored again behind a tombstone | `ReadsAgree`: violated | |
| `values` | one state per question to a function of `Numbers` or `Patterns` | `DivisionExact`, `ShiftsExact`, `OrderTotal`, `RoundingExact`, `ForLimitExact`, `DecimalsExact`; `MatchPreferred`, `FindLeftmost`, `GsubTiles`, `RangeInside` | 119 thousand |
| `runtime` | five machines, of which a behaviour runs one | `Calls`: `ClosedInReverse`, `ErrorsKept`, `ErrorsDelivered`; `Files`: `BytesInOrder`, `NothingLost`; `Loops`: `VisitsProgression`, `LoopEnds`; `Require`: `EnvOfInnermost`, `OneInstance`; `StringPool`: `PoolProbeEnds`, `OneCopyMade` | 313 thousand |

Fairness, and why the code justifies it:
 - `FairSpec` (GC): a program that goes on starts a full collection again and again (`collectgarbage()`, or the budget that `gc_minor` compares the old generation with), and a full collection ends. Nothing is assumed of the program's other steps, nor that any object is dropped. `Reclaimed` does not hold under it (`gc_leak`, section 5); what a full collection does take back is the action property `MajorReclaims`.
 - `Calls`: the C++ unwinder does not stop half-way, and functions that a bounded program calls return or raise in the end. Without the second a `__close` that never returns would keep an error for ever, as it does in the code.
 - `Loops`: the body ends and the loop goes on; whether it reaches its end is then up to the counter.

The bounds, and why they are enough to meet the cases:
 - Three objects and a cell in `gc_heap` let a table, a closure and the globals take every combination of ages, point at each other in cycles, share a captured variable and be recycled; `MaxFields`, `MaxStack` keep one child per table and one value in the frames. For more objects, fields and values the theorems take over.
 - The warm start of `gc_finalizers` (`WarmInit`) is a state a program reaches in a dozen steps and up to two minors.
 - Four threads give a chain of callers of length four and a fourth coroutine being created, closed and recycled beside it; in `roots_main` three threads and one value are enough for a value to be held by one coroutine, sent to a second and received by a third.
 - In the tables four keys reach load three quarters of a hash of four slots, so that it is rebuilt at its size and at twice its size; `FirstCap` 1 (2 for strings) makes the array part grow over keys that sit in the hash. Values are symmetric: two are enough to tell a stale one.
 - `co_threads` resumes suspended coroutines only, and `table_*` passing runs do not assign while they traverse (`Updates`), because the code does not keep its promises otherwise (section 5).
 - In `values` integers have five bits, so that all boundaries (the least integer, the width, the first integer a float cannot hold) are met by all pairs; patterns are all sequences of up to three of fifteen items on texts of up to three characters, and five longer ones on texts of four. A match of more items decomposes into steps that are all taken.
 - In `runtime` four frames, three calls, two variables and two errors let an error meet a `__close` that fails, in a function under `pcall` and `xpcall`; two slots and four streams (stdout, where its output goes once it is closed, and two files) run out of slots, two bytes and writes of up to three fill, flush and bypass a batch; loops of five-bit integers, of which a float holds three significant bits, meet every boundary of both, so that a limit or an addend that is an integer is rounded by a cast through a double; three loads of two modules under three environments nest, fail and repeat; five strings and two modules grow a pool of four to sixteen, with modules loaded before, between and after, the same one twice if the program likes.

Each property of a passing run comes with a mutant, a definition marked
*Mutant* that a plausible bug would put in the place of the real one, under
which TLC finds that property violated.

## 4. What is proved

All theorems are about the specifications the runs check, for every value of the
constants that the named assumptions of the modules allow: any sets of objects,
threads, keys, streams, names, any capacities and bounds. The assumptions say what
a constant is (a bound is a natural number, `Main` is a thread, `next` casts
a key that is an index to that index) and TLC evaluates them in every run.
Hypotheses that restrict the **program** are part of the theorem and named there.
Every inductive invariant was checked by TLC on an instance before it was proved.

| module | theorem | property | programs it is about |
|---|---|---|---|
| `GCProofs` | `TypeCorrect` | `TypeOK` | all |
| | `IInvHolds`, `NothingLiveFreed`, `ImplementsIdealHeap` | `IInv`, `NoLiveFreed`, `IdealSpec` | `TameFinalizers` |
| | `FullCollectionReclaims` | `MajorReclaims` | all |
| | `FinalizersStayCallable` | `FinalizerCallable` | `TameFinalizers`, `[]FlatMetas` |
| `CoroutineProofs` | `ChainHolds`, `ResumeReturnsInTurn` | `IInv`, `ResumeWaits` | `Disciplined` |
| | `ResumeReportsErrors` | `ResumeTruth` | `Disciplined`, `ByCApi` |
| | `ImplementsStack` | `StackSpec` | `Disciplined`, finitely many threads |
| `CoroutineProofs` | `RootsHold`, `CoroutinesKeepValues` | `RootsIInv`, `HeldNotFreed` | `Disciplined`, `CollectsOnMain` |
| | `RootsResumeReportsErrors` | `ResumeTruth` of the composition | these and `ByCApi` |
| `CallsProofs` | `NoErrorLost`, `EachClosedInReverse` | `ErrorsKept`, `ClosedInReverse` | all |
| `LibraryProofs` | `OrderKept`, `AllDelivered` | `BytesInOrder`, `NothingLost` | all |
| | `EnvironmentRestored`, `LoadedOnceOnly` | `EnvOfInnermost`, `OneInstance` | all |
| `StringPoolProofs` | `ProbesEnd`, `OneCopyMadeEach` | `PoolProbeEnds`, `OneCopyMade` | all |
| `TableProofs` | `TabIInvHolds`, `HintNeverHigh`, `CountersAgree` | `HintSound`, `HashAccounted` | all |
| | `TraversalGoesOn` | `WalkGoesOn` | those that only clear fields while they traverse (`~Updates`) |
| | `ReadsAreTrue`, `FieldsAreOnce`, `LengthsAreBorders` | `ReadsAgree`, `OnePlace`, `LengthIsBorder` | `KeysTell`, `[]NoTombstones` |
| | `ImplementsDictionary` | `MapSpec` | `KeysTell`, `CutTells`, `~Updates`, `[]NoTombstones` |
| `NumbersProofs` | `DivisionIsExact`, `ShiftsAreExact`, `OrderIsTotal`, `RoundingIsExact`, `ForLimitIsExact`, `DecimalsAreExact` | `DivisionExact`, `ShiftsExact`, `OrderTotal`, `RoundingExact`, `ForLimitExact`, `DecimalsExact` | all operands of any width |
| | `VisitsAreTheProgression` | `VisitsProgression` | all loops; the property is about those that are `Exact` |
| `PatternsProofs` | `MatchFindsPreferred`, `FindIsLeftmost`, `GsubTilesTheText` | `MatchPreferred`, `FindLeftmost`, `GsubTiles` | all texts and all well-formed patterns of any length |
| | `RangesAreInside` | `RangeInside` | all positions and lengths |

None of the hypotheses is a convenience: without each of them the code breaks
the property, by a run or by constants that section 5 gives.

 - `TameFinalizers`: finalizers neither allocate nor leave what only they hold to the program. `FlatMetas`: no metatable has a metatable (`gc_chain`).
 - `Disciplined`: the program resumes suspended coroutines, which is all `lua_resume` accepts. `ByCApi`: coroutines are closed with `lua_closethread`; `coroutine.close` leaves a request behind.
 - `CollectsOnMain`: collections start on the main thread (`roots_waiting`).
 - `KeysTell`: keys that Lua takes for one have one hash, which 100 and 100.0 have not, and keys that share a payload are one to Lua, which `true` and 1 are not. It also says that the positive integers among the keys are those of the model, `1..MaxIndex`, a bound that the theorems leave open.
 - `CutTells`: a key that `next` casts to an index is that index; 1.5 is not 1, and a traversal over `{10, 20, [1.5] = "x"}` never ends. `~Updates`: the program only clears fields while it traverses; an assignment may rebuild the hash under the traversal.
 - `NoTombstones`: no slot of the hash is a tombstone, so no field ever moved from the hash to the array part. After such a move the code loses fields (`table_lost`). The theorems with this hypothesis are about `Spec`, the table without the table library: the loops of the library go through tables that are never the state, of which `[]NoTombstones` says nothing.

The arguments:

 - **`GCProofs`.** `Live \cap Pool = {}` is not inductive, as it says nothing of what a minor will skip. `RememberedComplete` says it: an old reachable object with a non-old child is remembered, or the child is, or the cell between them. `AgedBeforeMajor` makes the promotion in a full collection safe although it scans survivors only: the minor that precedes it has left no reachable object young. `pinned = {}` is where `TameFinalizers` is needed. The lemmas go from the closure operator (`ClosureSeeds`, `ClosureClosed`, `ClosureLeast`) over one lemma per mutator action to `MinorMarksLive`: a minor started from an invariant state marks every reachable non-old object. `FullCollectionReclaims` needs types only: what the marking pass of a full collection reaches is bounded from above by `ClosureLeast`. `FinalizersInv` adds the objects that are dead but wait for their finalizer, with what they need (`FinalizerHeld`, `FinalizerRemembered`): a dead table keeps its metatable and the closures in it from one collection to the next, old or not.
 - **`CoroutineProofs`.** `CallersChained` describes the stack of callers by its links, and `FramesFollow`, `WaitsOver` and `Positions` follow with it. That alone allows active coroutines that wait for each other in a ring. `InLine` excludes them: there is a sequence from the main thread to the one that runs whose links are the callers. Every step keeps it, pushes to it or pops from it, and since the refinement mapping of `StackSpec` walks the callers, which the sequence determines, each step maps to a step of `CallStack` or a stutter. `FlagsClear` gives `ResumeTruth`: a close is requested only of a coroutine that is about to see it, and the error flag of one that was resumed is clear until it dies.
 - **`CoroutineProofs`**, of roots: on the main thread every other coroutine is suspended when a collection starts, so an old one with a value that is not old was remembered when it yielded (`SuspendedRemembered`). What is on its way between two coroutines is an invariant too (`SentNotFreed`). The proof reuses `ChainHolds`'s step lemma, since each action extends one of `Coroutine`.
 - **`CallsProofs`.** `OnTheWay`: a frame is on its way out below another only while a guard of its own runs, and each error that was not caught is in one frame. `Closing`: open variables rise from frame to frame, each variable was opened or closed, not both, and when one was closed all declared later had been closed before it.
 - **`LibraryProofs`**, of files: `Good`: no two slots batch for one stream, so `SlotOf` names the only batch; `Direct`: what is unbuffered has an empty batch; `SlotsOpen`: a slot belongs to an open file, or a new file at its address would get it. Each helper of `io.cpp` has a lemma that says what it does to `Out`, what was sent followed by what is pending. Of modules: `EnvChained`: each loader saved the environment of the one that started it, so popping any number of them restores the right one. `LoadedOnce`: of a name only `require` stores under, at most one loader runs, and nothing was returned while it does.
 - **`StringPoolProofs`.** `count` is never behind the slots taken; growing at half load therefore leaves a slot empty, also after a module was put over others. Between two loads each text has at most one copy that `intern` made since the last of them, and its probe comes to it (`RecentReached`); copies that a module put where no probe looks may be there too. A rehash keeps that: the loop over the slots is a recursive function, and the lemma `MovesKeepCopies` shows by induction that after n slots every copy of the first n is in the new ones, and found.
 - **`TableProofs`.** `TabOK` says of a table: the array part is nil above the keys and not nil below the hint (`ArrayOK`); the slots and cached positions are inside the hash (`HashOK`); `count` is exact and `count + tombs`, never less than the slots that are not empty, is below three quarters (`CountersOK`); no empty slot lies between the home of a key and its slot (`PathsOK`). That `tombs` only bounds is essential: inserting over a tombstone does not lower it. Each branch of `settable` has a lemma; rebuilding, the loops of the table library and the lookups of a length are recursive functions, treated by induction over the set of table values that satisfy `TabOK`. With `CursorOK`, the field a traversal stands at is in the array part or its key is in a slot; by `PathsOK` and a free slot the probe finds it. The theorems are about `LibSpec`, the table with its library, and so about `Spec` too (`SpecInLib`).
   Without tombstones a table also satisfies `KeyedOK`: no key is in two slots, none in the hash that the array part covers, and a cached position holds the key it was cached for. An insertion then stops at the slot a lookup finds. `RebuiltIs` says what rebuilding does, as an induction over the slots copied: the entries of the new hash are those of the old that are live (`Copies`), and no two are of one key. The lengths search by doubling and bisecting, which does not count down by one: `RankedRecursion` solves such a recursion for any rank that falls at each call, and `Bracketed` and `Border` are what the two searches keep.
   `ImplementsDictionary` rests on two facts. `SettableUpdates`: a store gives the field it names the value it was given and changes no other, by one lemma per branch (array, growth, deletion, insertion) and `SameContent` for the rebuilding between. `SeenAt`: the keys a traversal has seen are exactly those at or before the place it stands at, in the order of the array part and then of the slots (`VisitedUpTo`). It survives the stores a traversal may make, as those move no key (`EraseStands`): clearing a field that grows the array part would move it out of the hash and leave a tombstone. So `next` goes on to an unseen field, or has seen all.
 - **`NumbersProofs`.** The provers know nothing of `^`. That a power of two is a positive natural number and doubles from one exponent to the next is taken from the size of the set of all subsets, which the library's theorems on cardinality give; everything else about words follows from `WrapIs` (the wrapped value is the one representative in range). Truncated division is a quotient of absolute values, so the correction by one that makes it floored stays in range. `RoundIs`, `RoundStops` and `RoundMonotone` describe the conversion to a double; since it is monotone and exact for doubles, comparisons between mixed numbers agree. `LimitFits` and `ForLimitIs` clip the limit of a loop; `HalfEndsInNoZero` (a power of two does not end in 0) is what the digit test of `ReadDecimal` rests on. `VisitsAreTheProgression` uses an invariant per kind of counter (`CountingInts`, `CountingFloats`) that the visits so far are start, start and step and so on, and that the counter is the next of them.
 - **`PatternsProofs`.** The invariant is about a way to match rather than a state: `WayInv` says of the state behind p items how many captures are open and closed, and that those that are closed lie inside the text, so that the captures `match` indexes exist and `States` is closed under every item (`WayHolds`). `Finds` says of a suffix of the pattern that from any such state `match` finds the end of the preferred way to go on, or leaves the captures it was given; it is shown item by item from the end of the pattern (`FindsAll`), with `MatchIsBest` for the whole of it. An item without a suffix leads `match` to the state it leads the reference to, and puts the captures back when the rest fails (`ItemAgrees`); for one with a suffix the attempts are in the order of preference (`TriedIs`), and as each failed one left the captures as they were, the first that succeeds decides (`FirstMatchIs`). `FindIsLeftmost` treats each search as a function that looks at a start and goes on (`SearchFinds`): the skip to the first byte passes over starts where a literal cannot match, and a pattern without specials is its text (`LiteralsMatch`). For `gsub` a task is what is left to do (replacements, position, last match); `Ready` says that no match lies between the last one and the position, `Rewritten` that the pieces from there on tile the rest and stand for what `gmatch` returns next. Induction is on the rank of a task (`RankedInduction`), which falls with the number left where a match is empty and with the text left elsewhere.

Recursion: the models use recursive functions and no recursive operators. The
library's induction theorems cannot be instantiated by the installed provers, so the
proof modules have set-wise forms of their own (`UpTo`: a set that contains 0 and is closed under
successor below N contains `0..N`; `RecursionSolved`: the function that `CHOOSE`
picks satisfies its equation; `RankedRecursion`: so does one whose calls go to
any argument of smaller rank).

Only model-checked:

 - `MapSpec` for the steps of the table library (`TableInsert`, `TableRemove`, `TableMove`), and `ReadsAgree`, `OnePlace` and `LengthIsBorder` after them: their theorems are about `Spec`;
 - liveness (`ErrorsDelivered`, `LoopEnds`), which is out of the prover's reach.

## 5. Disagreements found

With a run:
 - `gc_leak`: a dead table that is its own metatable (`setmetatable(m, m)`), or a metatable that holds one of its instances, is never reclaimed, nor is anything it leads to: every full collection marks the metatables of dead tables before it sweeps (`gc.cpp:1077`). Compiled programs that drop such tables grow without bound.
 - `gc_chain`: the protect pass of a full collection passes over a table that is already marked as another one's metatable, and follows no metatables (`gc.cpp:1077-1085`). If `a` has the metatable `d`, which has the metatable `m` with `__gc`, and all are garbage, `d` survives as the metatable of `a` while `m` and its closure are swept; the next collection finds `d` dead and looks for `__gc` in a freed table.
 - `roots_waiting`: `main_thread` keeps its mark from the first collection, so later collections that start in a coroutine do not trace the frames of the main thread.
 - `table_lost`: the probe of an insertion stops at a tombstone before the key it looks for (`tables.cpp:459`); `t[k]` then reads nil after it was assigned.

With other constants of the same modules:
 - a dead table's children are freed before its finalizer is given the table (`gc.cpp:568` protects the metatable only): `FinalizerArgIntact` under `Shape` "child";
 - `rawset` of a key whose dead slot lies behind a tombstone inserts the key a second time (the probe of `table_lost`): `OnePlace` with the keys 1, 2 and a string that `RawKeys` holds;
 - `t[true]` reads `t[1]`, `t[false]` reads `t[0]` once cached: `ReadsAgree` with the key `true` next to 1;
 - an assignment to an existing field at the load limit rebuilds the hash under the traversal: `MapSpec` with `Updates`;
 - a finalizer that stores its argument, or something only its argument or its captures lead to, has it freed under it (`NoLiveFreed` with `FinOps` "keep"); objects a finalizer allocates in a drain may be made old unscanned by the full collection that follows (`FinOps` "alloc" with `full`), which is why the theorems assume `TameFinalizers`; a full collection does not protect what a finalizer captured;
 - `coroutine.resume` accepts a normal coroutine (`Resumable` "normal");
 - `coroutine.close` leaves a coroutine that catches the closing error, or that never ran, alive, and `ResumeTruth` fails after it (`Closers` "lib");
 - the first resume passes eight values at most (`EntryArgs`);
 - a coroutine that grew old and resumes another is not remembered (`Resumers` beyond main with `CollectsOn` beyond main);
 - a module puts its strings over whatever is in the pool and does not look for copies (`bulk_fill_precomputed`, `clx_runtime.h:1247`), so interns of one text before and after its load return different copies: `OneCopyMade` with 0 in the place of `pool.base`. `doc/internals/runtime.md:231` promises one shared copy; programs do not notice, as equality falls back to the contents;
 - numeric loops (`VisitsProgression` and `LoopEnds` without `Exact`): a counter that wraps past the greatest integer never ends (`loops.cpp:419`); a limit that is no literal goes through a double, so that with an integer counter 2^53 + 1 loses its last visit, and `math.maxinteger` becomes 2^63, whose cast is undefined: on x86 it gives the least integer, so a loop from 1 up to it runs no body, and `for i = 5, n, -1` with that limit runs down without end (`loops.cpp:144`); `for i = 1 + x, n` cuts x to an integer first; a double counter beyond 2^53 stops growing.

The following were reproduced on compiled programs and concern what is left out of the models:
 - 100 and 100.0 are two fields when the array part covers neither (`lvalue_hash`); `next` cuts 1.5 to 1, and a traversal over `{10, 20, [1.5] = "x"}` never ends; `==` between an integer and a float rounds and so is not transitive; `5 % math.huge` is NaN; `table.sort` without a comparison makes floats of integers (`table.cpp:199`); `table.unpack` stops at `#t`;
 - `pcall` turns error values that are not strings into strings; `<close>` acts on tables only, its handler is never given the error, and an error in it is printed and dropped; the handler of `xpcall` runs after the stack is unwound; an error value is held by the C++ exception alone (`values.cpp:32`), where a collection does not see it;
 - `current_func` is not restored by an exception (`calls.cpp:34`), and a generic `for` calls its iterator without setting it (`loops.cpp:672`), so functions may read another function's `_ENV`; a generic `for` over an expression list such as `next, t` evaluates the first expression only (`loops.cpp:637`); lookups of library functions are hoisted out of loops that change them;
 - more than sixteen values from an argument list of unknown length overrun `_dyn_buf` (`expressions.cpp:721`); `overflow_heap` is reallocated while results of running calls point into it (`clx_runtime.h:1674`); tables of a function arena outlive the call in several ways (`tables.cpp:172`, `assignments.cpp:1894`, `statements.cpp:1078`);
 - `gsub` reads the text of a number that the replacement returned (`strings.cpp:1179`); the size of `string.rep` wraps;
 - the iterator of `file:lines` holds an unrooted pointer (`io.cpp:318`); `io.popen` does not flush batches; a `setvbuf` with all slots taken is forgotten; `io.write` after the default output was closed loses its data, or, when that was `io.close()`, writes to a null `FILE`;
 - `require` stores `true` over what a loader put into `package.loaded` itself when the loader returns nothing; a loader that yields leaves its environment to whoever runs next;
 - `collectgarbage("step", n)` adds n to `allocated_bytes` for good.

## 6. Not modelled, and the plan

`PROJECT.json` lists every component with its status. Done: the collector,
coroutines and both together; tables with their library; calls and errors; numbers;
patterns and the string pool; output; modules; numeric loops.

What is left, in the order of what it would add:
 1. theorems: the table library as steps of `Dictionary`, with a hypothesis on the tables its loops go through;
 2. the memory of calls: results in `overflow_heap`, function arenas; both need the optimizer's analysis of who holds a table, and are known to go wrong without bound on the programs;
 3. metamethods, `_ENV` and argument passing in `Calls`; generic `for`;
 4. the C API: frames, index arithmetic, references, continuations;
 5. the bridge to the VM: proxies in two heaps;
 6. the compiler: precedence of operators, evaluation order of assignments, the fixpoint of the type passes.

Left out for good: vendored Lua, examples (which are most of the repository's
lines), benchmarks, the website, the driver's process handling, formatting and
parsing of text beyond what a property needs, floating-point arithmetic beyond
comparison and rounding, and the pacing of collections by byte counts.
