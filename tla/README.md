# A verification project for Utopia

Utopia is a compiled language: a C++ compiler on LLVM, a C++ runtime for async
code, a prelude and a standard library written in Utopia, a build tool with an
artifact cache and a package manager, a formatter and a language server. This
directory holds TLA+ models of the parts of it whose correctness depends on the
order in which things happen or on algorithms with many cases, the TLC
configurations that check them, and proofs about the runtime, the language server,
the module loader and virtual dispatch.

## 1. The system

| Part | State it keeps | Operations | What is hard |
|---|---|---|---|
| Async runtime (`runtime/utopia_async`) | future states (completed flag, reference count, waiter list), one loop per thread (queue, counters), timer list, loop registry | `future_then`, `_complete`, `_retain/_release`, `delay`, `thread_spawn`, `loop_run`, `loop_run_all`, scheduler thread, timer thread | every thread touches every loop; keep-alive is a scan without a global lock |
| Async lowering (`CodeGen.cpp`, `Intrinsics.cpp`) | coroutine frames, the future of each activation | call, await, return, then/runOnThread thunks, `main` wrapper | a continuation is registered before the frame suspends; references taken and given back in different functions |
| Future class (`Async/Future.utp`) | one pointer to a state | copy, assign, destroy, combinators | aliasing |
| Map, HashMap, SplayTreeMap (`Core/*.utp`) | entry arrays with chains, order list and free list; open addressing with tombstones; a splay tree with parent pointers | put, index, remove, clear, copy, forEach | long sequences of legal calls |
| Smart pointers (`stdlib/memory.utp`) | control blocks with two counts | copy, move, reset, lock, release | deletions that re-enter the release that started them |
| Project builder, artifact cache, driver, linker | output directories, `~/.utopia/cache/artifacts` | build a graph of projects: hash, restore, compile, link, store | stale inputs, shared directories, kills between two steps |
| Language server (`tools/lsp`) | document table, one pending change, four flags, configuration cache | didChange, requests, exit; a worker that debounces and analyses | two threads, one mutex, two condition variables |
| Module loader (`Driver/ModuleLoader.cpp`, the parser's callbacks) | module cache, set of active imports, links | `loadModule`, recursively from the parser and again to link | a module is in the cache before it is linked |
| Preprocessor | stack of conditionals, macros | directives, conditions | nesting, what is evaluated in text that is skipped |
| Lexer, parser | token stream | tokenize, parse | speculation, recovery |
| Semantic analysis | symbol tables, class types, slots of virtual methods, effect sets, conversions | collect, check, analyse control flow and effects, resolve overloads | one tree walk must foresee every path; classes are known as far as they have been visited |
| Code generator | IR, scope and loop stacks, type and function caches, tables and descriptors of classes | one visit per node | cleanups on every exit path; slots shared by name across unrelated hierarchies |
| Formatter | pieces, solutions, queue, cache of solved sub-trees | best-first search for line breaks | pruning and memoizing |
| yip (package manager) | package cache, manifests | get, install, publish | partial downloads, kills, versions |
| List, String, DateTime, Duration, OS, IO | buffers | library calls | growth, aliasing, calendar edges |

How they interact. Generated code calls the runtime through C functions and the
runtime calls generated code through resume functions and thunks. A `Future`
object is a reference to a runtime state that coroutine frames, callbacks,
timers and workers share with it. The build tool runs the compiler driver and
the linker in its own process for every project of the graph and shares the
cache and the output directories with other processes. The language server runs
the front end in its worker thread and answers in its main thread.

## 2. Modules

Every component has a specification module, and `MC` modules give instances for
TLC. `MCLibraries`, `MCToolchain` and `MCFunctions` hold several independent
components side by side: a behaviour follows one of them, and the others keep still.

### Async runtime

* `ResumeOnce` is the promise to whoever waits for a future: a waiter is resumed
  once, and not before the future has completed. Three actions.
* `FutureContinuations` models `utopia_future_then`, `utopia_future_complete`,
  `postContinuation`, `runPending`, the scheduler's takeover, and the
  callback blocks of `then` and `chain`. A block goes from the waiter list to a
  queue to an activation. Each action is one critical section of the code: the
  window between testing the flag and enlisting, between swapping the waiter
  list out and posting its members, and between popping and running, are all
  open to other threads. It implements `ResumeOnce` (`ImplementsPromise`,
  `KeepsPromise`).
* `EventLoops` composes the loops with coroutine frames, the timer thread,
  workers and the drivers that decide whether the process may exit. A driver's
  scan (`hasAnyPendingWork`) is cut into its reads: one queue, then one counter,
  then the other, loop by loop. An `await` is three steps of its thread: the test of
  the future (`FindsPending`), `utopia_future_then` (`Register`) and `coro.suspend`
  (`Suspend`). From its registration a frame belongs to whoever pops it; `leaving` is
  the frame a thread has registered and not yet left. `Resume` asks nothing about
  that, as `runPending` and `schedulerMain` ask nothing. A frame resumed while another
  thread is still leaving it is undefined behaviour; of its outcomes the model has a
  crash of the process (`crashed`, also when the late `Suspend` writes to a frame that
  has been destroyed) and a resumption at any point of the frame's code.
* `FutureLifetime` follows the references: who holds a state, who gives it back
  and when it is deleted, across `Future` objects, frames, temporaries of
  `await`, callback blocks, timers and workers.

The three cover the same code from three sides, each with the data the others
abstract: ordering of one continuation, liveness of the loops, memory.

`FutureContinuationsProofs`, `EventLoopsProofs` and `FutureLifetimeProofs` hold
the proofs about them. `LanguageServerProofs`, `ModuleImportsProofs`,
`SmartPointersProofs`, `OpenAddressingMapProofs` and `VirtualDispatchProofs` are the
same for the language server, the module loader, smart pointers, HashMap and classes.

### Containers

* `InsertionOrderedMap`, `KeyValueMap`: what a map promises.
* `LinkedHashMap` (`Map.utp`), `OpenAddressingMap` (`HashMap.utp`),
  `SplayTreeMap`: the data structures pointer by pointer. Arrays are functions
  of indices, a node is its key. Each implements its abstract map.

### Smart pointers

* `SmartPointers`: `shared_ptr` and `weak_ptr`. A release is a stack of frames:
  deleting an object runs the destructors of the pointers inside it before the
  outer release goes on. What the user's program does inside its objects is the
  parameter `Habits`, so that each dangerous pattern can be looked at alone.
  `MCLibraries` extends it and `OpenAddressingMap`, and has instances of the other
  containers.

### Compiler

* `ModuleImports`: the calls of `loadModule` under way are a stack of frames. A
  frame loads the prelude, then what the parser meets (whose result the parser
  drops), enters the module in the cache, and loads the imports and exports once
  more to link them.
* `Preprocessor`: one action for a line and one for the end of the file, with the
  stack of conditionals, the table of macros, and the recursive-descent evaluator
  of conditions. The reference (`Counts`, `Holds`) reads a source as the nesting of
  its conditionals; `KeptAsNested` compares the lines kept, the macros and the
  complaints. `SourceLines` has the lines sources are made of.
* `Statements` is the syntax of function bodies: blocks, branches, three loops,
  `switch`, jumps, declarations, temporaries, and operands evaluated on one branch
  only.
* `ScopeCleanups` compiles such a body as `CodeGen` does, with the stacks of scopes
  and of loops, into instructions (`construct`, `destroy`, guards, jumps), and then
  runs them, every branch taken either way.
* `FlowAnalysis` is what the compiler believes of the same body:
  `TypeChecker::guaranteesReturn`, the legality of jumps, `ControlFlowAnalyzer`
  (initialized variables, reachability) and the part of `EffectAnalyzer` that
  decides `willreturn` and `nofree`.
* `MCFunctions` composes them: the verdict of the analyses is compared with what
  the emitted instructions do on every path.
* `VirtualDispatch` is the way of a class from the type checker to a call. The visit
  of a declaration (`visit(ClassDeclNode)`) is `EnterClass`, one `CheckMethod` per
  method and `LeaveClass`: the name of a method that overrides, or may be
  overridden, gets a slot, its rank among the names of the whole program, and only the
  end of the visit puts base, flags and fields into the type. `Declared` is what the
  parser and earlier visits have resolved, `Typed` what is in the types; the code
  reads now one, now the other. `CheckBody` checks a function that stands anywhere
  among the classes. `New` writes the table of the object's class, `Call` goes through
  a slot or directly, `Read` takes a field at the offset of the pointer's class, and
  `Test` is `is`, decided by the checker or by the chain of descriptors. The references read
  the declarations: `MostDerived` and `Supertypes`. `MCVirtualDispatch` has the programs.
* `LineSplitting`: the formatter's `Solver::format`, `Solution::expand`, the
  overflow tests of `CodeWriter`, and pieces that split (infix, assignment, list),
  with the cache of solved sub-trees. The reference is the cheapest of all
  assignments of states.

### Tools

* `LanguageServer`: `main`'s read loop and `workerThread`, with the mutex held
  across exactly the code that holds it, wait sets for both condition variables,
  spurious wake-ups and time-outs of the debounce.
* `PackageFetch`: `utopia yip get`, one action per package and stage (index,
  cache, download, extraction), each of which may fail, and the command may be
  killed anywhere; between commands the user edits manifests and others publish
  versions. `Resolutions` is the builder's look-up of the result.
* `ProjectBuild`: `buildProjectRecursive`, `ArtifactCache::restore`/`store`,
  `CompilerDriver::run` and `Linker::link` as steps of a build process that may
  be killed between any two of them. `Habits` selects what users do: dependencies
  without an output directory (`sharedOutput`, the default of build.yaml),
  modules that are imported and not listed (`unlisted`), edits while a build
  runs (`editsWhileBuilding`). Builds run one after the other; two processes building the
  same graph at once take no lock in the code, and nothing in the documentation
  promises that they may, so they are left out.

## 3. Runs

Passing runs:

| Run | Properties | What it shows |
|---|---|---|
| `continuations` | `ExactlyOnePlace`, `NoLostWaiter`, `ImplementsPromise`, `ResultsSettle`, `KeepsPromise` | no interleaving of registrations, completions, posts and pops loses, duplicates or anticipates a continuation; each one of a completed future is run; the runtime implements `ResumeOnce`, its liveness included |
| `loops` | `CountersExact`, `NoOrphan`, `OneTurn`, `WorkerNeverGivesUp`, `OwnWorkSettled`, `ReadyIsResumed` | counters exact, awaiting frames never orphaned, the right to go on with a frame in one place (one stack, one queue or one waiter list), an async worker drives its future to the end, the main thread's own timers and workers settle before the process exits, and what is ready is resumed even when its owner never pumps; all of it also when a continuation runs before its frame has suspended |
| `lifetime` | `CountsExact`, `PendingIsKept`, `Reclaimed` | a count is the number of its holders; a state is deleted at zero and only then; nothing but a worker's future is deleted while pending; completed, dropped states are reclaimed once their callbacks have run |
| `libraries` | `ProbesAreSound`, `CountsAndBlocks`, `ImplementsMap`, `MapAndTreeAreMaps`, `NoRevival` | Map and SplayTreeMap (`MapAndTreeAreMaps`): three intrusive structures over one array agree on which slots are live, through growth, reuse, clear and copy, and implement an insertion-ordered map; every shape of the tree over five keys stays sorted with parents that mirror children, and it implements a map. HashMap: counters are exact, a bucket is always empty, and each search ends at the entry of its key, through tombstones and growth (`ProbesAreSound`), and it implements a map. Smart pointers (`CountsAndBlocks` joins two properties of theirs): counts exact through cascades of deletions, no control block used after it is gone, no revival by `lock` |
| `lsp` | `QuietMeansCurrent`, `AnswersWaitForTheWorker`, `ChangesAreAnalysed`, `RequestsAreAnswered`, `ExitsUnlessAsleep` | the last change is never forgotten; answers wait for the worker; requests terminate; exit can hang in one place only, a wait the worker enters after the last notification |
| `functions` | `DestroyedOnce`, `AcceptedMeansReturns`, `ReportsAreRight`, `WillReturnReturns`, `CallsRunOverrides`, `FieldsKeepTheirPlace`, `IsFindsRelatives`, `SlotsFollowNames` | Functions: on every path of the emitted code each object is destroyed once; a function that passes the check for missing returns never runs into its end; no path reads an uninitialized variable without a warning, and nothing reported unreachable runs; a function marked `willreturn` returns. Classes: a virtual call runs the implementation of the object's class or of the nearest class above it, through whatever pointer and in whatever order the classes stand; fields are where every pointer looks for them; `is` answers what the declarations say; methods of classes that know nothing of each other share a slot exactly when they share a name |
| `toolchain` | `ReturnedAreLinked`, `CyclesAreReported`, `AcceptedIsComplete`, `CheapestFit`, `KeptAsNested`, `SuccessMeansUsable`, `BuildsAreCurrent`, `CacheIsHonest` | Module loader: nobody gets a half-linked module, cycles of imports are reported however they are entered, and accepted graphs are completely linked. Formatter: when the layout returned fits the page, no layout that fits is cheaper, among those where separately formatted pieces are laid out as the search lays them out. Preprocessor: the lines kept, the macros and the complaints are those of the source read as nested conditionals. yip: after a successful `get` the builder finds every package, whole, unless a directory was left unfinished before. Project builder: what a successful build leaves is what a build from nothing leaves, through edits, edits taken back, restores and kills; what the cache stores under a fingerprint was built from what the fingerprint covers |

Each module also has a type invariant, `TypeOK`; it is not among the properties of
the runs, and where there are proofs it is the first theorem.

Violation runs, each a finding in `PROJECT.json` with the line it contradicts:

| Run | Property | What it shows |
|---|---|---|
| `torn_resume` | `SafeFromManyThreads` | an `await` registers its continuation before the frame suspends (`CodeGen.cpp:7331`). `utopia_async.cpp:17-20` says that resuming on the registering loop makes the runtime safe from several threads; when the future completes in between, and the owner has not pumped for 10 ms, the scheduler goes on with a frame that another thread has not left |
| `worker_outlives_future` | `WorkersAreSafe` | `utopia_thread_spawn` takes no reference to the state its worker completes. `Async/Future.utp` says that not awaiting a `runOnThread` future lets the work run on in the background; when the program drops the future, the worker completes a deleted state |
| `hashmap_clear` | `ImplementsMap` | `clear()` leaves tombstone hashes over empty buckets; lookups stop where insertions pass, and an insertion overwrites the entry of another key |
| `build_shared_output` | `BuildsAreCurrent` | two dependencies that do not depend on each other share the main project's output directory; restoring one copies the other's archive of an earlier build over the fresh one before the executable is linked |
| `inherited_implementation` | `CallsRunOverrides` | a class that implements an interface with a method it inherits is accepted (the check walks the bases), but the inherited method has no slot: the table has no entry for it and the call through the interface jumps to null |

### Configurations beside the runs

The `*_documented.cfg` files list properties that the documentation or a comment
promises and the code breaks. Leave one property of a file in at a time, and TLC
prints a short counterexample. They are kept because somebody changing this code
will want to see them, and because they show that the restrictions of the passing
runs (below) are needed. For two modules the configuration of the passing run serves,
with the property put in the place of its own: `FutureLifetime.cfg` for `RetainedUntilRun`, and with
`SelfAssigns = TRUE` for `VariablesAreAlive`; `LanguageServer.cfg` for
`AnswersAreCurrent` and `ConfigIsCurrent`. `EventLoops_documented.cfg`, which runs as
`torn_resume`, serves for the two other properties of `EventLoops` in the same way. In `Functions_documented.cfg` leave one
member of `Families` in at a time or, with the family `classes`, one of `Habits`.

| Configuration, property | Documented | What the code does |
|---|---|---|
| `EventLoops`, `KeepsAlive` | `docs/language/async.md:39`: the loop keeps the program alive until every pending future settles | `hasAnyPendingWork` reads loop by loop, first a queue and then two counters, with no lock across them; work moves behind the scan and the process exits |
| `EventLoops`, `RunsMainToCompletion` | `docs/language/async.md:25`: the driver runs the loop until main's future completes | `utopia_loop_run` returns 0 on the same scan, and the wrapper ignores the result |
| `FutureLifetime`, `RetainedUntilRun` | `utopia_async.cpp:346`: retains the state until the continuation has run | the reference is taken and, for an `await` that suspends, never given back |
| `FutureLifetime`, `VariablesAreAlive` | `Future.utp:19`: every Future holds one reference | `f = f` releases before it retains and leaves a pointer to a deleted state |
| `Libraries`, `BlocksOutliveUse` | `smart-pointers.md:43`: the control block is shared with `weak_ptr` | a child with a weak pointer to its parent gives the parent's block back, as its last user, while the parent's release still works on it |
| `Libraries`, `SourcesOutliveRelease` | `smart-pointers.md:115`: the compiler enforces copy/move correctness | `p = p.next` deletes the object that holds its source |
| `Libraries`, `ReleasedOnce` | `memory.utp:137`: destroyed when the last owner releases it | a reset that is reached again from the deletion it started releases twice |
| `Libraries`, `InsertsReuseTombstones` | `HashMap.utp:24`: removed entries leave tombstones that later inserts reuse | `_insertSlot` notes the first tombstone on its way and drops it for the empty bucket it ends at; there always is one, so a tombstone is never reused, and putting and removing one key over and over doubles the table every few turns |
| `LanguageServer`, `AnswersAreCurrent` | `docs/tooling/lsp.md:19`: documents are synchronized as full text | one slot holds the pending change of all documents; a change of another within the debounce replaces it |
| `LanguageServer`, `ConfigIsCurrent` | `docs/tooling/lsp.md:21`: features match actual compilation | the configuration of a project is read once and kept until the server stops |
| `ProjectBuild`, `BuildsAreCurrent` with `Habits = {"unlisted"}` | `docs/tooling/build-system.md:88`: invalidated when any imported module changes | only the sources of build.yaml are hashed |
| `ProjectBuild`, `CacheIsHonest` with `Habits = {"editsWhileBuilding"}` | `ArtifactCache.hpp:17-20`: the fingerprint covers everything that influences the output | sources are hashed before they are compiled; a file saved in between is stored under the fingerprint of its former content |
| `Functions`, `DestroyedOnce`, one family at a time | `CodeGen.cpp:2821-2822`: cleanups run only for the branch that executed | `ternary`: `emitScopeCleanups` does not pass on the guards that `emitLoopCleanups` and the return path pass on, so at the natural end of a block the copies of both branches of a conditional of objects are destroyed, although only one was made; the other families: a temporary on the right of `&&` or in a loop's condition has its cleanup in the enclosing scope, which runs it once whatever happened; variables of a `switch` case are not destroyed at the switch's end; `return Guard(...)` without a move constructor drops its cleanup |
| `Functions`, `AcceptedMeansReturns`, `ReportsAreRight` | the errors and warnings themselves (`TypeChecker.cpp:4074`, `ControlFlowAnalyzer.cpp`) | `guaranteesReturn` does not see a `break` out of a case that also returns; the analyzer takes a `switch` all of whose cases break for one that does not go on, and a `continue` for one that skips the increment of a `for` |
| `Functions`, `CallsRunOverrides` with `implementsByInheritance`, `interfacesFollow`, `leavesAbstract`, `overloads` or `extendsWhatFollows` | `docs/language/oop.md:75-90`: virtual methods are overridden, calls resolve through the vptr | an inherited implementation gets no slot, nor does the implementation of a method that stands in an interface above the one a class names when both follow the class; a class that inherits an abstract method and does not implement it can be made; overloads of a virtual method share one slot; a class visited before its base is not known to have the base's table and gets none |
| `Functions`, `FieldsKeepTheirPlace` with `addsATable` or `interfacesWithFields` | `oop.md:9`: the derived class inherits fields, methods | a class that is the first of its chain with a table puts the pointer to it before the fields it inherits; fields of an interface have no place in the class that implements it |
| `Functions`, `IsFindsRelatives` with `usesWhatFollows` or `interfacesExtended` | `docs/language/operators.md:60`: true when the dynamic type is `Type` or a subtype | a test checked before the class was visited is decided by the base it does not know yet; the descriptor of a class leaves out what its interfaces extend |
| `Functions`, `CirclesAreReported` with `circular` | `TypeChecker.cpp:1077` reports circular inheritance | the walk for it follows the types; of two classes that extend each other the first visited walks the declarations for ever before |
| `Functions`, `NoFreeIsHonest` | `docs/advanced/llvm-codegen.md:39`: attributes are inferred from effects | implicit destructor calls are not among the effects |
| `Toolchain`, `FitsIfItCan` | `Solver.hpp:7-8`: finds the best set of line splits that minimizes overflow characters and costs | the search goes on from the cheapest solution and stops at its first that fits or at 50 attempts (`MaxAttempts`); a piece whose parts were solved alone can hide a layout that fits |
| `Toolchain`, `RetryRepairs` | `docs/tooling/package-manager.md`: `get` fetches the dependencies | a directory of the package's name is taken for a cached package, also one that a killed or failed extraction left |

Smaller observations made on the way, which no property states: `defined(X)`, as
`docs/language/preprocessor.md:14-16` writes it, reads as an undefined identifier
followed by text; `#define FOO 1` defines a macro named `FOO 1`; the dependencies of
a package that was fetched are not fetched (`package-manager.md:8` says they are);
of conflicting versions the one met last is taken; `latest` resolves to any cached
directory; a `return` destroys the outer scopes before the inner ones.

### Restrictions of the passing runs

A known defect would break every other property after it and hide what they say
about the rest of the code, so these models have a parameter that switches such a
behaviour on, and the passing runs leave it off:

* `SelfAssigns = FALSE` (`lifetime`): no `f = f`.
  Apart from that, `FutureLifetime` takes an `await`'s registration and suspension as one
  step; what other threads do between the two is in `EventLoops`.
* `ClearsTombstones = FALSE` (`libraries`): `clear()` of a HashMap is called only on
  a table without tombstones.
* `Habits = {}` (`libraries`): objects hold no weak pointers, an assignment that
  deletes an object does not take its source out of an object (`p = p.next`), and a
  pointer inside an object is set once.
* `Habits = {"sharedOutput"}` (`toolchain`, for the builder): output directories are
  shared, as build.yaml has them by default, on a graph where the projects depend on one another;
  `build_shared_output` has the graph where two of them do not. Nobody edits while a
  build runs, and build.yaml lists every module.
* `Families = {"objects", "values", "classes"}`, `HasMoveConstructor = TRUE` (`functions`): the
  statement forms of the table above stand in no program, `?:` of objects only in
  blocks that a jump ends; cases that declare objects are blocks; no `break` leaves
  a switch, and no `continue` a loop whose increment uses the variable, in the
  programs about the variable.
* `Habits = {}` (`functions`, for classes): no program does what the table above names
  (`Avoids` in `MCVirtualDispatch` states each). `IsFindsRelatives` leaves out tests
  for a concrete class that is neither above nor below the pointer's, which the
  checker decides without looking (`operators.md` says so; `IsAgreesWithTheClasses`
  would include them).
* `SuccessMeansUsable` excepts directories that an earlier command left unfinished.

### Bounds

* Continuations: three blocks, two futures, a worker thread and the scheduler. Two
  blocks suffice for a list with order, three for one between two others; two
  futures for a chain. All threads but the scheduler run the same code, and a
  block is resumed by one thread.
* Event loops: main and two other activations, one timer, one worker: three loops
  with the scheduler's, so work can move both ahead of and behind a scan; a frame that
  is popped before it has suspended can call, await and finish on the other thread
  meanwhile. `torn_resume` needs two activations and a timer.
* Lifetime: three states (a caller, its callee, and a callback's result or a
  worker's), two variables for aliasing.
* Map: three keys that share one chain in tables of two and of four buckets; at the
  third entry the table doubles to eight and one of them leaves the chain. Two
  values.
* HashMap: three keys whose home is the last of four buckets, which growth parts, and
  one that lives where their probes wrap around; two values. Insertions and removals in
  turn grow the table for ever, so a run stops at eight buckets (`MaxSize`); the proofs
  have no such bound. The violation needs a table full of entries and tombstones, and
  five keys. Splay tree: all shapes over five keys, two values.
* Smart pointers: three objects for cycles and chains, two shared variables, one
  weak one.
* Language server: two documents with two changes each (one being analysed and
  one that overtakes it), one change of build.yaml.
* Build: a diamond of three projects, two contents of a file (an edit and its
  undoing), the user edits the program and the common dependency (`Edited`).
* Functions: a jump under a branch in a loop or a switch in another statement,
  with objects before it at each level and after it in the loop: every kind of scope
  is left by every kind of jump. A loop body is entered again with the state it left.
* Classes: two interfaces, one of which may extend the promise of the other, a class
  and one that extends it, each with or without two methods of every kind, declared
  interfaces first or mixed: a method can come from four places, and each pair of
  them can meet in one slot. Pairs of classes for overloads, orders and cycles.
* Module loader: every graph of a prelude and three modules with up to two imports
  or exports each: chains, diamonds, cycles of one to three, entered from inside or
  outside, through the prelude, and files that do not exist. Two entry files.
* Preprocessor: sources of up to five lines, so three levels of nesting and chains
  of `#elif`; every operator of conditions, alone in conditions of three operands.
* Formatter: trees of up to eleven pieces on a page of 12 columns: each pair of
  nested kinds, texts of five widths that fit, fill or overflow it. The same trees
  given to the compiled solver yield the model's answer (655 of 655).
* yip: three projects that reach one another in a circle, two packages with two
  versions, two commands: a second command finds what the first left.

`CHECK_DEADLOCK FALSE` stands only where the system really stops: the process
has exited, the function has returned, the source has ended, or every bounded input
has been used.

### Fairness

* Threads in a bounded stretch of runtime code go on (enlist, post, return,
  suspend): nothing there blocks except mutexes held for a bounded time.
* The scheduler thread and the timer thread are daemons with time-outs, so they
  always run again. An owner of a loop is *not* fair: the program may block for
  ever in its own code, which is what the scheduler exists for. Once an `await` has
  found its future pending there is no more user code on the way to its suspension,
  so that much is fair of every thread.
* A worker runs its function to the end only if the function does; the model's
  workers return.
* Language server: both threads are fair, the client is not; a spurious wake-up
  is possible and never assumed.
* Functions: a step that can be taken is taken; which way a branch goes is free, so
  a loop whose condition may be false need not end, and `willReturn` must not be
  claimed for it.

## 4. Proofs

### Continuations

`FutureContinuationsProofs` proves for any set of futures, blocks and threads,
from `SchedulerAssumption` (the scheduler is a thread) and two assumptions that
the null values are no members:

* `TypeCorrect`, `BlocksNeverShared`, `NoWaiterLost`, `NoEarlyResume`:
  `Spec => []P`. The first three are invariants of `continuations`; the fourth,
  that a continuation runs only after its future has completed, is stated by
  `ResumedAfterCompletion`;
* `NoSecondRun`: `Spec => RunAtMostOnce`;
* `Implementation`: `Spec => ImplementsPromise`, that the runtime implements
  `ResumeOnce`.

The argument. That a block is in at most one place is not inductive: one must
know that lists do not repeat a member, that a block enlisted or in flight
carries the future it waits for, that a block in a queue or activation waits for
a *completed* future, and that a completed future has an empty waiter list from
the moment its list is swapped out, except for the members the completing thread
still holds. `IInv` is the conjunction of these with the typing. There is one
lemma per action (`EnlistIInv`, `CompleteIInv`, ...), resting on lemmas about what
push, append and pop do to the set of members of a sequence. The refinement
reads the abstract state off `IInv`: a block is awaiting in a list, ready in a
post or queue, resumed after its pop; every action maps to `Await`, `Complete`,
`Resume` or a stutter.

### Event loops

`EventLoopsProofs` proves for any frames, any finite
sets of timers and workers (`FiniteAssumption`) and names that do not coincide
(`NamesAssumption`):

* `LoopsTypeCorrect`, `CountersAreExact`, `WorkersReturnValues`,
  `OwnWorkSettles`, `OneTurnEach`, `NoFrameOrphaned`: `Spec => []P` for `TypeOK`,
  `CountersExact`, `WorkerNeverGivesUp`, `OwnWorkSettled`, `OneTurn` and `NoOrphan`.

None of them needs a frame to have suspended before it is resumed. That two threads
are never *inside* one frame is stronger than `OneTurn`, and false: `torn_resume`.

The counters are exact because a timer stands in `timers` or `firing`, and a worker
has a `pc`, from the step that adds one to the step that subtracts it, and
`ownerLoop` does not change in between (`Inventory`).

The two properties of a scan are harder, for a scan reads one counter at a time
while everybody else moves. `Scans` follows it. A worker that drives its own
function counts in the loop it was spawned from, which is registered, so its
scan always still has that counter ahead of it (`Ahead`) and cannot end: it must
find it above zero. For the main thread's last scan either the read of main's
counter is ahead, or everything it stood for has settled; and it stays settled,
since a thread that scans executes no frame and therefore starts nothing
(`Places`). What another loop's work does meanwhile is not covered, and rightly:
`KeepsAlive` in `EventLoops_documented.cfg` shows that the exit may lose it.

The proofs about frames rest on `Placed`: a frame is on one stack, once, exactly
while it runs; one that awaits is the waiter of one pending future or is in the queue
of the loop it registered on; and a future that an await has found pending was made by
the frame on top of that thread's stack (`Tested`), so that no second frame enlists on
it. A thread that is leaving a frame has no place in `Placed`: what it still writes is
not the right to go on, which the registration has handed over. One lemma
per kind of move: push (`PushPlaces`), leaving a stack (`LeavesStack`), register,
complete and post (`CompletionPlaces`), resume (`ResumePlaced`). That a frame has one
position, not only one list, follows because stacks and queues do not repeat a
member (`OnePosition`, `NoPosition`).

### Future lifetimes

`FutureLifetimeProofs` proves for any finite sets of states and of variables
(`FiniteAssumption`; a heap and a stack are finite), if no Future is assigned to itself:

* `LifetimeTypeCorrect`, `CountsAreExact`, `PendingStatesAreKept`:
  `~SelfAssigns => (Spec => []P)` for `TypeOK`, `CountsExact` and `PendingIsKept`;
* `NoVariableDangles`: the same for `VariablesAreAlive`, that no variable points at a
  deleted state. With `SelfAssigns = TRUE` it is false (section 3): `f = f` gives
  its only reference back before it takes one.

The argument. `refs[s]` is a sum over holders of six kinds (variables, temporaries,
frames on either side of a call, blocks on either side). `Counted` states the sum;
it is inductive because every step of the code changes one holder and the count of the
states involved together, and one lemma says what pointing a holder elsewhere does to
each cardinality (`Moves`, `Rekeyed`). `FreedAtZero` says that the deleted states are
exactly those that were made and count zero, so no holder can point at one.
`Lives` adds what the sum leaves open: who is to complete a pending state (a timer, a
worker, a frame, a callback block), that there is exactly one (`OneMaker`), and where a
block stands (`BlocksPlaced`). Neither a timer nor a worker takes a reference to its
state; a timer's is held by the coroutine that awaits it, a worker's by nobody,
which is what `PendingIsKept` says of the two.

### Smart pointers

`SmartPointersProofs` proves for any finite sets of blocks and of variables
(`FiniteAssumption`, and `NamesAssumption`: a variable is no field), under `Orderly`, the
condition that no object holds a weak pointer and no field that holds a pointer is
assigned or reset:

* `PointersTypeCorrect`, `PointersAreCounted`: `Orderly => (Spec => []P)` for
  `TypeOK` and `CountsAndBlocks`;
* `NothingRevives`: `Orderly => (Spec => NoRevival)`.

`Libraries_documented.cfg` shows that the condition is needed: with `weakInside` or
`resetInside` `CountsAndBlocks` is false. The third habit, `assignFromOwned`, changes
nothing that is proved; it breaks `SourcesOutliveRelease`.

The argument. Deletions nest as deep as there are objects, and while they do, a count is
not the number of pointers one could see. The fields of a deleted object still count,
until their release; a pointer whose own release waits for the deletion it started
(`Leaving`) counts no more, although it still refers to the block. `Counted` says so,
and `Freed` that a block whose deletion is under way (`Dying`) is not deleted yet,
whatever its counts. What makes this inductive is where the calls come from: what is
released is a field of an object that is being deleted, each field once, unless it is
what the program's operation began with (`ReleaseInv`, `Nested`); an assignment waits
below everything else, and when it is reached nothing is being released and its target
is empty (`AdoptInv`, `AdoptionEnds`). One lemma per action; those that move a pointer
rest on what one changed cell does to the cardinality of the owners and watchers of
each block (`OwnersMoved`, `WatchersMoved`, `OwnersAdopted`, `WatchersAdopted`).
`NoRevival` follows from two states alone: an object exists exactly while its count is
not zero (`Existing`), and only what has never been made begins to exist.

### HashMap

`OpenAddressingMapProofs` proves for every set of keys and of values, every hash
function and every size of the first table (`HashAssumption`: hashes are numbers;
`SizeAssumption`: at least four buckets; `BucketAssumption`: the marks of empty buckets
and tombstones are no keys), if no map with tombstones is cleared:

* `ProbesStaySound`: `~ClearsTombstones => (TableSpec => []ProbesAreSound)`;
* `HashMapIsAMap`: `~ClearsTombstones => (TableSpec => ImplementsMap)`, the refinement
  of `KeyValueMap`.

`hashmap_clear` shows that the condition is needed.

The argument. `Sound` is the invariant: every entry can be reached from its home
without meeting an empty bucket (`Placed`), a key stands in one bucket (`Once`), the
counters are the numbers of entries and of tombstones (`Counted`), and their sum is less
than the size, so that every search meets an empty bucket. The last part is what makes
the fallback of `_insertSlot`, which overwrites the home of a key when no bucket is
free, unreachable. In a sound table a search finds exactly what is there
(`FindIsExact`), an insertion fills the first empty bucket on the probe of its key, so
nothing on the way to it can be empty (`AddKeepsPlaced`), and a removal leaves a
tombstone, which no probe stops at. Growth inserts the entries one by one into an empty table, by a recursion over
the old buckets. Its invariant is that the new table is sound and holds what the
buckets passed so far held; the induction is on the number of the bucket. Each
operation then says what the table holds after it (`Holds`), and the entries are read
off that: put changes one key, remove drops one, growth none.

### Language server

`LanguageServerProofs` proves `ServerTypeCorrect`, `NoChangeForgotten` and
`AnswersWait` for any documents and any bounds (`BoundsAssumption`). The last
change moves from the slot to the worker's job to the documents; that it is in the
documents when nothing is owed follows only if one knows where it is the rest of
the time (`ChangeIsSomewhere`), and that `isProcessing` and `hasPendingChange` say
what the worker does (`FlagsTellTheTruth`).

### Module loader

`ModuleImportsProofs` proves `LoaderTypeCorrect` and `NoHalfLinkedModule` (that is,
`ReturnedAreLinked`) for any modules, any import graph and any entry files, from
`ModulesAssumption`: the prelude and the entry files exist and the names of what is
missing are no modules.

The argument. A module is in the cache and not linked exactly while its own call is
in its last two phases (`CachedWhenPast`). A call that waits for another is in one
of the first two and waits for exactly that module (`Waiting`), so the module in
question belongs to the innermost call, and only that call's own loads could
receive it. Those loads are of directives the parser noted, each of which has been
loaded, is being loaded, does not exist, or names the module itself, which has been
reported then (`NotedAreSettled`). `IInv` joins these with the typing, with
`activeImports` being the modules of the calls (`ActiveAreCalled`) and one call per
module (`OnePerModule`).

The same module proves `CyclesAreFound` and `AcceptedIsLinked`, that is
`CyclesAreReported` and `AcceptedIsComplete`, for any graph. A circle is stated as a
set of modules each of which needs another of the set, which a finite graph has
exactly when it has a cycle, so that no induction on paths is needed. `GraphInv` joins:

* a module that has finished needs only modules that have finished, unless a circular
  import has been reported (`FinishedIsClosed`). It follows call by call: what a call
  has read so far has been loaded (`CallInv`), for a load ends with a finished
  module, a module on the stack, which is reported, or an error;
* therefore no set of finished modules is a circle (`FinishedNoCycle`). When the
  last of a set finishes, what it needs had finished before, so the set without it
  would have been a circle already;
* a circle that has been reported exists (`CycleIsThere`): the modules of the stack from the one
  that was met again to the top each need the next one (`ActiveIsOnCycle`);
* a finished module's lists name each module once, in the order of its text
  (`FinishedIsLinked`), for linking appends what it has not yet listed, directive by
  directive.

### Classes

`VirtualDispatchProofs` proves for every set of programs that are well formed (a
program declares each of its classes, and names of methods can be compared):

* `CheckerTypeCorrect`: `Spec => []TypeOK`;
* `SharedSlotsAreSharedNames`: `Spec => []SlotsFollowNames`, that at every moment of
  the checking, whatever the order of the declarations, two methods have one slot
  exactly when they have one name;
* `ObjectsAreLaidOut`: when a program has made an object, every class has a layout.

and for every set of programs in which classes follow those they extend, none is
above itself, no class brings the first table of its chain below a base without one,
and interfaces have no base of their own (`Layered`, `BasesComeFirst`, `ExtendsTabled`,
`PlainInterfaces`: the restrictions of section 3, which every program of `functions`
keeps but the one whose class extends itself):

* `FieldsStayInPlace`: `Spec => []FieldsKeepTheirPlace`, if interfaces have no fields
  (`BareInterfaces`);
* `RelativesAreFound`: `Spec => []IsFindsRelatives`, if interfaces have methods
  (`InterfacesTabled`) and the body comes after the classes;
* `OverridesAreRun`: `Spec => []CallsRunOverrides`, if besides methods of one name have one
  signature, none twice in a class (`OneSignature`), interfaces only promise methods
  (`PromisesOnly`), each interface is known when it is looked through (`KnownInTime`),
  what is inherited as abstract is implemented below (`LeavesNoneAbstract`), and a
  class that names an interface has itself each promised method that a class above it has
  (`ImplementsItself`). The defects of section 3 are what these leave out: each violates
  the property when its habit is added to the run. That a class implements what
  the interfaces it names promise is no condition: it is proved of the checker.

The first two need that a slot is the rank of a name among the names entered
(`Slots`), that the rank is injective on a finite set of numbers
(`RankIsInjective`), and that the slots given before are renumbered together when
a name is entered. The third needs `Visits`: at every moment the visited classes
are those that stand before the one under visit, and a program is accepted only at
the end of its declarations.

The others are about walks over the classes, which are recursive functions: that
the walks exist, and that each gives what it gives above a class and then the class
(`ClassInduction`), is by induction over the heights that `Layered` gives. A layout is
that of the base with fields of the class behind (`LaidOut`), so that of every class above
is a prefix of it, and a pointer goes up either through bases, where the place is the same,
or through an interface, which has no fields. For `is`, the descriptors that the
chain of bases links together name exactly the classes the walk of the declarations meets,
since a base that is left out has no table and so no interface above it, and a class
without a table has one line of classes above it, through which no test goes at run time.

For calls the visit comes first. At every moment the methods that have a slot
may be overridden, and of those visited so far every one that may be has a slot
(`StampedAreVirtual`, `VirtualsAreStamped`): a method finds the one it overrides above its class, since
every interface there is known by then (`OverriddenIs`). A class that is accepted and not
abstract has an implementation of what its interfaces promise (`PromisesKept`). When an
object exists, the classes it extends that declare the name called have a nearest
one (`NearestExists`), and its method is not abstract (`NearestIsConcrete`), so it has a
slot. The table is filled by a walk through everything above the class; what the walk
meets last under the slot is that method: the interfaces after the base hold only what
the class has itself. What a call by name would choose, the first method of the line
that is not abstract, is the same (`CallFinds`).

### Induction over data

The library's induction theorems take an operator as a parameter, which the provers
cannot instantiate, and so what a recursive function computes for all inputs seems out
of reach. It is not, as long as the induction is over a set: a number that is the least of those that
break the claim exists if any does (`LeastExists`, from the theorem that the natural
numbers are well founded), and a set that holds zero and with each number the next one
holds all of them (`Induction`). That a recursive function exists, which TLA+ does not
give for free, is proved in the same way, from functions that satisfy the equation on ever more of
their domain. The model of classes selects from sequences by first and last index, and not
with SelectSeq, for which the library has no facts.

### Only model-checked

`ProjectBuild`, `PackageFetch`, `LinkedHashMap`, `SplayTreeMap`, the statements of
functions and all liveness, `Reclaimed` of `FutureLifetime` among it. Liveness under
fairness and ENABLED are beyond the prover. The two containers need invariants about
paths, which have not been attempted; `ProjectBuild`, `Preprocessor`,
`LineSplitting`, `FlowAnalysis`, `ScopeCleanups` and `PackageFetch` follow trees with
RECURSIVE operators, which the prover does not accept.

## 5. What is not modelled, and the plan

What could come next, by how much it adds: proofs about `LinkedHashMap` and
`SplayTreeMap`; `unique_ptr` in `SmartPointers`;
effects propagated through calls and the fixpoint over vtables; overload
resolution; the parser's speculation and synchronisation; `List`, `String` and the
calendar of `DateTime`.

Left out for good: instruction selection and optimisation (LLVM), the grammar
and character classes, the typing rules of each kind of expression, message texts,
the answers of the language server, the vendored JSON library (a third of the
repository's C++), wrappers of the C library, `BuildCache` (compiled, never used),
examples and scripts. Most of the C++ is of that kind: one case per syntactic form
and no state that outlives it.
