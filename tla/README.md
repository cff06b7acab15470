# Verification of Phoenix: models, model checking, proofs

This directory holds TLA+ models of parts of the Phoenix runtime, compiler back ends and tools, TLC
configurations that check them on small instances, and TLAPS proofs about most of them. Paths below
are relative to `src/`; `runtime` is short for `crates/phoenix-runtime/src`, `wasm` for
`crates/phoenix-cranelift/src/wasm`, `lsp` for `crates/phoenix-lsp/src` and `driver` for
`crates/phoenix-driver/src`; `translate/` is `crates/phoenix-cranelift/src/translate`.

## 1. The system

Phoenix is a statically typed language. A program goes through lexer, parser, checker and IR, and is
then either interpreted (two interpreters) or compiled by Cranelift to native code or to one of two
WebAssembly targets. Compiled programs link a runtime (collector, strings, lists, maps). Around the
compiler stand a driver with a package manager, a language server, and generators for API clients.

| Component | State | Operations | Interacts with |
|---|---|---|---|
| Tracing collector (`runtime/gc`) | heap registry, mark bits, byte counts, mode; shadow stack per thread; frame counters; pins | alloc, collect, enable/disable, threshold, shutdown; push/pop frame, set root; pin/unpin | called by all compiled code and by the JS glue |
| Root discipline of compiled code (`translate/gc_roots.rs`, `wasm/gc_root.rs`, and the methods both back ends inline) | registers, root slots of the frames a function pushed | seed parameters, root a value when it is defined, root a method's intermediates, pop on exit | decides what the collector sees |
| JS callback glue (`wasm/js_glue.rs`, `wasm/glue.rs`) | table of wrappers, tokens, handle table, strings under construction | retain, release, finalize, invoke, convert arguments and results | collector (pins, string allocation), JS engine (WeakRef, finalizers), host code |
| Hash maps (`runtime/map_methods.rs`) | bucket array with tombstones, order array | literal, get, contains, set, remove, keys, values | allocate in the collector |
| Builders (`runtime/*_builder_methods.rs`) | handle, buffer, length, capacity, frozen flag | alloc, set/push, grow, freeze | collector; results are lists and maps |
| Lists and strings of the runtime | none: immutable values | copying operations | collector |
| wasm32-gc back end (`wasm/wasm_gc`) | none at run time but its maps: two arrays and a hash index | as above, on objects of the engine | the engine's collector |
| IR interpreter, AST interpreter | environments; a map is a vector of pairs | evaluation | reference for the compiled code |
| Language server (`crates/phoenix-lsp`) | open documents under a mutex | open, change, close, analyse (snapshot, compute, apply) | editor, checker |
| Package manager (`driver/deps`, `driver/pkg_cli.rs`) | manifest, lockfile, checkouts with completion markers | resolve, lock, fetch, add | file system, git, module resolver |
| Module resolver (`crates/phoenix-modules`) | set of discovered modules | discover, with cycles and several packages | parser, driver, language server |
| Lexer, parser, checker, IR lowering and verifier, API generators, shared definitions, benchmarks, driver | none that outlives a call | functions from text to trees to text | each other, in a pipeline |

**What is hard.** A tracing collector is right only together with its callers: an object that lives
in a register across an allocation, a frame that is left behind, a mark bit that survives, show up
many steps later. With threads, a collection by one of them must not miss roots of another. At the JS
boundary three memory managers meet (shadow stack, pins, the engine's own collector) and two of them
act at times nobody chooses. A hash table with tombstones goes wrong only after a long sequence of
legal calls, and there are two hash tables that must iterate alike. The language server's handlers
interleave wherever one awaits; the package manager can fail or die at any step, while the
repositories it reads go on. `PROJECT.json` lists each hazard at its line, with the properties
that would catch it, or the reason that none does yet.

**What makes each component correct.** Collector: nothing reachable from a root is freed, garbage is
freed, the accounts are exact, collections end. Callbacks: a callback the host retains stays callable,
a dropped one is released in the end, no call loses its arguments. Compiled code: whatever a function
goes on using is in a slot of a pushed frame before anything can allocate, and frames are popped in
order. Maps: the compiled map answers as
the interpreters' ordered map does, in the same order. Builders: no element is lost or seen half
written, and a frozen builder is not used. Language server: its documents are those of the editor, and
what the user sees was computed from the current texts. Package manager: the resolved graph serves
every requirement, at versions that a requirement asked for, resolving against the lockfile
reproduces it, a partial checkout is never used, and a failed command changes nothing.

## 2. Modules

| Module | Models | Its runs |
|---|---|---|
| `PhoenixGC` | `runtime/gc`: heap, shadow stacks, pins, and the discipline of the code that uses them | `gc_*` through `MCPhoenixGC` |
| `PhoenixGCProofs` | proofs about `PhoenixGC` | TLAPS |
| `CompiledRoots` | what the code of both back ends roots, and when: functions, calls, and the inlined methods that call closures | `roots_compiled` through `MCCompiledRoots` |
| `RootDiscipline` | a check of the emitted methods, and the invariant of those that pass it | evaluated in `roots_compiled` |
| `CompiledRootsProofs` | proofs about `CompiledRoots` | TLAPS |
| `MutableVariables` | `CompiledRoots` with the mutable variables of a function | `roots_variables` through `MCMutableVariables` |
| `JsCallbacks` | closures handed to a JS host on wasm32-linear | `js_*` through `MCJsCallbacks` |
| `JsCallbacksProofs` | proofs about `JsCallbacks` | TLAPS |
| `OrderedMap` | map and map builder of the IR interpreter, the abstract specification of both back ends | in `map_table` |
| `PhoenixMap` | the hash table of the native runtime | in `map_table` |
| `MapBuilder` | the map builder of the native runtime, on the collected heap | in `map_table` |
| `WasmGcMap` | map and map builder of the wasm32-gc back end | in `map_table` |
| `MapBackends` | one program on both back ends: composes the three modules above | `map_table` through `MCMapBackends` |
| `PhoenixMapProofs` | lemmas about each operation of the native table | TLAPS |
| `MapBackendsProofs` | proofs about the maps and builders of both back ends | TLAPS |
| `ModuleResolver` | what the module resolver says of the texts of a project | in `ls_editing` |
| `LanguageServer` | the language server and the editor | `ls_editing` through `MCLanguageServer` |
| `LanguageServerProofs` | proofs about `LanguageServer` | TLAPS |
| `DependencyGraph` | unification of the packages that a walk has found, and the lockfile of the result | in `pm_commands` |
| `PackageManager` | builds and adds of a project, its files and its cache | `pm_commands` through `MCPackageManager` |
| `PackageManagerProofs` | proofs about the two | TLAPS |
| `SequenceLemmas` | lemmas about numbers, sequences and recursive functions that several proofs use | TLAPS |

### PhoenixGC

`heap` is the registry of live objects (`MarkSweepHeap::headers` with the headers and payloads);
`marked` the mark bits; `frames[t]` the shadow stack of thread `t`, the two counters beside it the
process-wide and the thread's own frame counts; `PINNED` the multiset of pins. A collection is five
kinds of steps (`Gate`, the two root loops, `Trace` once per object of the work list, `Sweep`), during
which the collecting thread holds the heap mutex (`gcThread`) and the others go on with everything
that does not need it. `AllocAfterCollection` is the rest of an allocation that started a collection.
A conservative scan reads every word of a payload; `StoreBits` writes integers that look like
addresses.

The driver is compiled code. `reg[t]` is a value it holds in a register; it may take it from a slot, a
field or an allocation, put it into a slot or a field, or pin it. An allocation replaces it, because
that is the discipline of the code generator: a value is rooted before the next allocation. `refs`, the
history of which words are references, and `leftover` and `livePins`, the frames and pins from before
a shutdown and since, are used by properties and to keep the driver from using what is gone; `pinsRead`,
the copy of the pins that the mark phase takes, is only used by properties.

Abstractions: payload contents are words that are null or an address; sizes come from a small set;
`push_frame` and `pop_frame` are one step
each. The list (`TOP`) and the thread's own counter are thread-local, so the change of the global
counter is the one part of a push or pop that another thread can see, and it is seen at one moment. What
can go wrong there is a path that changes one counter without the other, which `FrameCountsExact`
excludes. The counter's accesses are `Relaxed`, but a thread that holds a reference got it under the heap
mutex after it pushed its frame, so the collecting thread sees that push. Two tags, one
scanned and one not, stand for all; out of memory and every misuse that the runtime detects end in
`Abort`. `other_threads_hold_frames` is read once per collection, as in the code.

### CompiledRoots and MutableVariables

`PhoenixGC` lets its driver root every value before the next allocation; `CompiledRoots` looks at
whether the code generators emit that. `stack` has the functions under way, each with its IR values
(`value`), its frame and, while it runs an inlined method, that method's registers: back-end values that
no `ValueId` names and no slot of the function's frame belongs to. `frames` is the shadow stack, `heap`
the objects with the references they hold. A function runs any IR instruction next (`Construct`,
`GetField`, `BlockParam`, `StartMethod`, `Return`), which covers every control flow, loops that define a
value again included; `Defines` writes the value's slot as `maybe_set_root` does.

A method is the sequence of operations its translator emits, one definition per translator
(`NativeListMap`, `WasmListMap`, ...; one for both back ends where they emit the same), run one operation per step: allocations, stores, calls of
closures, frames pushed and popped, slots written, jumps. Only the operations that touch references
remain. Element counts and their order are abstracted, so a loop runs for any element any number of
times; a list, an option or a result is an object with the set of references it holds. A closure that is
called is a function like any other: it may allocate, call methods itself, keep or return anything it
can reach.

The collector is what `PhoenixGC` establishes (`SweepExact`): an allocation may collect first, and a
collection frees what no slot reaches. `MayDefer = FALSE` collects at every allocation. That is the
schedule most likely to free what is in use, and with it the freed addresses come back at once;
deferring a collection only keeps more alive, and an object nobody refers to any more has no effect on
what a step may do. `None` stands for null and for static data. Every function has a frame; one without
values that are references pushes none in the code, and its frame here would hold nothing. The frame of
a function is popped before its value is returned, and the caller writes its slot with no allocation in
between, which is one step here (`Return`), followed by the method's next operation.

`MutableVariables` adds what `let mut` becomes: `contents` is what the variables of each function hold.
The lowering gives the `Op::Alloca` the type i64 (`crates/phoenix-ir/src/lower_stmt.rs:469`), so the
variable has no slot in either back end.

### JsCallbacks

The collector appears here at the level of what `PhoenixGC` establishes (`SweepExact`): a collection
frees what is unreachable from frames and pins. An allocation may find a collection due
(`AfterAutoCollect`). `stack` is the stack of Phoenix activations, `shadow` the shadow stack, which is
longer than the stack once an exception has skipped a `pop_frame`. `callbacks` and `wrappers` are the
glue's table and the JS callables it made, `armed` the ones registered with the FinalizationRegistry,
`kept` those the engine keeps alive until the end of the job because a WeakRef was made or read. The
engine (with or without WeakRef and FinalizationRegistry, `engine`) collects a wrapper nothing refers
to, and runs a finalizer only between jobs, when no Phoenix code is on the stack (`Idle`).

Assumptions about the outside: the host invokes only wrappers it has not released (the glue
does not check it: calling `release()` gives the pin up, so a later call is the host's mistake); memory that `phx_gc_shutdown` has freed reads as it was last written; main has
a frame of its own. After an abort nothing runs any more.

### The maps

`OrderedMap` is the vector of pairs of `crates/phoenix-ir-interp`, with its builder: a vector of pairs
that are bound in order when it is frozen.

`PhoenixMap` keeps tags, pairs and the order array; `Probe`, `Rehash`, `BucketsFor` are the helpers of
the same names, `SetRaw` and `RemoveRaw` the operations. `Entries` reads the order array as
`phx_map_keys` does and is the refinement mapping. `placeholder` is the state of an empty literal
whose types were not resolved yet. Key comparison is identity of model values. That is
what the code does with floats too: all back ends compare float keys bit by bit
(`crates/phoenix-ir-interp/src/value.rs:317-334`, `runtime/map_methods.rs:266-279`), so two NaNs of equal
bits are one key, and 0.0 and -0.0 are two.

`MapBuilder` has the builder's handle and the buffer objects. The collector appears as what
`PhoenixGC` establishes: an allocation may free every buffer that neither the handle nor the transient
frame of the running call reaches (`Surviving`). A call is cut at its allocations: two steps for
`phx_map_builder_alloc`, two for a `set` that grows the buffer, three for `freeze`; locals that live
across an allocation are in `call`. The caller roots the handle, which is what `gc_roots.rs` emits.

`WasmGcMap` has the pairs of a map, in order, and the index array of slot numbers (`gcIdx`), which
`set` and `remove` build anew and which a literal or `freeze` fills while it replays its pairs
(`Replay`). There are no tombstones. The engine collects the memory, so an operation is one step.

`MapBackends` runs one program on both: it makes a map from a literal, or with a builder, and then
sets and removes. Both have a refinement mapping to `OrderedMap`: `Refines` and `GcRefines`. Operations
of maps are immutable, and the model keeps the newest map alone. In the phase `build` the map stays
empty until `freeze`; the program may use the builder once more (the abort and the trap,
`UseAfterFreeze`), or drop it and go on with the map.

### ModuleResolver and LanguageServer

`ModuleResolver` gives, for the texts of all files, what `resolve_core` may return (`Results`): success,
or the error with the file it is reported at, in the order in which the code looks for them. A text is
a model value; what it imports and whether it parses are constants.

`LanguageServer` has the editor's texts and displayed diagnostics (`editor`, `shown`), the server's
`documents`, and the handlers in flight. tower-lsp polls the handlers on one task, so they interleave
only at awaits, and `main.rs` awaits only to publish: an analysis from its snapshot to the write of the
states is one action (`Analyze`), and each message is one (`Publish`, in any order, as they come out of
a `HashMap`). Two analyses can therefore not overwrite each other's states, whatever the comments on
the lock suggest. `did_close` removes its document, picks another one that has the closed file in its
bundle, awaits, and then analyses that one with the text it took before (`CloseGoesOn`).

Diagnostics and check results are represented by what they were computed from: the text of a file and
the texts it is checked against. So "current" means computed from the texts that are current now,
which is stronger than equal wording. `State.bundle` stands for check result, source map and URLs.

`DocumentsFollowEditor` excepts the documents in `raced`: those whose text a closing handler has taken
and which then changed. `QuietAnalysisIsCurrent` speaks of the last analysis, if it found the project in
order and ran alone. Section 4 says what happens otherwise.

### DependencyGraph and PackageManager

`DependencyGraph` is the second half of `resolve_graph`: the highest version of each name, the names
reached along those, conflicts; and `Lockfile::from_graph`. `PackageManager` has the process that runs
(`proc`: its stack, what it found, its clones) and the files: `manifest`, `lock`, and in the cache
`checkout` with `marked`, the completion markers. A checkout is cleared, filled and marked in three
steps. `phoenix add` writes the manifest in place (`Torn` while it does), resolves, and puts the old
one back if that fails. Branches move (`Push`), the user edits the manifest, and the cache is lost
between commands. `Fault` is an error of the network or the disk in a step of the resolve, `WriteFails` one in a
write of the manifest, which the command reports, `Crash` the end of the process at any step. The clone directory is rebuilt by each process that needs it and used
by no other, so it is part of `proc`.

The rename of the new lockfile is atomic, as `write_atomic` makes it. Packages have the name they are
required by and a valid manifest; a ref that does not exist is an error of `resolve_ref`.

The properties carry conditions, each for something the code does not do:
`LockReproduces` needs that the lockfile has the commit of every branch that is required,
`ReproducibleIsOffline` that it has every requirement of a repository, `NoCycle` that no version was
superseded. `VersionsAskedFor` allows for a version that only a superseded package, or what that brought
in, asked for, if some package of the graph was found in two versions: the residual of `graph.rs:49-55`.
`FailureChangesNothing` excepts the manifest if what failed is a write of it. That no two requirements of a name compete is not enough for `LockReproduces` and `ReproducibleIsOffline`, as the proof
showed: two branches whose old heads each required a tag of the other are both locked at the tags, and
when the heads have moved on from that, nothing competes any more and nothing of the branches is locked.
Without the condition TLC finds the counterexamples that section 4 lists.

## 3. Runs

| Run | Question | Instance |
|---|---|---|
| `gc_collection` | Does any mix of allocation, rooting, field writes and collections, with 4-byte pointers, free something in use or keep garbage? Do collections end, and are the accounts exact? | 1 thread, 2 addresses, 1 frame of up to 2 slots, 2 words per object, 2 thresholds |
| `gc_threads` | Is the gate enough while other threads go on? Is the invariant of the proofs right, also over a restart of the heap? | 2 threads, 2 addresses, 1 frame of 1 slot each, 1 pin, 1 shutdown |
| `roots_compiled` | Does any function, or method inlined into it, use what a collection has freed? Are frames popped in order? | 4 addresses, 2 values per function, depth 2, 1 reference stored per construction, one method and `push` per program: 19 on wasm32, 3 native (of 14 the others emit what wasm32 does) |
| `roots_variables` | Does a mutable variable keep what it holds alive? (No.) | 3 addresses, 2 values, 1 variable |
| `js_callbacks` | Is a retained callback callable and pinned once, and does every call keep what it needs? | 2 addresses, 2 closures, 2 wrappers, depth 2, 3 frames, 1 string argument |
| `js_finalizers` | Is a dropped callback released in the end? | 1 address, 2 closures, 3 wrappers |
| `js_shutdown` | Do retained callbacks outlive main? (No.) | 1 closure |
| `js_two_strings` | Do two string arguments survive the call? (No.) | 1 closure, 2 string arguments |
| `js_throw` | Can exceptions leave the shadow stack out of step? (Yes.) | 1 closure, depth 2 |
| `map_table` | Do both back ends implement the map and the builder of the interpreter? | 5 keys, 2 values, two hashes with other collisions, capacities 4 and 8, builders of up to 3 pairs from a capacity of 1, 3 buffer addresses |
| `ls_editing` | Do the server's documents follow the editor, and is an undisturbed analysis current? | 2 files, 6 texts, 2 handlers in flight |
| `pm_commands` | Is the graph right, the lock reproducible, the cache sound, a failure without effect? | 2 repositories with 7 commits, 2 directories, 4 manifests, 5 additions, 1 fault |

**Why the bounds suffice.** Two addresses allow a reference between objects, a cycle, and reuse of a
freed address while the other object lives; three would add only longer chains, and the mark loop
treats each link alike. One frame of two slots holds two roots, which is all two objects need; nested frames are
in `roots_compiled` and, for every number, in the proofs.
`roots_compiled` needs four addresses for a list, its element, the copy of a growing list and a closure's
result. A receiver and another value are all that the methods take from the function around them; two
functions under way are the one with the method and the closure it calls, whose allocations do what those
of further calls would. `push` builds the lists of several elements that the other method then meets. In `js_callbacks` two closures on two
addresses with two wrappers allow a capture, a recycled environment pointer, a stale entry taken over,
and a nested call; strings compete for the same addresses, so reuse comes at once. `js_finalizers`
has three wrappers on one address, so that an entry can become stale, be taken over, and become stale
again. In `map_table` three keys start at the last bucket and wrap around, of which one parts from them
after growth, and the others stand in their way; five keys pass the load threshold of a table of four
(2 entries) and of one of eight (5), and tables without an empty bucket arise by removal. A run that
needed a third capacity would only repeat `Rehash` with other numbers. The smallest table and index are
8 long in the code and 4 here (`MinBuckets`, `MinIndex`), a new builder has room for 8 pairs and here
for 1 (`InitialCapacity`, `InitialArray`): three pairs then make its buffer grow twice, so that a growth
finds pairs to copy; with duplicate keys among them the literal and `freeze` overwrite. Three buffer
addresses, which are symmetric, leave one free while an old and a new buffer live. `ls_editing` has an
entry file that imports or does not, which can itself be imported, and a module that exports, does not
parse, closes a cycle, or imports a missing file: every outcome of the resolver. tower-lsp runs up to
four handlers; two are enough for a handler to be overtaken between any two of its awaits, and the
properties speak of one handler against the others (with three the run takes too long to repeat).
The packages of `pm_commands` are a library on a moving branch whose old commit needs a newer
version of a package than the project asks for, required from a repository and from a directory: shared,
superseded, incompatible and cyclic requirements all occur, and so does a superseded commit of the library
that decides the version of the other package (without the exception of `VersionsAskedFor`, TLC reports it). One fault per behaviour interrupts each step once; what a command finds
afterwards is then the start of further commands, without bound on their number.

**Deadlock** is checked in the `gc_*`, `ls_editing` and `pm_commands` runs. It is not in the others: a
program ends when its host does nothing more or after an abort (`js_*`), when the addresses are used up
in the middle of a method (`roots_*`), and a map stops where the bound on the capacity stops it.

**Fairness.** `PhoenixGC`'s `FairSpec` has weak fairness of the collector's steps: a collection is a
loop that one thread runs to the end, with the mutex held. `JsCallbacks`'s has strong fairness, per
wrapper, of the engine's collection and finalizer. No engine promises a moment for either; what is
checked is that the glue does not prevent them, for engines that have both features, and as
long as jobs end (`[]<>Idle` is a hypothesis of the property). Nothing is assumed about host or
Phoenix code.

**Mutants.** The operators `M_...` are definitions with a plausible bug; replaced one at a time, each
makes TLC report the property it is listed with in `PROJECT.json`. They are used by no action.

## 4. Findings

* **`phx_gc_shutdown` at the end of `_start` frees retained callbacks** (`js_shutdown`). The pin is
  documented to last for the program's life, and hosts invoke callbacks after `run()` returned.
* **The first of two string arguments of a callback can be collected** while the second is built
  (`js_two_strings`).
* **An exception through Phoenix code leaves its frame behind** (`js_throw`): the next return below it
  fails the check of `pop_frame` and aborts.
* **What a mutable variable holds is not rooted** (`roots_variables`). Both back ends mean to give the
  variable a slot (`wasm/gc_root.rs:43-46`), but select it by the type of the `Op::Alloca`, which the
  lowering declares as i64. The slot of the value that was stored keeps the object alive until the
  function defines that value again: in a loop that stores a new object into `let mut best` in one round
  and allocates in a later one, `best` points to freed memory. The wasm32-gc back end is not concerned.

Two more about references, which the models show when they are changed as described:

* **Some native methods keep an intermediate in no slot while closures run.** `List.map`, `filter` and
  `flatMap` have the result list only as a Cranelift value (`translate/list_methods_closure.rs:114-128`),
  `Option.map`, `Result.map` and `mapErr` the closure's result while they allocate the wrapper
  (`translate/enum_combinators.rs:222-226`); a collection frees it. `sortBy` pushes a frame for this reason
  (`translate/list_methods_complex.rs:346-349`), and the wasm32 back end roots all of them. The native
  versions are in `CompiledRoots`; `MCPrograms` leaves them out (`Unrooted`), and with any of them in it TLC
  reports `NothingFreedIsUsed` violated.
* **Root slots from before a shutdown are not ignored** if the allocator reuses an address, as the
  comment on `phx_gc_shutdown` says they are (`runtime/gc/mod.rs:352-354`). The effect is retention, not a
  dangling reference: a stale slot is only ever read by the marker.

* **The header truncates a payload size of 4 GiB or more** (`runtime/gc/mod.rs:145`), and nothing that
  allocates a list or a string of that size refuses it. The bounds of the runs and the assumption
  `SizesFit` of the proofs leave this out; with `SizeModulus = 8` in `GC_collection.cfg` TLC reports
  `NoDangling` and `AccountingExact` violated: the scan stops early, and the sweep subtracts another size
  than was added.

The models of the tools are checked for what holds; in these cases TLC reports a violation when the
condition of the property is left out, or the text of the code shows it:

* **A cycle of packages can go unreported.** `resolve_graph` looks for a name in its own ancestry, but
  what `visited` knows is not walked again: if a package was first met outside the circle, and a higher
  version of its dependency requires it, the graph is cyclic and there is no `Cyclic` error.
* **A lockfile does not always reproduce.** It has one entry per name. A superseded requirement of a
  branch, or one that only a superseded version has, gets none, is resolved afresh each time, and may win
  or conflict when the branch has moved;
  `driver/deps/lock.rs:21` calls the lockfile authoritative.
* **A locked build can need the network** though all its commits are checked out, for the same reason:
  one of two refs of a repository is not in the lockfile. The comment on `ensure_db`
  (`driver/deps/fetch.rs:363-365`) says this does not happen.
* **A lockfile can outlive its last dependency.** A manifest without dependencies never reaches
  `reconcile_lock` (`driver/deps/project.rs:49`), which would remove the file (`driver/deps/resolve.rs:135`).
* **A superseded version can decide the version of another package**: the highest of all candidates is
  taken, also of those that nothing left in the graph asks for. This is known and documented
  (`driver/deps/graph.rs:49-55`, and the test at `:1184`); the graph still serves every requirement.
* **A crash during `phoenix add` can leave half a manifest**, as it is written in place, unlike the lockfile.
  So can a write that fails (`driver/pkg_cli.rs:119`), and one that fails when the old manifest is put back
  (`:136-143`) leaves the edited one or half of the old; the message then says so.
* **An edit can be lost when another document is closed.** `did_close` takes the text of a sibling,
  awaits, and analyses that text: an edit of the sibling that was handled in between is overwritten until
  the next one, and a sibling closed in between is put back.
* **Older diagnostics can stay on the screen**: the publish loops of two analyses interleave.
* **A document that leaves the import graph keeps its last bundle**, positions in other files
  included, and one opened while another file was broken is not analysed again when that file is closed.
* `apply`'s loop that clears stale diagnostics (`lsp/main.rs:114-118`) never publishes: `project_uris` is
  always the key set of `by_uri`.
* The comment on wasm32-gc's `freeze` (`wasm/wasm_gc/maps.rs:982`) describes a quadratic scan; the code
  inserts into the index.

## 5. Proofs

Every theorem is `Spec => []P` for all values of the constants that satisfy the named assumptions; TLC
evaluates those on the instances of the runs. Each component has an inductive invariant (`IInv`), a
lemma per action that says the action keeps it, and a lemma that combines them (`NextIInv`,
`NextKeeps`).

| Module | Proved | Invariant in |
|---|---|---|
| `PhoenixGCProofs` | `TypeOK`, `NoDangling`, `AccountingExact`, `FrameCountsExact`, `OthersHoldNothing`, `MarksClearBetweenCollections`, `SweepExact` | `PhoenixGC` |
| `CompiledRootsProofs` | `TypeOK`, `NothingFreedIsUsed`, `PopsNewest` | `RootDiscipline` |
| `JsCallbacksProofs` | `TypeOK`, `OnePinPerEntry`, `WrapperOwnsPin`, `RetainedCallable`, `CallsRooted` | `JsCallbacks` |
| `MapBackendsProofs` | `BackendsTypeOK`, `LookupMatchesIteration`, `OrderListsOccupied`, `ProbeEnds`, `IndexMatchesPairs`, `HalfEmpty`, `BuilderIntact`, `Refines`, `GcRefines` | `MapBackends`, of `PhoenixMap`, `WasmGcMap` and `MapBuilder` |
| `LanguageServerProofs` | `TypeOK`, `DocumentsFollowEditor`, `QuietAnalysisIsCurrent` | `LanguageServer` |
| `PackageManagerProofs` | `TypeOK`, `CheckoutsComplete`, `OneCommitPerRef`, `RequirementsServed`, `VersionsAskedFor`, `NoCycle`, `LockReproduces`, `ReproducibleIsOffline`, `FailureChangesNothing` | `PackageManager` |

### The collector

For every number of threads, addresses, frames, slots, pins and shutdowns and
every set of sizes. The assumptions are those on the constants, and `SizesFit`: no payload reaches the
modulus of the header's size field (4 GiB). The field is a truncating shift in the code, and without
that assumption the accounts, and then the scan, are wrong. `NoDangling` alone is not inductive. What
it rests on:

* `ObjectsScannable`: a reference lies in a whole word of a scanned payload, inside the size that the
  header tells. Otherwise the scan could miss it (`ScanFindsReferences`).
* `MarksCover`: during a collection the marks include the roots of the loops that are done, and a
  marked object that left the work list refers only to marked ones. At the sweep the work list is
  empty, so everything referenced from a survivor survives.
* `OthersHoldNothing`: past the gate no other thread has a reference. Frames that it pushes meanwhile
  are empty, and stay so, since each value comes from the heap, whose mutex is taken, or from a root it
  has not got. This needs `FrameCountsExact` at the gate, and `StacksBounded` (who has a value in hand has
  a frame).
* `PhasesOrdered`: what each phase has already done; in particular the collecting thread has nothing
  in its register, and marks are clear outside a collection.
* `PinsCounted`: a pin taken since the last shutdown is in the multiset.

`SweepExact` takes two more conjuncts (`SweepInv`). `MarksAreReached`: a marked object is in every set that has the
roots and is closed under the scan, and the scan of a traced object finds only marked ones. So once
the work list is empty the marks are such a set themselves, and the least one: no induction along paths is
needed. `PinsReadInTime`: the pins that were read are marked, and the multiset has since lost pins but got none,
since a thread that pins has to have the object in hand (`OthersHoldNothing`). One that unpins does not:
a property that has the sweep free whatever the pins of its own moment do not reach holds with
one thread and is false with two. `SweepExact` therefore speaks of the pins as they were read; what is unpinned
later is kept until the next collection.

### Compiled code

For any number of addresses, values, functions under way and references per object, whether or not an
allocation may do without a collection. What a method does depends on the code that its translator
emits, so the proof has two halves. `RootDiscipline` defines a check of emitted code, as a verifier of
byte code would do it: along every path it keeps which registers hold allocated objects (`live`) and
which slot holds, directly or through other objects, the object of a register (`holds`); a collection
leaves `live` what is held (`Collected`), and an operation is admitted if what it reads is live, frames
are pushed and popped in pairs, and slots exist (`Admits`). The assumption `MethodsPassCheck` says that
the methods a program uses pass. TLC evaluates it in `roots_compiled`, for all methods of the wasm32-linear
back end and all native ones but the five of section 4, and evaluates as well that exactly these five do
not pass (`UnrootedFailTheCheck`). The proof shows that a program whose methods pass uses nothing freed.
The invariant says:

* `Stacked`, `Placed`: the frames of the shadow stack are those of the functions under way and of their
  methods, in order; each value of a function is null or in its slot, except the one that an
  instruction under way defines.
* `Known`, `Describes`: where a method is, one of the check's facts at that place is true of its registers:
  the live ones point to allocated objects, and what a place holds is reachable from that place's slots. So
  it survives a collection (`CollectionKeeps`), and an assignment to fields only adds to what is reachable
  (`WriteKeeps`): no operation removes a reference from an object.
* `Waits`: a function that waits for a call has everything live in its places, but for the register that
  the result will go to. So it does not matter how often its callee collects (`WaitingStays`).
* `HeapSound`, `FramesSound`: no allocated object, and no slot, has a reference to a freed one.

`MutableVariables` shows what goes wrong for a value in no slot; it is not covered.

### The JS boundary

For any engine and any number of closures, wrappers, frames and activations. `ActivationsNest` has each
activation's environment in its frame, over frames that exceptions left behind; `EntriesAgree` and
`WrapperOwnsPin` tie the table, the wrappers and the pins together; `WorkingWrappersCallable` extends
`RetainedCallable` to wrappers that only the table or the engine still knows, since `retain` may hand
them out again; `HeapSound` says that no closure is freed under a root, its capture included. All of it
is until `phx_gc_shutdown` (section 4). `CallsRooted` is proved from the assumption of the theorem that
callbacks have at most one String parameter (`OneStringAtMost`); with two it is false (`js_two_strings`).

### Maps and builders

For any keys, values, hash functions, capacities, numbers of pairs and buffer addresses. The invariant
`BackendsIInv` is `MapIInv` of the native table, `IInv` of the wasm32-gc map, `IInv` of the native builder,
and that both builders hold the same pairs at the same point.

*The native table.* The properties compare lookups with iteration; neither says where an entry has to be.
`Sound` does: `Shape` is the type; `OrderExact` and `KeysOnce` say that the order array has each occupied bucket,
and each key, once; `NoneCutOff` says that the walk of each stored key comes to its bucket without passing an empty
one. A removal must therefore leave a tombstone, and an insertion may take the first tombstone of the walk.
`RoomFor` is the load factor, without tombstones. The lemmas of `PhoenixMapProofs` follow the code:

* `WalkPassesOnce`, `WalkReachesAll`: a walk visits every bucket once in `capacity` steps.
* `ProbeSound`: a probe finds the key's bucket if there is one, and otherwise a place that its walk comes to. By
  `SomeBucketFree`, pigeonhole on the order array, there always is such a place.
* `PutAtSound`, `OverwriteSound`, `RemoveSound`: what filling, overwriting and burying a bucket does to `Sound` and
  to the entries.
* `RehashSound`, `FromPairsSound`, `BucketsForSound`: the loops. They are recursive functions on the number of
  rounds; `RecursionSound` of `SequenceLemmas` shows that such a function exists, and `Counting` goes from round to round.

*The wasm32-gc map.* `Indexed` says that the index has each slot number once, where the walk of its key comes to it. No
tombstones: `set` and `remove` build the index anew (`BuildIdxSound`), and `MapAlloc` and `freeze` put pair after
pair into one that was made for all (`PutSound`, `ReplaySound`). `HalfEmpty` bounds the slots in use by the number
of pairs.

*The native builder.* `CallIsRooted` says, for each place at which a call is cut, which buffer only a local names and
that the transient frame roots it: without it the pairs of a growing builder could be freed between the two buffers.

*Refinement.* For every operation one lemma says what becomes of the entries: `Bound` for `set`, `Without` for
`remove`, `BoundsOf` for literals and `freeze`. They are the interpreter's `Bind`, `Without` and `FromPairs`; the steps
between, growth, allocation and the mark `frozen`, change nothing that the interpreter keeps.

The assumptions are `HashAssumption`, `GcAssumption` and `MinBucketsAssumption` (a hash is a number, and initial lengths are
not 0; nothing about collisions), `TagAssumption` (the marks of empty buckets and tombstones differ from each other and
from pairs) and `LiteralAssumption` (the bound on literals is a number).

### The language server

For any files, texts, imports and number of handlers. `ReadersAreCurrent`: a handler that has closed a
document holds the current text of the sibling it will analyse, unless that raced. `QuietIsUnderWay`: after
an analysis that ran alone, what is displayed together with the messages under way is what the current
texts give; the property is the case in which none are under way.

### The package manager

For any repositories, manifests and histories and any number of faults and crashes. The assumptions say
that revisions and directories have contents with names and versions. `FilesHeld`: nothing but the process
changes the files while it runs. `CheckoutUnderWay`: the checkout between `clear` and `mark` is unmarked and,
at `mark`, full. `FoundSound` and `Known`: a found package is what its commit contains, and what commit a
requirement means does not change any more. `NothingForgotten`: a requirement of what was found is served
or on the stack. With an empty stack this is `RequirementsServed`.

`NoCycle` rests on the walk being depth first (`WalkIsDepthFirst`). Every set of packages that were found in
one version has a member whose requirements of the set are all still on the stack (`Acyclic`), and a package that is
done with requires nothing that is under way (`DoneIsClosed`): otherwise the package under way that closes a
circle would have been in its own chain, which is the error `Cyclic`. `FailureChangesNothing` is proved as an
action property. The selection of versions is a maximum over an order of versions (`HighestVersion`).

`LockReproduces` compares two walks, of two processes. A second invariant on top of the first, `LInv`, keeps
them: the stack and the found packages of the running resolve come of a sequence of steps (`Walking`), each
with a commit that `CommitOf` still gives, and a settled lockfile was left by such a sequence from the same
manifest (`LeftBy`), which says nothing of the process that is gone. A tag is locked at its commit
(`RefsHold`), a branch at the commit the first walk found, so that the two sequences agree in each step as
long as they have agreed before (`WalksAgree`), and end together. `ReproducibleIsOffline` follows from
`CloneNeeded` of the same invariant. The sequences are existentially quantified, which TLC cannot evaluate;
it was used to check the other parts of `LInv`.

`VersionsAskedFor` needs to know who asked for what: `FoundInOrder`, also in `LInv`, says that each found package
was asked for, with its source and ref, by the project or by one found before it. It remains to show that nobody
outside the graph asked if no package of the graph was found in two versions (`NothingDiscarded`): the first found package whose name is not
in the graph was asked for by an earlier one, whose name is in the graph; as that was found in one version only,
it is the selected one, and then what it asks for is in the graph too.

### Only model-checked

* `CollectionTerminates` and `DroppedIsUnpinned`: liveness.

## 6. Not modelled

Lexer, parser, checker, IR lowering, interpreters apart from the map, and the generators are functions
from trees to trees without state to interleave; small bounded inputs would repeat their unit tests.
They are by far the largest part of the source. The text of generated glue and the choice of
instructions are left out; what they make the program do is in the models. The handle table of
`JsValue`s only grows, which its comment declares as intended. Finalization of the engine's own
objects on wasm32-gc is the engine's. Lists and strings are immutable copies, of which `CompiledRoots` has
the allocation and the references; of the inlined methods those that neither allocate nor call a closure, and the calls of the runtime's map
and JSON functions. A list builder is a map builder with elements for pairs. Of the language server the requests, which read one document's
state, positions in texts, and documents without a file; of the package manager several processes at
once (`docs/known-issues.md:36` names the missing lock), abbreviated commits, pre-release versions,
invalid packages, and edits by the user while a command runs; of the module resolver several packages,
intrinsic namespaces and unreadable files.

## 7. Plan

Modelled and checked: the collector, the root discipline of compiled code, the JS boundary, maps and builders of both back ends, the language
server with the module resolver, the package manager. Proved: the safety of the collector, of compiled
code and of the JS boundary; the maps and builders of both back ends, and that they implement the
interpreter's; the language server; the package manager. Of the properties that the runs check, only the two of
liveness and the four that runs refute have no proof. To model next, if the bounds allow: two processes of the package manager on one cache, and imports
across packages in the module resolver.
