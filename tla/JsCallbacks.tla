---------------------------- MODULE JsCallbacks ----------------------------
(***************************************************************************)
(* Phoenix closures handed to a JavaScript host on wasm32-linear.          *)
(*                                                                         *)
(* A closure crosses the boundary as its environment pointer.  The         *)
(* generated glue (phoenix-cranelift/src/wasm/js_glue.rs) wraps it in a JS *)
(* callable, pins it in the collector and remembers the wrapper, weakly,   *)
(* in a table keyed by that pointer; `release()` or the engine's           *)
(* FinalizationRegistry undoes it.  Three memory managers meet here: the   *)
(* shadow stack of the running Phoenix activations, the pin set, and the   *)
(* JS engine's own collector, whose finalizers run only between jobs.      *)
(*                                                                         *)
(* The collector is taken at the level of what module PhoenixGC shows of   *)
(* it: a collection frees exactly the unreachable objects.  Only closures  *)
(* and the strings built for callback arguments are heap objects here.     *)
(***************************************************************************)
EXTENDS Naturals, Sequences, SequencesExt, FiniteSets

CONSTANTS
  Addr,            \* payload addresses the allocator can hand out
  None,            \* the null environment pointer, and "no such thing"
  MaxClosures,     \* bound: closures the program creates
  MaxWrappers,     \* bound: JS callables the glue creates
  MaxDepth,        \* bound: nested Phoenix activations (main is the first)
  MaxFrames,       \* bound: shadow-stack frames, abandoned ones included
  MaxStringArgs    \* the String parameters of a callback signature

ASSUME AddrAssumption == None \notin Addr \cup Nat
ASSUME BoundsAssumption ==
  /\ MaxClosures \in Nat /\ MaxWrappers \in Nat
  /\ MaxDepth \in Nat \ {0} /\ MaxFrames \in Nat \ {0} /\ MaxStringArgs \in Nat

VARIABLES
  engine,      \* what the JS engine offers: WeakRef, FinalizationRegistry
  control,     \* who runs: "phoenix", "host", "marshal" while the glue builds
               \* arguments, or "aborted" after runtime_abort
  stack,       \* the Phoenix activations, innermost last
  shadow,      \* the shadow stack: one set of rooted addresses per frame
  shutDown,    \* phx_gc_shutdown has run; the heap that follows never collects
  allocated,   \* the addresses in the collector's registry
  object,      \* the closure last written at an address (0: a string)
  capture,     \* the closure it captured
  made,        \* how many closures the program has created
  pins,        \* PINNED, the collector's multiset of persistent roots
  callbacks,   \* __callbacks: environment pointer -> current wrapper
  wrappers,    \* every JS callable the glue ever made, in order
  armed,       \* wrappers registered with the FinalizationRegistry
  kept,        \* wrappers WeakRef keeps alive until the end of the job
  held,        \* wrappers the host holds a reference to
  callee,      \* the wrapper being invoked while arguments are marshalled
  args         \* the string arguments built so far

heap == <<allocated, object, capture, made>>
table == <<pins, callbacks, wrappers, armed, kept>>
phoenix == <<stack, shadow, shutDown>>
vars == <<engine, control, phoenix, heap, table, held, callee, args>>

-----------------------------------------------------------------------------
Wrapper == 1..MaxWrappers

Activation == [env : Addr \cup {None}, frame : 1..MaxFrames]

WrapperState ==
  [ptr : Addr, of : 0..MaxClosures, alive : BOOLEAN, released : BOOLEAN]

\* Every variable has its type, and the variables of one invocation agree:
\* only a marshalling glue has a callee and arguments.
TypeOK ==
  /\ engine \in [weakRef : BOOLEAN, finalizers : BOOLEAN]
  /\ control \in {"phoenix", "host", "marshal", "aborted"}
  /\ stack \in Seq(Activation) /\ Len(stack) <= MaxDepth
  /\ shadow \in Seq(SUBSET Addr) /\ Len(shadow) <= MaxFrames
  /\ shutDown \in BOOLEAN
  /\ allocated \subseteq Addr
  /\ object \in [Addr -> 0..MaxClosures]
  /\ capture \in [Addr -> Addr \cup {None}]
  /\ made \in 0..MaxClosures
  /\ pins \in [Addr -> Nat]
  /\ callbacks \in [Addr -> Wrapper \cup {None}]
  /\ wrappers \in Seq(WrapperState) /\ Len(wrappers) <= MaxWrappers
  /\ armed \subseteq DOMAIN wrappers
  /\ kept \subseteq DOMAIN wrappers
  /\ held \subseteq DOMAIN wrappers
  /\ callee \in Wrapper \cup {None}
  /\ args \in Seq(Addr) /\ Len(args) <= MaxStringArgs
  /\ callee # None <=> control = "marshal"
  /\ args # <<>> => control = "marshal"

\* _start has enabled the collector and entered main.
Init ==
  /\ engine \in [weakRef : BOOLEAN, finalizers : BOOLEAN]
  /\ control = "phoenix"
  /\ stack = <<[env |-> None, frame |-> 1]>>
  /\ shadow = <<{}>>
  /\ shutDown = FALSE
  /\ allocated = {} /\ made = 0
  /\ object = [a \in Addr |-> 0]
  /\ capture = [a \in Addr |-> None]
  /\ pins = [a \in Addr |-> 0]
  /\ callbacks = [a \in Addr |-> None]
  /\ wrappers = <<>>
  /\ armed = {} /\ kept = {} /\ held = {}
  /\ callee = None /\ args = <<>>

-----------------------------------------------------------------------------
(* The collector, as the glue and the compiled code see it.                *)

Top == Last(stack)
TopRoots == shadow[Top.frame]

Roots == (UNION Range(shadow)) \cup {a \in Addr : pins[a] > 0}

\* Tracing: from the roots, and from a live closure to the one it captured.
Closed(S) == \A a \in S \cap allocated : capture[a] = None \/ capture[a] \in S

Reachable ==
  {a \in allocated : \A S \in SUBSET Addr : Roots \subseteq S /\ Closed(S) => a \in S}

\* What an allocation may find allocated: the automatic collection of
\* phx_gc_alloc may or may not be due, and the heap that replaces a shut-down
\* one has auto_collect off.
AfterAutoCollect == {allocated} \cup (IF shutDown THEN {} ELSE {Reachable})

Unpin(a) == pins' = [pins EXCEPT ![a] = IF @ = 0 THEN 0 ELSE @ - 1]

-----------------------------------------------------------------------------
(* Phoenix code.                                                           *)

\* A closure expression: allocate the environment, store the captured closure,
\* root the result.
NewClosure ==
  /\ control = "phoenix" /\ made < MaxClosures
  /\ \E live \in AfterAutoCollect : \E a \in Addr \ live :
       \E c \in TopRoots \cup {None} :
         /\ c # None => object[c] # 0
         /\ allocated' = live \cup {a}
         /\ object' = [object EXCEPT ![a] = made + 1]
         /\ capture' = [capture EXCEPT ![a] = c]
         /\ shadow' = [shadow EXCEPT ![Top.frame] = @ \cup {a}]
  /\ made' = made + 1
  /\ UNCHANGED <<engine, control, stack, shutDown, table, held, callee, args>>

\* Any other allocation of the program collects when the threshold is passed.
Collect ==
  /\ control = "phoenix" /\ ~shutDown
  /\ allocated' = Reachable
  /\ UNCHANGED <<engine, control, phoenix, object, capture, made, table, held, callee, args>>

\* A loop that comes round again overwrites the root slot of a value.  The slot
\* of the environment parameter is set once, on entry.
Overwrite(a) ==
  /\ control = "phoenix" /\ a \in TopRoots \ {Top.env}
  /\ shadow' = [shadow EXCEPT ![Top.frame] = @ \ {a}]
  /\ UNCHANGED <<engine, control, stack, shutDown, heap, table, held, callee, args>>

\* The wrapper __retainCallback(a) finds alive through the table's reference.
LiveEntry(a) ==
  /\ callbacks[a] # None
  /\ engine.weakRef => wrappers[callbacks[a]].alive

\* Referring to a wrapper through a WeakRef keeps it alive for the job.
KeepDuringJob(w) == kept' = IF engine.weakRef THEN kept \cup {w} ELSE kept

ReuseWrapper(a) ==
  /\ LiveEntry(a)
  /\ KeepDuringJob(callbacks[a])
  /\ held' = held \cup {callbacks[a]}
  /\ UNCHANGED <<pins, callbacks, wrappers, armed>>

\* Mutant: no pin is taken for a new entry.
M_FreshWrapperUnpinned(a) ==
  LET w == Len(wrappers) + 1
  IN  /\ ~LiveEntry(a) /\ w <= MaxWrappers
      /\ callbacks' = [callbacks EXCEPT ![a] = w]
      /\ wrappers' = Append(wrappers, [ptr |-> a, of |-> object[a],
                                       alive |-> TRUE, released |-> FALSE])
      /\ armed' = IF engine.finalizers THEN armed \cup {w} ELSE armed
      /\ KeepDuringJob(w)
      /\ held' = held \cup {w}
      /\ UNCHANGED pins

\* Mutant: a stale entry is pinned again.
M_FreshWrapperPinsAgain(a) ==
  LET w == Len(wrappers) + 1
  IN  /\ ~LiveEntry(a) /\ w <= MaxWrappers
      /\ pins' = [pins EXCEPT ![a] = @ + 1]
      /\ callbacks' = [callbacks EXCEPT ![a] = w]
      /\ wrappers' = Append(wrappers, [ptr |-> a, of |-> object[a],
                                       alive |-> TRUE, released |-> FALSE])
      /\ armed' = IF engine.finalizers THEN armed \cup {w} ELSE armed
      /\ KeepDuringJob(w)
      /\ held' = held \cup {w}

\* Mutant: the wrapper that takes over a stale entry is not registered with the
\* FinalizationRegistry.
M_FreshWrapperUnregistered(a) ==
  LET w == Len(wrappers) + 1
  IN  /\ ~LiveEntry(a) /\ w <= MaxWrappers
      /\ pins' = [pins EXCEPT ![a] = IF callbacks[a] = None THEN @ + 1 ELSE @]
      /\ callbacks' = [callbacks EXCEPT ![a] = w]
      /\ wrappers' = Append(wrappers, [ptr |-> a, of |-> object[a],
                                       alive |-> TRUE, released |-> FALSE])
      /\ armed' = IF engine.finalizers /\ callbacks[a] = None THEN armed \cup {w} ELSE armed
      /\ KeepDuringJob(w)
      /\ held' = held \cup {w}

\* A fresh wrapper, with a token of its own.  A stale entry, whose wrapper was
\* collected but whose finalizer has not run, still holds its pin.
FreshWrapper(a) ==
  LET w == Len(wrappers) + 1
  IN  /\ ~LiveEntry(a) /\ w <= MaxWrappers
      /\ pins' = [pins EXCEPT ![a] = IF callbacks[a] = None THEN @ + 1 ELSE @]
      /\ callbacks' = [callbacks EXCEPT ![a] = w]
      /\ wrappers' = Append(wrappers, [ptr |-> a, of |-> object[a],
                                       alive |-> TRUE, released |-> FALSE])
      /\ armed' = IF engine.finalizers THEN armed \cup {w} ELSE armed
      /\ KeepDuringJob(w)
      /\ held' = held \cup {w}

\* An extern call with a closure argument: __retainCallback, then the host.
PassToHost(a) ==
  /\ control = "phoenix" /\ a \in TopRoots /\ object[a] # 0
  /\ ReuseWrapper(a) \/ FreshWrapper(a)
  /\ control' = "host"
  /\ UNCHANGED <<engine, phoenix, heap, callee, args>>

\* An extern call without a closure argument (or with a null one).
CallHost ==
  /\ control = "phoenix"
  /\ control' = "host"
  /\ UNCHANGED <<engine, phoenix, heap, table, held, callee, args>>

\* What leaving an activation does to WeakRef's keep-alive list: the job, and
\* the list with it, ends when no activation is left.
EndOfJob == kept' = IF Len(stack) = 1 THEN {} ELSE kept

\* phx_gc_shutdown frees every object; the pin set and the glue's table stay.
\* Freed memory still reads as it was last written.
ShutDown == allocated' = {} /\ shutDown' = TRUE

\* Return from an activation.  pop_frame aborts unless the frame is on top; a
\* return from main (the only activation without an environment) goes back
\* to _start, which shuts the collector down.
Return ==
  /\ control = "phoenix"
  /\ IF Top.frame # Len(shadow)
     THEN /\ control' = "aborted"
          /\ UNCHANGED <<stack, shadow, shutDown, allocated, kept>>
     ELSE /\ control' = "host"
          /\ stack' = Front(stack)
          /\ shadow' = Front(shadow)
          /\ EndOfJob
          /\ IF Top.env = None THEN ShutDown ELSE UNCHANGED <<shutDown, allocated>>
  /\ UNCHANGED <<engine, object, capture, made, pins, callbacks, wrappers,
                 armed, held, callee, args>>

-----------------------------------------------------------------------------
(* Host code and the JS engine.                                            *)

\* The host function returns into the activation that called it.
HostReturns ==
  /\ control = "host" /\ stack # <<>>
  /\ control' = "phoenix"
  /\ UNCHANGED <<engine, phoenix, heap, table, held, callee, args>>

\* It throws, or the glue does on a value it cannot convert.  The exception
\* leaves the activation without running its pop_frame, up to the host code that
\* invoked it (for main, the caller of run(), and then _start shuts nothing down).
HostThrows ==
  /\ control = "host" /\ stack # <<>>
  /\ stack' = Front(stack)
  /\ EndOfJob
  /\ UNCHANGED <<engine, control, shadow, shutDown, heap, pins, callbacks,
                 wrappers, armed, held, callee, args>>

HostDrops(w) ==
  /\ control = "host" /\ w \in held
  /\ held' = held \ {w}
  /\ UNCHANGED <<engine, control, phoenix, heap, table, callee, args>>

\* Mutant: a release does not compare its token with the entry's.
M_ReleaseTokenUnchecked(w, registered) ==
  LET a == wrappers[w].ptr
  IN  IF callbacks[a] # None
      THEN /\ callbacks' = [callbacks EXCEPT ![a] = None]
           /\ armed' = registered \ {w}
           /\ Unpin(a)
      ELSE armed' = registered /\ UNCHANGED <<callbacks, pins>>

\* __releaseCallback(token) for the token of the wrapper w, which no other wrapper
\* shares, when the finalizers of the set "registered" are armed.
ReleaseToken(w, registered) ==
  LET a == wrappers[w].ptr
  IN  IF callbacks[a] = w
      THEN /\ callbacks' = [callbacks EXCEPT ![a] = None]
           /\ armed' = registered \ {w}
           /\ Unpin(a)
      ELSE armed' = registered /\ UNCHANGED <<callbacks, pins>>

\* The host calls w.release(), once or again.
HostReleases(w) ==
  /\ control = "host" /\ w \in held
  /\ ReleaseToken(w, armed)
  /\ wrappers' = [wrappers EXCEPT ![w].released = TRUE]
  /\ UNCHANGED <<engine, control, phoenix, heap, kept, held, callee, args>>

\* The host calls a wrapper it has not released: from an event when no Phoenix
\* code runs, or from within an extern call.
Invoke(w) ==
  /\ control = "host" /\ w \in held /\ ~wrappers[w].released
  /\ Len(stack) < MaxDepth /\ Len(shadow) < MaxFrames
  /\ control' = "marshal" /\ callee' = w /\ args' = <<>>
  /\ UNCHANGED <<engine, phoenix, heap, table, held>>

\* buildString: phx_string_alloc, which may collect, and a copy.  Nothing roots
\* the new string until the callee's own frame does.
BuildString ==
  /\ control = "marshal" /\ Len(args) < MaxStringArgs
  /\ \E live \in AfterAutoCollect : \E a \in Addr \ live :
       /\ allocated' = live \cup {a}
       /\ object' = [object EXCEPT ![a] = 0]
       /\ capture' = [capture EXCEPT ![a] = None]
       /\ args' = Append(args, a)
  /\ UNCHANGED <<engine, control, phoenix, made, table, held, callee>>

\* Mutant: a failed call keeps the strings it has built for the next one.
M_MarshalThrowsKeepsArgs ==
  /\ control = "marshal"
  /\ control' = "host" /\ callee' = None
  /\ UNCHANGED <<engine, phoenix, heap, table, held, args>>

\* Converting an argument throws (__intArg): the call is not made.
MarshalThrows ==
  /\ control = "marshal"
  /\ control' = "host" /\ callee' = None /\ args' = <<>>
  /\ UNCHANGED <<engine, phoenix, heap, table, held>>

\* Mutant: the environment parameter is not seeded into the frame.
M_EntryRootsNoEnv(a) == ({capture[a]} \ {None}) \cup Range(args)

\* The roots of a new activation: the environment and every parameter, seeded on
\* entry, and every capture, loaded on entry.
EntryRoots(a) == ({a, capture[a]} \ {None}) \cup Range(args)

\* The trampoline reads the function index from the environment and dispatches;
\* the closure's function pushes its frame.
Enter ==
  LET a == wrappers[callee].ptr
  IN  /\ control = "marshal"
      /\ stack' = Append(stack, [env |-> a, frame |-> Len(shadow) + 1])
      /\ shadow' = Append(shadow, EntryRoots(a))
      /\ control' = "phoenix" /\ callee' = None /\ args' = <<>>
      /\ UNCHANGED <<engine, shutDown, heap, table, held>>

\* The engine collects a wrapper nothing refers to: the table does so only
\* where WeakRef is missing.
JsCollects(w) ==
  /\ control # "aborted" /\ wrappers[w].alive /\ w \notin held /\ w \notin kept /\ w # callee
  /\ engine.weakRef \/ callbacks[wrappers[w].ptr] # w
  /\ wrappers' = [wrappers EXCEPT ![w].alive = FALSE]
  /\ UNCHANGED <<engine, control, phoenix, heap, pins, callbacks, armed, kept,
                 held, callee, args>>

\* No job is running: the engine may run a finalizer.
Idle == control = "host" /\ stack = <<>>

\* The finalizer of a collected wrapper, which the engine disarms and calls with
\* the wrapper's token.
RunFinalizer(w) ==
  /\ Idle /\ ~wrappers[w].alive /\ w \in armed
  /\ ReleaseToken(w, armed \ {w})
  /\ UNCHANGED <<engine, control, phoenix, heap, wrappers, kept, held, callee, args>>

-----------------------------------------------------------------------------
PhoenixStep ==
  \/ NewClosure \/ Collect \/ CallHost \/ Return
  \/ \E a \in Addr : Overwrite(a) \/ PassToHost(a)

GlueStep == BuildString \/ MarshalThrows \/ Enter

HostStep ==
  \/ HostReturns \/ HostThrows
  \/ \E w \in DOMAIN wrappers : HostDrops(w) \/ HostReleases(w) \/ Invoke(w)

EngineStep == \E w \in DOMAIN wrappers : JsCollects(w) \/ RunFinalizer(w)

Next == PhoenixStep \/ GlueStep \/ HostStep \/ EngineStep

Spec == Init /\ [][Next]_vars

\* The engine's promise, where it has one: a wrapper it can collect again and again
\* is collected, and a finalizer it can run again and again is run.  Nothing is
\* assumed of Phoenix or host code.
FairSpec ==
  /\ Spec
  /\ \A w \in Wrapper :
       /\ SF_vars(w \in DOMAIN wrappers /\ JsCollects(w))
       /\ SF_vars(w \in DOMAIN wrappers /\ RunFinalizer(w))

-----------------------------------------------------------------------------
(* Properties.                                                             *)

\* A wrapper the host can still reach and has not released.
Retained(w) == w \in held /\ ~wrappers[w].released

\* The closure of w is still the object at its environment pointer.
ClosureLive(w) ==
  wrappers[w].ptr \in allocated /\ object[wrappers[w].ptr] = wrappers[w].of

\* Until the collector is shut down, a callback the host retains can be called:
\* its closure has been neither freed nor replaced by another at the same address.
RetainedCallable == ~shutDown => \A w \in DOMAIN wrappers : Retained(w) => ClosureLive(w)

\* The glue's table and the collector's pin set agree: one pin for an environment
\* pointer with an entry, stale or not, and none for any other, whatever the order
\* of hand-overs, releases and finalizers.
OnePinPerEntry == \A a \in Addr : pins[a] = IF callbacks[a] = None THEN 0 ELSE 1

\* A live wrapper that was not released owns the entry of its pointer, so a host
\* never holds two working wrappers of one closure, and neither the finalizer of an
\* earlier wrapper nor a second release() can take its pin away.
WrapperOwnsPin ==
  \A w \in DOMAIN wrappers :
    wrappers[w].alive /\ ~wrappers[w].released => callbacks[wrappers[w].ptr] = w

\* The objects a call depends on survive it: the environment and the parameters of
\* every running activation, even if the host releases the callback meanwhile, and,
\* while the glue converts the arguments of a call, its closure and the strings
\* already built.
CallsRooted ==
  ~shutDown =>
    /\ \A i \in DOMAIN stack : stack[i].env # None => stack[i].env \in allocated
    /\ UNION Range(shadow) \subseteq allocated
    /\ callee # None => ClosureLive(callee)
    /\ Range(args) \subseteq allocated

-----------------------------------------------------------------------------
(* The inductive invariant.                                                *)

\* Activations lie on frames of their own, outer ones below inner ones, and each
\* keeps its environment in its frame.
ActivationsNest ==
  /\ \A i \in DOMAIN stack : stack[i].frame \in DOMAIN shadow
  /\ \A i, j \in DOMAIN stack : i < j => stack[i].frame < stack[j].frame
  /\ \A i \in DOMAIN stack : stack[i].env # None => stack[i].env \in shadow[stack[i].frame]
  /\ control = "phoenix" => stack # <<>>

\* A call whose arguments are being converted is of a callback the host retains,
\* and there is room for its activation.
CallPrepared ==
  control = "marshal" =>
    callee \in held /\ ~wrappers[callee].released
    /\ Len(stack) < MaxDepth /\ Len(shadow) < MaxFrames

\* An entry names a wrapper of its own pointer; the host holds live wrappers; and
\* where the table refers to wrappers strongly, so does it.
EntriesAgree ==
  /\ \A a \in Addr : callbacks[a] # None =>
       /\ callbacks[a] \in DOMAIN wrappers
       /\ wrappers[callbacks[a]].ptr = a
       /\ ~engine.weakRef => wrappers[callbacks[a]].alive
  /\ \A w \in held : wrappers[w].alive

\* Until the shutdown: a live closure's capture is alive, as is every closure with
\* an entry; no closure was ever freed under a root, although a string may be; and
\* the arguments built so far are strings.
HeapSound ==
  ~shutDown =>
    /\ \A a \in allocated : capture[a] # None => capture[a] \in allocated
    /\ \A a \in Addr : callbacks[a] # None => a \in allocated
    /\ \A a \in UNION Range(shadow) : a \in allocated \/ object[a] = 0
    /\ \A a \in Range(args) : object[a] = 0

\* Until the shutdown: the closure of any wrapper that is alive and not released, held
\* by the host or only still known to the table, is the one it was made for.
WorkingWrappersCallable ==
  ~shutDown =>
    \A w \in DOMAIN wrappers :
      wrappers[w].alive /\ ~wrappers[w].released => ClosureLive(w)

IInv ==
  /\ TypeOK
  /\ ActivationsNest
  /\ CallPrepared
  /\ EntriesAgree
  /\ WrapperOwnsPin
  /\ OnePinPerEntry
  /\ HeapSound
  /\ WorkingWrappersCallable

-----------------------------------------------------------------------------
(* What the engine must do in the end, and what comments claim.            *)

\* The closure at a is pinned for no one: the host has no way to call it.
Abandoned(a) ==
  /\ control # "aborted" /\ pins[a] > 0
  /\ \A w \in held : wrappers[w].ptr = a => ~Retained(w)

\* Where the engine has both WeakRef and finalizers, and its jobs end, a closure the
\* host merely drops does not stay pinned.
DroppedIsUnpinned ==
  engine.weakRef /\ engine.finalizers /\ []<>Idle =>
    \A a \in Addr : Abandoned(a) ~> ~Abandoned(a)

\* gc/pinned.rs: "A closure the host never releases stays pinned for the program's
\* life".  It stays pinned, but _start frees it when main returns.
NeverReleasedStaysLive == \A w \in DOMAIN wrappers : Retained(w) => ClosureLive(w)

\* js_glue.rs, of a string the glue builds: "The result is rooted by the calling
\* Phoenix function the instant the extern call returns".  The arguments of a
\* callback have no calling Phoenix function, and the second one's allocation may
\* free the first.
BuiltStringsLive == ~shutDown => Range(args) \subseteq allocated

\* The assertion of pop_frame: the frame a function pops is the top one.  A host
\* that catches an exception thrown through Phoenix code breaks it.
PopMatches == control # "aborted"
=============================================================================
