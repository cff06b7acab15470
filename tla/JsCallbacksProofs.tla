------------------------- MODULE JsCallbacksProofs -------------------------
(***************************************************************************)
(* Proofs about JsCallbacks for any number of addresses, closures,         *)
(* wrappers, activations and frames, and every kind of JS engine.          *)
(***************************************************************************)
EXTENDS JsCallbacks, SequenceLemmas, TLAPS

-----------------------------------------------------------------------------
(* Operators.                                                              *)

\* A collection keeps what a root refers to, what a survivor captured, and frees
\* the rest.
LEMMA ReachableSound ==
  ASSUME TypeOK
  PROVE  /\ Reachable \subseteq allocated
         /\ Roots \cap allocated \subseteq Reachable
         /\ \A a \in Reachable : capture[a] \in allocated => capture[a] \in Reachable
<1>1. \A a \in Reachable : capture[a] \in allocated => capture[a] \in Reachable
  <2>. SUFFICES ASSUME NEW a \in Reachable, capture[a] \in allocated,
                       NEW S \in SUBSET Addr, Roots \subseteq S, Closed(S)
                PROVE  capture[a] \in S
    BY DEF Reachable
  <2>1. a \in S \cap allocated
    BY DEF Reachable
  <2>2. capture[a] # None
    BY AddrAssumption DEF TypeOK
  <2>. QED  BY <2>1, <2>2 DEF Closed
<1>. QED  BY <1>1 DEF Reachable

\* What an allocation may find allocated.
Survivors(live) ==
  /\ live \subseteq allocated
  /\ ~shutDown =>
       /\ Roots \cap allocated \subseteq live
       /\ \A a \in live : capture[a] \in allocated => capture[a] \in live

\* The collection that an allocation may begin with is sound.
LEMMA AllocationSound ==
  ASSUME TypeOK, NEW live \in AfterAutoCollect
  PROVE  Survivors(live)
BY ReachableSound DEF AfterAutoCollect, Survivors

-----------------------------------------------------------------------------
(* Initial state.                                                          *)

\* IInv holds when _start enters main.
LEMMA InitIInv == Init => IInv
<1>. SUFFICES ASSUME Init PROVE IInv
  OBVIOUS
<1>. USE AddrAssumption, BoundsAssumption
<1>1. TypeOK
  <2>1. stack \in Seq(Activation) /\ Len(stack) <= MaxDepth
    BY DEF Init, Activation
  <2>2. shadow \in Seq(SUBSET Addr) /\ Len(shadow) <= MaxFrames
    BY DEF Init
  <2>3. wrappers \in Seq(WrapperState) /\ Len(wrappers) <= MaxWrappers
    BY DEF Init
  <2>4. args \in Seq(Addr) /\ Len(args) <= MaxStringArgs
    BY DEF Init
  <2>5. engine \in [weakRef : BOOLEAN, finalizers : BOOLEAN] /\ shutDown \in BOOLEAN
    BY Zenon DEF Init
  <2>6. /\ object \in [Addr -> 0 .. MaxClosures]
        /\ capture \in [Addr -> Addr \cup {None}]
        /\ pins \in [Addr -> Nat]
        /\ callbacks \in [Addr -> Wrapper \cup {None}]
        /\ made \in 0 .. MaxClosures
    BY DEF Init
  <2>7. /\ control \in {"phoenix", "host", "marshal", "aborted"}
        /\ allocated \subseteq Addr
        /\ armed \subseteq DOMAIN wrappers
        /\ kept \subseteq DOMAIN wrappers
        /\ held \subseteq DOMAIN wrappers
        /\ callee \in Wrapper \cup {None}
        /\ callee # None <=> control = "marshal"
        /\ args # <<>> => control = "marshal"
    BY DEF Init
  <2>. QED  BY <2>1, <2>2, <2>3, <2>4, <2>5, <2>6, <2>7 DEF TypeOK
<1>2. ActivationsNest
  BY DEF Init, ActivationsNest
<1>3. CallPrepared /\ EntriesAgree /\ WrapperOwnsPin /\ OnePinPerEntry
  BY DEF Init, CallPrepared, EntriesAgree, WrapperOwnsPin, OnePinPerEntry
<1>4. HeapSound /\ WorkingWrappersCallable
  BY DEF Init, HeapSound, WorkingWrappersCallable, Range
<1>. QED  BY <1>1, <1>2, <1>3, <1>4 DEF IInv

-----------------------------------------------------------------------------
(* Facts that several steps use.                                           *)

\* The element of a union of a sequence of sets is in one of them.
LEMMA InUnion ==
  ASSUME NEW s, NEW a
  PROVE  a \in UNION Range(s) <=> \E i \in DOMAIN s : a \in s[i]
BY DEF Range

\* The types of the sequences, as functions.
LEMMA SequenceTypes ==
  ASSUME TypeOK
  PROVE  /\ Len(stack) \in Nat /\ DOMAIN stack = 1 .. Len(stack)
         /\ \A i \in DOMAIN stack : stack[i] \in Activation
         /\ Len(shadow) \in Nat /\ DOMAIN shadow = 1 .. Len(shadow)
         /\ \A i \in DOMAIN shadow : shadow[i] \subseteq Addr
         /\ Len(wrappers) \in Nat /\ DOMAIN wrappers = 1 .. Len(wrappers)
         /\ DOMAIN wrappers \subseteq Wrapper
         /\ \A w \in DOMAIN wrappers : wrappers[w] \in WrapperState
         /\ Range(args) \subseteq Addr
<1>1. stack \in Seq(Activation) /\ shadow \in Seq(SUBSET Addr)
      /\ wrappers \in Seq(WrapperState) /\ args \in Seq(Addr)
      /\ Len(wrappers) <= MaxWrappers
  BY DEF TypeOK
<1>2. DOMAIN wrappers \subseteq Wrapper
  BY <1>1, LenProperties, BoundsAssumption DEF Wrapper
<1>. QED  BY <1>1, <1>2, LenProperties, ElementOfSeq DEF Range

\* While Phoenix code runs it has an activation, whose frame is there.
LEMMA TopExists ==
  ASSUME TypeOK, ActivationsNest, control = "phoenix"
  PROVE  /\ Len(stack) \in DOMAIN stack
         /\ Top = stack[Len(stack)] /\ Top \in Activation
         /\ Top.frame \in DOMAIN shadow
         /\ TopRoots = shadow[Top.frame] /\ TopRoots \subseteq Addr
         /\ TopRoots \subseteq UNION Range(shadow)
<1>1. stack # <<>> /\ stack \in Seq(Activation)
  BY DEF TypeOK, ActivationsNest
<1>2. Len(stack) \in DOMAIN stack
  BY <1>1, EmptySeq, LenProperties
<1>3. Top = stack[Len(stack)]
  BY DEF Top, Last
<1>4. Top \in Activation /\ Top.frame \in DOMAIN shadow
  BY <1>2, <1>3, SequenceTypes DEF ActivationsNest
<1>. QED  BY <1>2, <1>3, <1>4, SequenceTypes, InUnion DEF TopRoots

\* A frame whose roots are set anew.
LEMMA FrameUpdated ==
  ASSUME TypeOK, NEW f \in DOMAIN shadow, NEW S \in SUBSET Addr
  PROVE  /\ [shadow EXCEPT ![f] = S] \in Seq(SUBSET Addr)
         /\ Len([shadow EXCEPT ![f] = S]) = Len(shadow)
         /\ DOMAIN [shadow EXCEPT ![f] = S] = DOMAIN shadow
         /\ \A i \in DOMAIN shadow :
              [shadow EXCEPT ![f] = S][i] = IF i = f THEN S ELSE shadow[i]
<1>1. shadow \in Seq(SUBSET Addr)
  BY DEF TypeOK
<1>2. f \in 1 .. Len(shadow) /\ DOMAIN shadow = 1 .. Len(shadow)
  BY SequenceTypes
<1>. QED  BY <1>1, <1>2, ExceptSeq, LenProperties

\* A wrapper that is alive and was not released.
Working(w) == wrappers[w].alive /\ ~wrappers[w].released

\* The pointer of a working wrapper is pinned.
LEMMA WorkingPinned ==
  ASSUME IInv, NEW w \in DOMAIN wrappers, Working(w)
  PROVE  /\ wrappers[w].ptr \in Addr
         /\ callbacks[wrappers[w].ptr] = w /\ w # None
<1>1. wrappers[w] \in WrapperState /\ w \in Nat
  BY SequenceTypes DEF IInv
<1>2. wrappers[w].alive /\ ~wrappers[w].released
  BY DEF Working
<1>. QED  BY <1>1, <1>2, AddrAssumption DEF WrapperState, IInv, WrapperOwnsPin

\* What a collection keeps, before the shutdown.
LEMMA CollectionKeeps ==
  ASSUME IInv, ~shutDown, NEW live, Survivors(live)
  PROVE  /\ \A a \in live : capture[a] # None => capture[a] \in live
         /\ \A a \in Addr : callbacks[a] # None => a \in live
         /\ \A a \in UNION Range(shadow) : a \in live \/ object[a] = 0
         /\ \A w \in DOMAIN wrappers :
              Working(w) => /\ wrappers[w].ptr \in live
                            /\ object[wrappers[w].ptr] = wrappers[w].of
<1>1. \A a \in Addr : callbacks[a] # None => a \in Roots
  BY DEF IInv, OnePinPerEntry, Roots
<1>2. \A a \in Addr : callbacks[a] # None => a \in live
  BY <1>1 DEF IInv, HeapSound, Survivors
<1>3. \A a \in live : capture[a] # None => capture[a] \in live
  BY DEF IInv, HeapSound, Survivors
<1>4. UNION Range(shadow) \subseteq Roots
  BY DEF Roots
<1>5. \A a \in UNION Range(shadow) : a \in live \/ object[a] = 0
  BY <1>4 DEF IInv, HeapSound, Survivors
<1>6. ASSUME NEW w \in DOMAIN wrappers, Working(w)
      PROVE  wrappers[w].ptr \in live /\ object[wrappers[w].ptr] = wrappers[w].of
  BY <1>2, <1>6, WorkingPinned DEF IInv, WorkingWrappersCallable, ClosureLive, Working
<1>. QED  BY <1>2, <1>3, <1>5, <1>6

-----------------------------------------------------------------------------
(* One lemma per action.                                                   *)

\* A collection.
LEMMA CollectIInv ==
  ASSUME IInv, Collect
  PROVE  IInv'
<1>. USE DEF IInv, phoenix, table
<1>1. Survivors(Reachable) /\ ~shutDown /\ control = "phoenix"
  BY ReachableSound DEF Survivors, Collect
<1>2. TypeOK'
  BY <1>1 DEF Collect, TypeOK, Survivors
<1>3. ActivationsNest' /\ CallPrepared' /\ EntriesAgree' /\ WrapperOwnsPin' /\ OnePinPerEntry'
  BY DEF Collect, ActivationsNest, CallPrepared, EntriesAgree, WrapperOwnsPin, OnePinPerEntry
<1>4. Range(args) = {}
  BY <1>1 DEF TypeOK, Range
<1>5. HeapSound'
  BY <1>1, <1>4, CollectionKeeps DEF Collect, HeapSound
<1>6. WorkingWrappersCallable'
  BY <1>1, CollectionKeeps DEF Collect, WorkingWrappersCallable, ClosureLive, Working
<1>. QED  BY <1>2, <1>3, <1>5, <1>6

\* A new closure, rooted in the top frame.
LEMMA NewClosureIInv ==
  ASSUME IInv, NewClosure
  PROVE  IInv'
<1>. USE DEF IInv, table
<1>1. PICK live \in AfterAutoCollect, a \in Addr, c \in TopRoots \cup {None} :
        /\ a \notin live
        /\ c # None => object[c] # 0
        /\ allocated' = live \cup {a}
        /\ object' = [object EXCEPT ![a] = made + 1]
        /\ capture' = [capture EXCEPT ![a] = c]
        /\ shadow' = [shadow EXCEPT ![Top.frame] = @ \cup {a}]
  BY DEF NewClosure
<1>2. Survivors(live) /\ control = "phoenix"
  BY AllocationSound DEF NewClosure
<1>3. /\ Top.frame \in DOMAIN shadow
      /\ TopRoots \subseteq UNION Range(shadow) /\ TopRoots \subseteq Addr
  BY <1>2, TopExists
<1>4. /\ shadow' \in Seq(SUBSET Addr)
      /\ Len(shadow') = Len(shadow) /\ DOMAIN shadow' = DOMAIN shadow
      /\ \A i \in DOMAIN shadow : shadow'[i] = IF i = Top.frame THEN shadow[i] \cup {a} ELSE shadow[i]
  <2>1. shadow[Top.frame] \cup {a} \in SUBSET Addr
    BY <1>3, SequenceTypes
  <2>2. shadow' = [shadow EXCEPT ![Top.frame] = shadow[Top.frame] \cup {a}]
    BY <1>1
  <2>. QED  BY <1>3, <2>1, <2>2, FrameUpdated
<1>5. made + 1 \in 0 .. MaxClosures /\ made' = made + 1
  BY BoundsAssumption DEF NewClosure, TypeOK
<1>6. TypeOK'
  BY <1>1, <1>2, <1>3, <1>4, <1>5 DEF NewClosure, TypeOK, Survivors
<1>7. ActivationsNest'
  BY <1>4 DEF NewClosure, ActivationsNest
<1>8. CallPrepared' /\ EntriesAgree' /\ WrapperOwnsPin' /\ OnePinPerEntry'
  BY <1>2 DEF NewClosure, CallPrepared, EntriesAgree, WrapperOwnsPin, OnePinPerEntry
<1>9. \A x \in Addr : x # a => object'[x] = object[x] /\ capture'[x] = capture[x]
  BY <1>1 DEF TypeOK
<1>10. object'[a] = made + 1 /\ capture'[a] = c
  BY <1>1 DEF TypeOK
<1>11. \A x \in UNION Range(shadow') : x = a \/ x \in UNION Range(shadow)
  BY <1>4, InUnion
<1>12. Range(args) = {} /\ args' = args
  BY <1>2 DEF TypeOK, Range, NewClosure
<1>13. ~shutDown => (c # None => c \in live)
  BY <1>1, <1>3, <1>2, CollectionKeeps
<1>14. live \subseteq Addr
  BY <1>2 DEF Survivors, TypeOK
<1>15. HeapSound'
  <2>. SUFFICES ASSUME ~shutDown PROVE HeapSound'
    BY DEF HeapSound, NewClosure
  <2>1. \A x \in allocated' : capture'[x] # None => capture'[x] \in allocated'
    BY <1>1, <1>2, <1>9, <1>10, <1>13, <1>14, CollectionKeeps
  <2>2. \A x \in Addr : callbacks'[x] # None => x \in allocated'
    BY <1>1, <1>2, CollectionKeeps DEF NewClosure
  <2>3. \A x \in UNION Range(shadow') : x \in allocated' \/ object'[x] = 0
    <3>1. \A x \in UNION Range(shadow) : x \in Addr
      BY SequenceTypes, InUnion
    <3>. QED  BY <1>1, <1>2, <1>9, <1>11, <3>1, CollectionKeeps
  <2>. QED  BY <1>12, <2>1, <2>2, <2>3 DEF HeapSound
<1>16. WorkingWrappersCallable'
  BY <1>1, <1>2, <1>9, <1>14, CollectionKeeps
     DEF NewClosure, WorkingWrappersCallable, ClosureLive, Working
<1>. QED  BY <1>6, <1>7, <1>8, <1>15, <1>16

\* A root slot overwritten: fewer roots.
LEMMA OverwriteIInv ==
  ASSUME IInv, NEW a \in Addr, Overwrite(a)
  PROVE  IInv'
<1>. USE DEF IInv, table, heap
<1>1. /\ Len(stack) \in DOMAIN stack /\ Top = stack[Len(stack)]
      /\ Top.frame \in DOMAIN shadow
  BY TopExists DEF Overwrite
<1>2. /\ shadow' \in Seq(SUBSET Addr)
      /\ Len(shadow') = Len(shadow) /\ DOMAIN shadow' = DOMAIN shadow
      /\ \A i \in DOMAIN shadow : shadow'[i] = IF i = Top.frame THEN shadow[i] \ {a} ELSE shadow[i]
  <2>1. shadow[Top.frame] \ {a} \in SUBSET Addr
    BY <1>1, SequenceTypes
  <2>2. shadow' = [shadow EXCEPT ![Top.frame] = shadow[Top.frame] \ {a}]
    BY DEF Overwrite
  <2>3. Top.frame \in DOMAIN shadow
    BY <1>1
  <2>. QED  BY <2>1, <2>2, <2>3, FrameUpdated
<1>3. TypeOK'
  BY <1>2 DEF Overwrite, TypeOK
<1>4. \A i \in DOMAIN stack : stack[i].frame = Top.frame => i = Len(stack)
  BY <1>1, SequenceTypes DEF ActivationsNest, Activation
<1>5. ActivationsNest'
  BY <1>1, <1>2, <1>4 DEF Overwrite, ActivationsNest
<1>6. CallPrepared' /\ EntriesAgree' /\ WrapperOwnsPin' /\ OnePinPerEntry'
  BY DEF Overwrite, CallPrepared, EntriesAgree, WrapperOwnsPin, OnePinPerEntry
<1>7. \A x \in UNION Range(shadow') : x \in UNION Range(shadow)
  BY <1>2, InUnion
<1>8. HeapSound' /\ WorkingWrappersCallable'
  BY <1>7 DEF Overwrite, HeapSound, WorkingWrappersCallable, ClosureLive, Working
<1>. QED  BY <1>3, <1>5, <1>6, <1>8

\* A hand-over that finds the live wrapper of the closure.
LEMMA ReuseWrapperIInv ==
  ASSUME IInv, NEW a \in Addr, PassToHost(a), ReuseWrapper(a)
  PROVE  IInv'
<1>. USE DEF IInv, phoenix, heap
<1>1. /\ callbacks[a] # None /\ callbacks[a] \in DOMAIN wrappers
      /\ wrappers[callbacks[a]].ptr = a
      /\ wrappers[callbacks[a]].alive
  BY DEF ReuseWrapper, LiveEntry, EntriesAgree
<1>2. kept' \subseteq DOMAIN wrappers /\ held' = held \cup {callbacks[a]}
  BY <1>1 DEF ReuseWrapper, KeepDuringJob, TypeOK
<1>3. control = "phoenix" /\ control' = "host" /\ args = <<>>
  BY DEF PassToHost, TypeOK
<1>4. TypeOK'
  BY <1>1, <1>2, <1>3 DEF PassToHost, ReuseWrapper, TypeOK
<1>5. /\ ActivationsNest' /\ CallPrepared' /\ WrapperOwnsPin' /\ OnePinPerEntry'
      /\ HeapSound' /\ WorkingWrappersCallable'
  BY <1>3 DEF PassToHost, ReuseWrapper, ActivationsNest, CallPrepared, WrapperOwnsPin,
       OnePinPerEntry, HeapSound, WorkingWrappersCallable, ClosureLive
<1>6. EntriesAgree'
  BY <1>1, <1>2 DEF PassToHost, ReuseWrapper, EntriesAgree
<1>. QED  BY <1>4, <1>5, <1>6

\* A hand-over that makes a wrapper: the entry is its own, and pinned once.
LEMMA FreshWrapperIInv ==
  ASSUME IInv, NEW a \in Addr, PassToHost(a), FreshWrapper(a)
  PROVE  IInv'
<1>. USE DEF IInv, phoenix, heap
<1>. DEFINE w == Len(wrappers) + 1
            new == [ptr |-> a, of |-> object[a], alive |-> TRUE, released |-> FALSE]
<1>1. control = "phoenix" /\ control' = "host" /\ args = <<>>
  BY DEF PassToHost, TypeOK
<1>2. Len(wrappers) \in Nat /\ w \in Wrapper /\ w \notin DOMAIN wrappers /\ w # None
  BY SequenceTypes, AddrAssumption DEF FreshWrapper, Wrapper
<1>3. new \in WrapperState
  BY DEF WrapperState, TypeOK
<1>4. /\ wrappers' \in Seq(WrapperState)
      /\ Len(wrappers') = w
      /\ DOMAIN wrappers' = DOMAIN wrappers \cup {w}
      /\ wrappers'[w] = new
      /\ \A v \in DOMAIN wrappers : wrappers'[v] = wrappers[v]
  <2>1. wrappers \in Seq(WrapperState) /\ wrappers' = Append(wrappers, new)
    BY DEF TypeOK, FreshWrapper
  <2>2. DOMAIN wrappers = 1 .. Len(wrappers)
    BY SequenceTypes
  <2>. QED  BY <1>2, <1>3, <2>1, <2>2, AppendProperties, LenProperties
<1>. HIDE DEF w, new
<1>5. /\ callbacks' = [callbacks EXCEPT ![a] = w]
      /\ pins' = [pins EXCEPT ![a] = IF callbacks[a] = None THEN @ + 1 ELSE @]
      /\ held' = held \cup {w} /\ armed' \subseteq armed \cup {w} /\ kept' \subseteq kept \cup {w}
      /\ Len(wrappers') <= MaxWrappers
      /\ callee' = callee /\ object[a] # 0 /\ engine' = engine
  BY <1>4 DEF PassToHost, FreshWrapper, KeepDuringJob, w
<1>6. callbacks[a] # None => engine.weakRef /\ ~wrappers[callbacks[a]].alive
  BY DEF FreshWrapper, LiveEntry, EntriesAgree
<1>7. TypeOK'
  <2>1. pins' \in [Addr -> Nat] /\ callbacks' \in [Addr -> Wrapper \cup {None}]
    BY <1>2, <1>5 DEF TypeOK
  <2>. QED  BY <1>1, <1>4, <1>5, <2>1 DEF PassToHost, TypeOK
<1>8. ActivationsNest' /\ CallPrepared'
  BY <1>1 DEF PassToHost, ActivationsNest, CallPrepared
<1>9. OnePinPerEntry'
  BY <1>2, <1>5 DEF OnePinPerEntry, TypeOK
<1>10. \A b \in Addr : callbacks'[b] = IF b = a THEN w ELSE callbacks[b]
  BY <1>5 DEF TypeOK
<1>11. new.ptr = a /\ new.alive /\ new.of = object[a]
  BY DEF new
<1>12. EntriesAgree'
  <2>1. \A v \in held' : wrappers'[v].alive
    BY <1>4, <1>5, <1>11 DEF EntriesAgree, TypeOK
  <2>. QED  BY <1>4, <1>5, <1>10, <1>11, <2>1 DEF EntriesAgree
<1>13. WrapperOwnsPin'
  <2>1. SUFFICES ASSUME NEW v \in DOMAIN wrappers, Working(v)
                 PROVE  callbacks'[wrappers[v].ptr] = v
    BY <1>4, <1>10, <1>11 DEF WrapperOwnsPin, Working
  <2>2. wrappers[v].ptr \in Addr /\ callbacks[wrappers[v].ptr] = v /\ v # None
    BY <2>1, WorkingPinned
  <2>3. wrappers[v].ptr # a
    BY <1>6, <2>1, <2>2 DEF Working
  <2>. QED  BY <1>10, <2>2, <2>3
<1>14. ~shutDown => a \in allocated
  <2>1. a \in UNION Range(shadow)
    BY <1>1, TopExists DEF PassToHost
  <2>. QED  BY <1>5, <2>1 DEF HeapSound
<1>15. HeapSound'
  BY <1>10, <1>14 DEF HeapSound, PassToHost
<1>16. WorkingWrappersCallable'
  BY <1>4, <1>11, <1>14 DEF PassToHost, WorkingWrappersCallable, ClosureLive
<1>. QED  BY <1>7, <1>8, <1>9, <1>12, <1>13, <1>15, <1>16

\* An extern call, a return of the host, and a failed conversion move control only.
LEMMA ControlIInv ==
  ASSUME IInv, CallHost \/ HostReturns \/ MarshalThrows
  PROVE  IInv'
<1>. USE DEF IInv, phoenix, heap, table
<1>1. /\ control' \in {"phoenix", "host"}
      /\ control' = "phoenix" => stack # <<>>
      /\ callee' = None /\ args' = <<>>
      /\ UNCHANGED <<engine, phoenix, heap, table, held>>
  BY DEF CallHost, HostReturns, MarshalThrows, TypeOK
<1>2. Range(args') = {}
  BY <1>1 DEF Range
<1>3. TypeOK'
  <2>1. args' \in Seq(Addr) /\ Len(args') <= MaxStringArgs
    BY <1>1, BoundsAssumption
  <2>. QED  BY <1>1, <2>1 DEF TypeOK
<1>4. ActivationsNest' /\ CallPrepared'
  BY <1>1 DEF ActivationsNest, CallPrepared
<1>5. EntriesAgree' /\ WrapperOwnsPin' /\ OnePinPerEntry'
  BY <1>1 DEF EntriesAgree, WrapperOwnsPin, OnePinPerEntry
<1>6. HeapSound' /\ WorkingWrappersCallable'
  BY <1>1, <1>2 DEF HeapSound, WorkingWrappersCallable, ClosureLive
<1>. QED  BY <1>3, <1>4, <1>5, <1>6

\* The host forgets a wrapper, or begins to call one.
LEMMA HostUsesIInv ==
  ASSUME IInv, NEW w \in DOMAIN wrappers, HostDrops(w) \/ Invoke(w)
  PROVE  IInv'
<1>. USE DEF IInv, phoenix, heap, table
<1>1. w \in Wrapper
  BY SequenceTypes
<1>2. /\ control = "host" /\ held' \subseteq held /\ args' = <<>>
      /\ UNCHANGED <<engine, phoenix, heap, table>>
      /\ \/ control' = "host" /\ callee' = None
         \/ /\ control' = "marshal" /\ callee' = w /\ w \in held' /\ ~wrappers[w].released
            /\ Len(stack) < MaxDepth /\ Len(shadow) < MaxFrames
  BY DEF HostDrops, Invoke, TypeOK
<1>3. Range(args') = {}
  BY <1>2 DEF Range
<1>4. TypeOK'
  <2>1. args' \in Seq(Addr) /\ Len(args') <= MaxStringArgs
    BY <1>2, BoundsAssumption
  <2>2. callee' # None <=> control' = "marshal"
    BY <1>1, <1>2, AddrAssumption DEF Wrapper
  <2>. QED  BY <1>1, <1>2, <2>1, <2>2 DEF TypeOK
<1>5. ActivationsNest' /\ CallPrepared'
  BY <1>2 DEF ActivationsNest, CallPrepared
<1>6. EntriesAgree' /\ WrapperOwnsPin' /\ OnePinPerEntry'
  BY <1>2 DEF EntriesAgree, WrapperOwnsPin, OnePinPerEntry
<1>7. HeapSound' /\ WorkingWrappersCallable'
  BY <1>2, <1>3 DEF HeapSound, WorkingWrappersCallable, ClosureLive
<1>. QED  BY <1>4, <1>5, <1>6, <1>7

\* A release with the token of w, where w does not work any more afterwards: the
\* entry and the pin go together, and only if they are w's.
LEMMA ReleaseTokenIInv ==
  ASSUME IInv, NEW w \in DOMAIN wrappers, NEW registered, ReleaseToken(w, registered),
         registered \subseteq armed,
         UNCHANGED <<engine, control, phoenix, heap, kept, held, callee, args>>,
         wrappers' \in Seq(WrapperState), Len(wrappers') = Len(wrappers),
         DOMAIN wrappers' = DOMAIN wrappers,
         \A v \in DOMAIN wrappers :
           /\ wrappers'[v].ptr = wrappers[v].ptr /\ wrappers'[v].of = wrappers[v].of
           /\ wrappers'[v].alive = wrappers[v].alive
           /\ v # w => wrappers'[v].released = wrappers[v].released,
         ~(wrappers'[w].alive /\ ~wrappers'[w].released),
         control # "marshal"
  PROVE  IInv'
<1>. USE DEF IInv, phoenix, heap
<1>. DEFINE a == wrappers[w].ptr
<1>1. a \in Addr /\ w # None /\ wrappers[w] \in WrapperState
  BY SequenceTypes, AddrAssumption DEF WrapperState, Wrapper
<1>. HIDE DEF a
<1>2. \/ /\ callbacks[a] = w /\ callbacks' = [callbacks EXCEPT ![a] = None]
         /\ pins' = [pins EXCEPT ![a] = IF @ = 0 THEN 0 ELSE @ - 1]
      \/ callbacks[a] # w /\ callbacks' = callbacks /\ pins' = pins
  BY DEF ReleaseToken, Unpin, a
<1>3. armed' \subseteq armed
  BY DEF ReleaseToken
<1>4. TypeOK'
  <2>1. callbacks' \in [Addr -> Wrapper \cup {None}]
    BY <1>1, <1>2 DEF TypeOK
  <2>2. pins' \in [Addr -> Nat]
    <3>1. callbacks[a] = w => pins[a] = 1
      BY <1>1 DEF OnePinPerEntry
    <3>. QED  BY <1>1, <1>2, <3>1 DEF TypeOK
  <2>. QED  BY <1>3, <2>1, <2>2 DEF TypeOK
<1>5. ActivationsNest' /\ CallPrepared'
  BY DEF ActivationsNest, CallPrepared
<1>6. OnePinPerEntry'
  BY <1>1, <1>2 DEF OnePinPerEntry, TypeOK
<1>7. \A b \in Addr : callbacks'[b] = None \/ callbacks'[b] = callbacks[b]
  BY <1>2 DEF TypeOK
<1>8. EntriesAgree'
  <2>1. engine' = engine /\ held' = held /\ held \subseteq DOMAIN wrappers
    BY DEF TypeOK
  <2>2. \A v \in held' : wrappers'[v].alive
    BY <2>1 DEF EntriesAgree
  <2>3. ASSUME NEW b \in Addr, callbacks'[b] # None
        PROVE  /\ callbacks'[b] \in DOMAIN wrappers'
               /\ wrappers'[callbacks'[b]].ptr = b
               /\ ~engine'.weakRef => wrappers'[callbacks'[b]].alive
    BY <1>7, <2>1, <2>3 DEF EntriesAgree
  <2>. QED  BY <2>2, <2>3 DEF EntriesAgree
<1>9. WrapperOwnsPin'
  <2>. SUFFICES ASSUME NEW v \in DOMAIN wrappers, v # w, Working(v)
                PROVE  callbacks'[wrappers[v].ptr] = v
    BY DEF WrapperOwnsPin, Working
  <2>1. wrappers[v].ptr \in Addr /\ callbacks[wrappers[v].ptr] = v
    BY WorkingPinned
  <2>. QED  BY <1>2, <2>1 DEF TypeOK
<1>10. HeapSound'
  BY <1>7 DEF HeapSound
<1>11. WorkingWrappersCallable'
  BY DEF WorkingWrappersCallable, ClosureLive
<1>. QED  BY <1>4, <1>5, <1>6, <1>8, <1>9, <1>10, <1>11

\* The wrappers after one of them changed its state.
LEMMA WrapperUpdated ==
  ASSUME TypeOK, NEW w \in DOMAIN wrappers, NEW r \in WrapperState,
         wrappers' = [wrappers EXCEPT ![w] = r]
  PROVE  /\ wrappers' \in Seq(WrapperState)
         /\ Len(wrappers') = Len(wrappers)
         /\ DOMAIN wrappers' = DOMAIN wrappers
         /\ wrappers'[w] = r
         /\ \A v \in DOMAIN wrappers : v # w => wrappers'[v] = wrappers[v]
<1>1. wrappers \in Seq(WrapperState)
  BY DEF TypeOK
<1>2. w \in 1 .. Len(wrappers) /\ DOMAIN wrappers = 1 .. Len(wrappers)
  BY SequenceTypes
<1>. QED  BY <1>1, <1>2, ExceptSeq, LenProperties

\* The host releases a wrapper, for the first time or again.
LEMMA HostReleasesIInv ==
  ASSUME IInv, NEW w \in DOMAIN wrappers, HostReleases(w)
  PROVE  IInv'
<1>. DEFINE r == [wrappers[w] EXCEPT !.released = TRUE]
<1>1. TypeOK /\ wrappers[w] \in WrapperState
  BY SequenceTypes DEF IInv
<1>2. /\ r \in WrapperState /\ r.released
      /\ r.ptr = wrappers[w].ptr /\ r.of = wrappers[w].of /\ r.alive = wrappers[w].alive
  BY <1>1 DEF WrapperState
<1>3. wrappers' = [wrappers EXCEPT ![w] = r]
  BY DEF HostReleases
<1>. HIDE DEF r
<1>4. /\ wrappers' \in Seq(WrapperState)
      /\ Len(wrappers') = Len(wrappers)
      /\ DOMAIN wrappers' = DOMAIN wrappers
      /\ wrappers'[w] = r
      /\ \A v \in DOMAIN wrappers : v # w => wrappers'[v] = wrappers[v]
  BY <1>1, <1>2, <1>3, WrapperUpdated
<1>5. /\ ReleaseToken(w, armed) /\ control # "marshal"
      /\ UNCHANGED <<engine, control, phoenix, heap, kept, held, callee, args>>
  BY DEF HostReleases
<1>. QED  BY <1>2, <1>4, <1>5, ReleaseTokenIInv

\* The engine runs the finalizer of a wrapper it has collected.
LEMMA RunFinalizerIInv ==
  ASSUME IInv, NEW w \in DOMAIN wrappers, RunFinalizer(w)
  PROVE  IInv'
<1>1. wrappers \in Seq(WrapperState) /\ wrappers' = wrappers
  BY DEF RunFinalizer, IInv, TypeOK
<1>2. /\ ReleaseToken(w, armed \ {w}) /\ control # "marshal" /\ ~wrappers[w].alive
      /\ UNCHANGED <<engine, control, phoenix, heap, kept, held, callee, args>>
  BY DEF RunFinalizer, Idle
<1>. QED  BY <1>1, <1>2, ReleaseTokenIInv

\* The engine collects a wrapper that nothing refers to.
LEMMA JsCollectsIInv ==
  ASSUME IInv, NEW w \in DOMAIN wrappers, JsCollects(w)
  PROVE  IInv'
<1>. USE DEF IInv, phoenix, heap
<1>. DEFINE r == [wrappers[w] EXCEPT !.alive = FALSE]
<1>1. TypeOK /\ wrappers[w] \in WrapperState
  BY SequenceTypes
<1>2. /\ r \in WrapperState /\ ~r.alive
      /\ r.ptr = wrappers[w].ptr /\ r.of = wrappers[w].of /\ r.released = wrappers[w].released
  BY <1>1 DEF WrapperState
<1>3. wrappers' = [wrappers EXCEPT ![w] = r]
  BY DEF JsCollects
<1>. HIDE DEF r
<1>4. /\ wrappers' \in Seq(WrapperState)
      /\ Len(wrappers') = Len(wrappers)
      /\ DOMAIN wrappers' = DOMAIN wrappers
      /\ wrappers'[w] = r
      /\ \A v \in DOMAIN wrappers : v # w => wrappers'[v] = wrappers[v]
  BY <1>1, <1>2, <1>3, WrapperUpdated
<1>5. TypeOK'
  BY <1>4 DEF JsCollects, TypeOK
<1>6. ActivationsNest' /\ CallPrepared' /\ WrapperOwnsPin' /\ OnePinPerEntry'
  BY <1>2, <1>4 DEF JsCollects, ActivationsNest, CallPrepared, WrapperOwnsPin, OnePinPerEntry
<1>7. EntriesAgree'
  BY <1>2, <1>4 DEF JsCollects, EntriesAgree, TypeOK
<1>8. HeapSound' /\ WorkingWrappersCallable'
  BY <1>2, <1>4 DEF JsCollects, HeapSound, WorkingWrappersCallable, ClosureLive
<1>. QED  BY <1>5, <1>6, <1>7, <1>8

\* What is left of the activations when the innermost one has gone.
LEMMA FrontActivations ==
  ASSUME TypeOK, ActivationsNest, stack # <<>>
  PROVE  /\ Front(stack) \in Seq(Activation)
         /\ Len(Front(stack)) <= MaxDepth /\ Len(Front(stack)) = Len(stack) - 1
         /\ DOMAIN Front(stack) \subseteq DOMAIN stack
         /\ \A i \in DOMAIN Front(stack) : /\ Front(stack)[i] = stack[i]
                                          /\ stack[i].frame < Top.frame
<1>1. stack \in Seq(Activation) /\ Len(stack) \in Nat /\ Len(stack) <= MaxDepth
      /\ DOMAIN stack = 1 .. Len(stack)
  BY SequenceTypes DEF TypeOK
<1>2. /\ Front(stack) \in Seq(Activation)
      /\ Len(Front(stack)) = Len(stack) - 1
      /\ DOMAIN Front(stack) = 1 .. Len(stack) - 1
      /\ \A i \in DOMAIN Front(stack) : Front(stack)[i] = stack[i]
  BY <1>1, FrontProperties
<1>3. Len(stack) \in DOMAIN stack
  BY <1>1, EmptySeq
<1>4. \A i \in DOMAIN Front(stack) : i \in DOMAIN stack /\ i < Len(stack)
  BY <1>1, <1>2
<1>5. \A i \in DOMAIN Front(stack) : stack[i].frame < Top.frame
  BY <1>3, <1>4 DEF ActivationsNest, Top, Last
<1>. QED  BY <1>1, <1>2, <1>4, <1>5, BoundsAssumption

\* A return: the activation and its frame go, and with main the heap.
LEMMA ReturnIInv ==
  ASSUME IInv, Return
  PROVE  IInv'
<1>. USE DEF IInv
<1>1. control = "phoenix" /\ args = <<>> /\ callee = None /\ stack # <<>>
  BY DEF Return, TypeOK, ActivationsNest
<1>2. CASE Top.frame # Len(shadow)
  <2>1. /\ control' = "aborted"
        /\ UNCHANGED <<stack, shadow, shutDown, allocated, kept, engine, object, capture, made,
                       pins, callbacks, wrappers, armed, held, callee, args>>
    BY <1>2 DEF Return
  <2>2. TypeOK'
    BY <1>1, <2>1 DEF TypeOK
  <2>3. ActivationsNest' /\ CallPrepared'
    BY <2>1 DEF ActivationsNest, CallPrepared
  <2>4. EntriesAgree' /\ WrapperOwnsPin' /\ OnePinPerEntry'
    BY <2>1 DEF EntriesAgree, WrapperOwnsPin, OnePinPerEntry
  <2>5. HeapSound' /\ WorkingWrappersCallable'
    BY <2>1 DEF HeapSound, WorkingWrappersCallable, ClosureLive
  <2>. QED  BY <2>2, <2>3, <2>4, <2>5
<1>3. CASE Top.frame = Len(shadow)
  <2>1. /\ control' = "host" /\ stack' = Front(stack) /\ shadow' = Front(shadow)
        /\ \/ shutDown' = TRUE /\ allocated' = {}
           \/ shutDown' = shutDown /\ allocated' = allocated
        /\ kept' \subseteq kept
        /\ UNCHANGED <<engine, object, capture, made, pins, callbacks, wrappers, armed,
                       held, callee, args>>
    BY <1>3 DEF Return, EndOfJob, ShutDown
  <2>2. Top.frame \in DOMAIN shadow
    BY <1>1, TopExists
  <2>3. /\ shadow' \in Seq(SUBSET Addr)
        /\ Len(shadow') = Len(shadow) - 1 /\ Len(shadow) \in Nat
        /\ DOMAIN shadow' = 1 .. Len(shadow) - 1 /\ DOMAIN shadow = 1 .. Len(shadow)
        /\ \A i \in DOMAIN shadow' : shadow'[i] = shadow[i]
    <3>1. shadow \in Seq(SUBSET Addr) /\ shadow # <<>>
      BY <2>2 DEF TypeOK
    <3>. QED  BY <2>1, <3>1, FrontProperties, LenProperties
  <2>4. stack' \in Seq(Activation) /\ Len(stack') <= MaxDepth
    BY <1>1, <2>1, FrontActivations
  <2>5. TypeOK'
    <3>1. shutDown' \in BOOLEAN
      BY <2>1, Zenon DEF TypeOK
    <3>2. Len(shadow') <= MaxFrames
      BY <2>3, BoundsAssumption DEF TypeOK
    <3>. QED  BY <1>1, <2>1, <2>3, <2>4, <3>1, <3>2 DEF TypeOK
  <2>6. ActivationsNest'
    <3>1. \A i \in DOMAIN stack' : /\ i \in DOMAIN stack /\ stack'[i] = stack[i]
                                   /\ stack[i].frame < Top.frame
      BY <1>1, <2>1, FrontActivations
    <3>2. \A i \in DOMAIN stack' : stack[i].frame \in DOMAIN shadow'
      BY <1>3, <2>3, <3>1 DEF ActivationsNest
    <3>. QED  BY <2>1, <2>3, <3>1, <3>2 DEF ActivationsNest
  <2>7. CallPrepared' /\ EntriesAgree' /\ WrapperOwnsPin' /\ OnePinPerEntry'
    BY <2>1 DEF CallPrepared, EntriesAgree, WrapperOwnsPin, OnePinPerEntry
  <2>8. \A x \in UNION Range(shadow') : x \in UNION Range(shadow)
    <3>1. \A i \in DOMAIN shadow' : i \in DOMAIN shadow /\ shadow'[i] = shadow[i]
      BY <2>3
    <3>. QED  BY <3>1, InUnion
  <2>9. HeapSound' /\ WorkingWrappersCallable'
    BY <2>1, <2>8 DEF HeapSound, WorkingWrappersCallable, ClosureLive
  <2>. QED  BY <2>5, <2>6, <2>7, <2>9
<1>. QED  BY <1>2, <1>3

\* An exception: the activation goes, its frame stays.
LEMMA HostThrowsIInv ==
  ASSUME IInv, HostThrows
  PROVE  IInv'
<1>. USE DEF IInv, heap
<1>1. /\ stack # <<>> /\ stack' = Front(stack) /\ kept' \subseteq kept /\ control = "host"
      /\ UNCHANGED <<engine, control, shadow, shutDown, heap, pins, callbacks,
                     wrappers, armed, held, callee, args>>
  BY DEF HostThrows, EndOfJob
<1>2. TypeOK'
  <2>1. stack' \in Seq(Activation) /\ Len(stack') <= MaxDepth
    BY <1>1, FrontActivations
  <2>. QED  BY <1>1, <2>1 DEF TypeOK
<1>3. ActivationsNest'
  <2>1. \A i \in DOMAIN stack' : i \in DOMAIN stack /\ stack'[i] = stack[i]
    BY <1>1, FrontActivations
  <2>. QED  BY <1>1, <2>1 DEF ActivationsNest
<1>4. CallPrepared' /\ EntriesAgree' /\ WrapperOwnsPin' /\ OnePinPerEntry'
  BY <1>1 DEF CallPrepared, EntriesAgree, WrapperOwnsPin, OnePinPerEntry
<1>5. HeapSound' /\ WorkingWrappersCallable'
  BY <1>1 DEF HeapSound, WorkingWrappersCallable, ClosureLive
<1>. QED  BY <1>2, <1>3, <1>4, <1>5

\* A string built for an argument: nothing it replaces is in use.
LEMMA BuildStringIInv ==
  ASSUME IInv, BuildString
  PROVE  IInv'
<1>. USE DEF IInv, phoenix, table
<1>1. PICK live \in AfterAutoCollect, a \in Addr :
        /\ a \notin live
        /\ allocated' = live \cup {a}
        /\ object' = [object EXCEPT ![a] = 0]
        /\ capture' = [capture EXCEPT ![a] = None]
        /\ args' = Append(args, a)
  BY DEF BuildString
<1>2. Survivors(live)
  BY AllocationSound
<1>3. /\ control = "marshal" /\ Len(args) < MaxStringArgs
      /\ UNCHANGED <<engine, control, phoenix, made, table, held, callee>>
  BY DEF BuildString
<1>4. /\ args' \in Seq(Addr) /\ Len(args') = Len(args) + 1 /\ Len(args) \in Nat
      /\ \A x \in Range(args') : x = a \/ x \in Range(args)
  <2>1. args \in Seq(Addr)
    BY DEF TypeOK
  <2>. QED  BY <1>1, <2>1, AppendProperties, LenProperties DEF Range
<1>5. live \subseteq Addr
  BY <1>2 DEF Survivors, TypeOK
<1>6. TypeOK'
  <2>1. object' \in [Addr -> 0 .. MaxClosures]
    BY <1>1, BoundsAssumption DEF TypeOK
  <2>. QED  BY <1>1, <1>3, <1>4, <1>5, <2>1, BoundsAssumption DEF TypeOK
<1>7. ActivationsNest' /\ CallPrepared' /\ EntriesAgree' /\ WrapperOwnsPin' /\ OnePinPerEntry'
  BY <1>3 DEF ActivationsNest, CallPrepared, EntriesAgree, WrapperOwnsPin, OnePinPerEntry
<1>8. /\ \A x \in Addr : x # a => object'[x] = object[x] /\ capture'[x] = capture[x]
      /\ object'[a] = 0 /\ capture'[a] = None
  BY <1>1 DEF TypeOK
<1>9. HeapSound'
  <2>. SUFFICES ASSUME ~shutDown PROVE HeapSound'
    BY <1>3 DEF HeapSound
  <2>1. \A x \in allocated' : capture'[x] # None => capture'[x] \in allocated'
    BY <1>1, <1>2, <1>5, <1>8, CollectionKeeps
  <2>2. \A x \in Addr : callbacks'[x] # None => x \in allocated'
    BY <1>1, <1>2, <1>3, CollectionKeeps
  <2>3. \A x \in UNION Range(shadow') : x \in allocated' \/ object'[x] = 0
    <3>1. \A x \in UNION Range(shadow) : x \in Addr
      BY SequenceTypes, InUnion
    <3>. QED  BY <1>1, <1>2, <1>3, <1>8, <3>1, CollectionKeeps
  <2>4. \A x \in Range(args') : object'[x] = 0
    BY <1>4, <1>8, SequenceTypes DEF HeapSound
  <2>. QED  BY <2>1, <2>2, <2>3, <2>4 DEF HeapSound
<1>10. WorkingWrappersCallable'
  BY <1>1, <1>2, <1>3, <1>5, <1>8, CollectionKeeps
     DEF WorkingWrappersCallable, ClosureLive, Working
<1>. QED  BY <1>6, <1>7, <1>9, <1>10

\* The call itself: a new activation, whose frame roots the closure, what it
\* captured and the arguments.
LEMMA EnterIInv ==
  ASSUME IInv, Enter
  PROVE  IInv'
<1>. USE DEF IInv, heap, table
<1>. DEFINE a == wrappers[callee].ptr
            act == [env |-> a, frame |-> Len(shadow) + 1]
<1>1. /\ control = "marshal" /\ control' = "phoenix" /\ callee' = None /\ args' = <<>>
      /\ stack' = Append(stack, act) /\ shadow' = Append(shadow, EntryRoots(a))
      /\ UNCHANGED <<engine, shutDown, heap, table, held>>
  BY DEF Enter
<1>2. /\ callee \in DOMAIN wrappers /\ Working(callee)
      /\ Len(stack) < MaxDepth /\ Len(shadow) < MaxFrames
  BY <1>1 DEF CallPrepared, EntriesAgree, Working, TypeOK
<1>3. a \in Addr /\ (~shutDown => a \in allocated)
  BY <1>2, WorkingPinned DEF HeapSound
<1>4. /\ EntryRoots(a) \subseteq Addr
      /\ a \in EntryRoots(a)
      /\ \A x \in EntryRoots(a) : x = a \/ (x = capture[a] /\ x # None) \/ x \in Range(args)
  BY <1>3, SequenceTypes, AddrAssumption DEF EntryRoots, TypeOK
<1>5. act \in Activation /\ act.env = a /\ act.frame = Len(shadow) + 1
  BY <1>2, <1>3, SequenceTypes, BoundsAssumption DEF Activation
<1>. HIDE DEF a, act
<1>6. /\ stack' \in Seq(Activation) /\ Len(stack') = Len(stack) + 1
      /\ Len(stack) \in Nat /\ stack' # <<>>
      /\ DOMAIN stack' = DOMAIN stack \cup {Len(stack) + 1} /\ DOMAIN stack = 1 .. Len(stack)
      /\ stack'[Len(stack) + 1] = act
      /\ \A i \in DOMAIN stack : stack'[i] = stack[i]
  <2>1. stack \in Seq(Activation)
    BY DEF TypeOK
  <2>. QED  BY <1>1, <1>5, <2>1, AppendProperties, LenProperties
<1>7. /\ shadow' \in Seq(SUBSET Addr) /\ Len(shadow') = Len(shadow) + 1
      /\ Len(shadow) \in Nat
      /\ DOMAIN shadow' = DOMAIN shadow \cup {Len(shadow) + 1} /\ DOMAIN shadow = 1 .. Len(shadow)
      /\ shadow'[Len(shadow) + 1] = EntryRoots(a)
      /\ \A i \in DOMAIN shadow : shadow'[i] = shadow[i]
  <2>1. shadow \in Seq(SUBSET Addr)
    BY DEF TypeOK
  <2>. QED  BY <1>1, <1>4, <2>1, AppendProperties, LenProperties
<1>8. TypeOK'
  <2>1. args' \in Seq(Addr) /\ Len(args') <= MaxStringArgs
    BY <1>1, BoundsAssumption
  <2>2. Len(stack') <= MaxDepth /\ Len(shadow') <= MaxFrames
    BY <1>2, <1>6, <1>7, BoundsAssumption
  <2>. QED  BY <1>1, <1>6, <1>7, <2>1, <2>2 DEF TypeOK
<1>9. ActivationsNest'
  <2>1. \A i \in DOMAIN stack : stack[i].frame \in DOMAIN shadow /\ stack[i].frame < Len(shadow) + 1
    BY <1>7 DEF ActivationsNest
  <2>2. \A i \in DOMAIN stack' : stack'[i].frame \in DOMAIN shadow'
    BY <1>5, <1>6, <1>7, <2>1
  <2>3. \A i, j \in DOMAIN stack' : i < j => stack'[i].frame < stack'[j].frame
    <3>. SUFFICES ASSUME NEW i \in DOMAIN stack', NEW j \in DOMAIN stack', i < j
                  PROVE  stack'[i].frame < stack'[j].frame
      OBVIOUS
    <3>1. i \in DOMAIN stack
      BY <1>6
    <3>2. CASE j \in DOMAIN stack
      BY <1>6, <3>1, <3>2 DEF ActivationsNest
    <3>3. CASE j = Len(stack) + 1
      BY <1>5, <1>6, <2>1, <3>1, <3>3
    <3>. QED  BY <1>6, <3>2, <3>3
  <2>4. \A i \in DOMAIN stack' : stack'[i].env # None => stack'[i].env \in shadow'[stack'[i].frame]
    BY <1>4, <1>5, <1>6, <1>7, <2>1 DEF ActivationsNest
  <2>. QED  BY <1>6, <2>2, <2>3, <2>4 DEF ActivationsNest
<1>10. CallPrepared' /\ EntriesAgree' /\ WrapperOwnsPin' /\ OnePinPerEntry'
  BY <1>1 DEF CallPrepared, EntriesAgree, WrapperOwnsPin, OnePinPerEntry
<1>11. HeapSound'
  <2>. SUFFICES ASSUME ~shutDown PROVE HeapSound'
    BY <1>1 DEF HeapSound
  <2>1. Range(args') = {}
    BY <1>1 DEF Range
  <2>2. \A x \in EntryRoots(a) : x \in allocated \/ object[x] = 0
    BY <1>3, <1>4 DEF HeapSound
  <2>3. \A x \in UNION Range(shadow') : x \in UNION Range(shadow) \/ x \in EntryRoots(a)
    BY <1>7, InUnion
  <2>. QED  BY <1>1, <2>1, <2>2, <2>3 DEF HeapSound
<1>12. WorkingWrappersCallable'
  BY <1>1 DEF WorkingWrappersCallable, ClosureLive
<1>. QED  BY <1>8, <1>9, <1>10, <1>11, <1>12

-----------------------------------------------------------------------------
(* The theorems.                                                           *)

\* Every step of the program, the glue, the host and the engine preserves IInv.
LEMMA NextIInv ==
  ASSUME IInv, [Next]_vars
  PROVE  IInv'
<1>1. CASE UNCHANGED vars
  <2>. USE <1>1 DEF vars, phoenix, heap, table, IInv
  <2>1. TypeOK'
    BY DEF TypeOK
  <2>2. ActivationsNest' /\ CallPrepared'
    BY DEF ActivationsNest, CallPrepared
  <2>3. EntriesAgree' /\ WrapperOwnsPin' /\ OnePinPerEntry'
    BY DEF EntriesAgree, WrapperOwnsPin, OnePinPerEntry
  <2>4. HeapSound' /\ WorkingWrappersCallable'
    BY DEF HeapSound, WorkingWrappersCallable, ClosureLive
  <2>. QED  BY <2>1, <2>2, <2>3, <2>4
<1>2. CASE PhoenixStep
  <2>1. ASSUME NEW a \in Addr, PassToHost(a) PROVE IInv'
    BY <2>1, ReuseWrapperIInv, FreshWrapperIInv DEF PassToHost
  <2>. QED
    BY <1>2, <2>1, NewClosureIInv, CollectIInv, ControlIInv, ReturnIInv, OverwriteIInv
       DEF PhoenixStep
<1>3. CASE GlueStep
  BY <1>3, BuildStringIInv, ControlIInv, EnterIInv DEF GlueStep
<1>4. CASE HostStep
  BY <1>4, ControlIInv, HostThrowsIInv, HostUsesIInv, HostReleasesIInv DEF HostStep
<1>5. CASE EngineStep
  BY <1>5, JsCollectsIInv, RunFinalizerIInv DEF EngineStep
<1>. QED  BY <1>1, <1>2, <1>3, <1>4, <1>5 DEF Next

\* IInv is an invariant.
LEMMA IInvHolds == Spec => []IInv
<1>1. IInv /\ [Next]_vars => IInv'
  BY NextIInv
<1>. QED  BY InitIInv, <1>1, PTL DEF Spec

\* The variables keep their types, and only a marshalling glue has a callee and
\* arguments.
THEOREM TypeCorrect == Spec => []TypeOK
<1>1. IInv => TypeOK
  BY DEF IInv
<1>. QED  BY IInvHolds, <1>1, PTL

\* Whatever the order of hand-overs, releases and finalizers, an environment
\* pointer is pinned once while it has an entry, and not otherwise.
THEOREM TableMatchesPins == Spec => []OnePinPerEntry
<1>1. IInv => OnePinPerEntry
  BY DEF IInv
<1>. QED  BY IInvHolds, <1>1, PTL

\* A wrapper that still works owns the entry of its pointer.
THEOREM WrappersOwnPins == Spec => []WrapperOwnsPin
<1>1. IInv => WrapperOwnsPin
  BY DEF IInv
<1>. QED  BY IInvHolds, <1>1, PTL

\* Until the shutdown, the closure of a callback that the host retains is neither
\* freed nor replaced.
THEOREM RetainedStaysCallable == Spec => []RetainedCallable
<1>1. IInv => RetainedCallable
  BY DEF IInv, RetainedCallable, Retained, WorkingWrappersCallable, EntriesAgree
<1>. QED  BY IInvHolds, <1>1, PTL

-----------------------------------------------------------------------------
(* Calls of at most one String argument.                                   *)

\* With a second one it is false: its allocation may free the first.
OneStringAtMost == MaxStringArgs <= 1

\* Until the shutdown, roots and arguments refer to allocated memory.
RootsAllocated ==
  ~shutDown => UNION Range(shadow) \subseteq allocated /\ Range(args) \subseteq allocated

\* A collection keeps what the shadow stack roots.
LEMMA RootsSurvive ==
  ASSUME RootsAllocated, ~shutDown, NEW live, Survivors(live)
  PROVE  UNION Range(shadow) \subseteq live
BY DEF RootsAllocated, Survivors, Roots

\* The steps that allocate or free memory keep every root allocated.
LEMMA HeapStepRootsAllocated ==
  ASSUME OneStringAtMost, IInv, RootsAllocated,
         NewClosure \/ Collect \/ BuildString \/ Return
  PROVE  RootsAllocated'
<1>. USE DEF phoenix, table
<1>1. CASE NewClosure
  <2>1. PICK live \in AfterAutoCollect, a \in Addr :
          /\ allocated' = live \cup {a}
          /\ shadow' = [shadow EXCEPT ![Top.frame] = @ \cup {a}]
    BY <1>1 DEF NewClosure
  <2>2. Survivors(live) /\ control = "phoenix" /\ args' = args /\ shutDown' = shutDown
    BY <1>1, AllocationSound DEF NewClosure, IInv
  <2>3. Range(args) = {}
    BY <2>2 DEF IInv, TypeOK, Range
  <2>4. \A x \in UNION Range(shadow') : x = a \/ x \in UNION Range(shadow)
    <3>1. DOMAIN shadow' = DOMAIN shadow
      BY <2>1
    <3>2. \A i \in DOMAIN shadow : \A x \in shadow'[i] : x = a \/ x \in shadow[i]
      BY <2>1
    <3>. QED  BY <3>1, <3>2, InUnion
  <2>. QED  BY <2>1, <2>2, <2>3, <2>4, RootsSurvive DEF RootsAllocated
<1>2. CASE Collect
  <2>1. Survivors(Reachable) /\ control = "phoenix" /\ allocated' = Reachable
        /\ UNCHANGED <<args, shadow, shutDown>>
    BY <1>2, ReachableSound DEF Collect, IInv, Survivors
  <2>2. Range(args) = {}
    BY <2>1 DEF IInv, TypeOK, Range
  <2>. QED  BY <2>1, <2>2, RootsSurvive DEF RootsAllocated
<1>3. CASE BuildString
  <2>1. PICK live \in AfterAutoCollect, a \in Addr :
          allocated' = live \cup {a} /\ args' = Append(args, a)
    BY <1>3 DEF BuildString
  <2>2. Survivors(live) /\ shadow' = shadow /\ shutDown' = shutDown
    BY <1>3, AllocationSound DEF BuildString, IInv
  <2>3. args = <<>>
    <3>1. args \in Seq(Addr) /\ Len(args) < 1
      BY <1>3, BoundsAssumption, LenProperties DEF BuildString, OneStringAtMost, IInv, TypeOK
    <3>. QED  BY <3>1, EmptySeq
  <2>4. Range(args') = {a}
    BY <2>1, <2>3 DEF Range
  <2>. QED  BY <2>1, <2>2, <2>4, RootsSurvive DEF RootsAllocated
<1>4. CASE Return
  <2>1. control = "phoenix" /\ args = <<>> /\ args' = args
    BY <1>4 DEF Return, IInv, TypeOK
  <2>2. CASE Top.frame # Len(shadow)
    BY <1>4, <2>1, <2>2 DEF Return, RootsAllocated
  <2>3. CASE Top.frame = Len(shadow)
    <3>1. /\ shadow' = Front(shadow)
          /\ shutDown' = TRUE \/ (shutDown' = shutDown /\ allocated' = allocated)
      BY <1>4, <2>3 DEF Return, ShutDown
    <3>2. shadow \in Seq(SUBSET Addr) /\ shadow # <<>>
      BY <2>1, TopExists DEF IInv, TypeOK
    <3>3. \A i \in DOMAIN shadow' : i \in DOMAIN shadow /\ shadow'[i] = shadow[i]
      BY <3>1, <3>2, FrontProperties, LenProperties
    <3>4. \A x \in UNION Range(shadow') : x \in UNION Range(shadow)
      BY <3>3, InUnion
    <3>. QED  BY <2>1, <3>1, <3>4 DEF RootsAllocated
  <2>. QED  BY <2>2, <2>3
<1>. QED  BY <1>1, <1>2, <1>3, <1>4

\* A call roots what it finds allocated.
LEMMA EnterRootsAllocated ==
  ASSUME IInv, RootsAllocated, Enter
  PROVE  RootsAllocated'
<1>. DEFINE a == wrappers[callee].ptr
<1>1. /\ control = "marshal" /\ args' = <<>> /\ shadow' = Append(shadow, EntryRoots(a))
      /\ shutDown' = shutDown /\ allocated' = allocated
  BY DEF Enter, heap
<1>2. callee \in DOMAIN wrappers /\ Working(callee)
  BY <1>1 DEF CallPrepared, EntriesAgree, Working, TypeOK, IInv
<1>3. a \in Addr /\ (~shutDown => a \in allocated)
  BY <1>2, WorkingPinned DEF HeapSound, IInv
<1>4. ~shutDown => EntryRoots(a) \subseteq allocated
  BY <1>3 DEF EntryRoots, RootsAllocated, HeapSound, IInv
<1>5. EntryRoots(a) \in SUBSET Addr
  BY <1>3, SequenceTypes DEF EntryRoots, TypeOK, IInv
<1>. HIDE DEF a
<1>6. \A x \in UNION Range(shadow') : x \in UNION Range(shadow) \/ x \in EntryRoots(a)
  <2>1. shadow \in Seq(SUBSET Addr)
    BY DEF TypeOK, IInv
  <2>2. \A i \in DOMAIN shadow' : \/ i \in DOMAIN shadow /\ shadow'[i] = shadow[i]
                                \/ shadow'[i] = EntryRoots(a)
    BY <1>1, <1>5, <2>1, AppendProperties, LenProperties
  <2>. QED  BY <2>2, InUnion
<1>7. Range(args') = {}
  BY <1>1 DEF Range
<1>. QED  BY <1>1, <1>4, <1>6, <1>7 DEF RootsAllocated

\* An overwritten slot roots less.
LEMMA OverwriteRootsAllocated ==
  ASSUME IInv, RootsAllocated, NEW a \in Addr, Overwrite(a)
  PROVE  RootsAllocated'
<1>1. /\ shadow' = [shadow EXCEPT ![Top.frame] = @ \ {a}]
      /\ UNCHANGED <<args, shutDown, allocated>>
  BY DEF Overwrite, heap
<1>2. DOMAIN shadow' = DOMAIN shadow /\ \A i \in DOMAIN shadow : shadow'[i] \subseteq shadow[i]
  BY <1>1
<1>3. \A x \in UNION Range(shadow') : x \in UNION Range(shadow)
  BY <1>2, InUnion
<1>. QED  BY <1>1, <1>3 DEF RootsAllocated

\* No step leaves a root on freed memory.
LEMMA NextRootsAllocated ==
  ASSUME OneStringAtMost, IInv, RootsAllocated, [Next]_vars
  PROVE  RootsAllocated'
<1>. USE DEF phoenix, heap, table
<1>1. ASSUME UNCHANGED <<shadow, shutDown, allocated>>,
             args' = args \/ args' = <<>>
      PROVE  RootsAllocated'
  BY <1>1 DEF RootsAllocated, Range
<1>2. CASE UNCHANGED vars
  BY <1>1, <1>2 DEF vars
<1>3. CASE PhoenixStep
  <2>1. ASSUME NEW a \in Addr, PassToHost(a) PROVE RootsAllocated'
    BY <1>1, <2>1 DEF PassToHost
  <2>2. CASE CallHost
    BY <1>1, <2>2 DEF CallHost
  <2>. QED  BY <1>3, <2>1, <2>2, HeapStepRootsAllocated, OverwriteRootsAllocated DEF PhoenixStep
<1>4. CASE GlueStep
  <2>1. CASE MarshalThrows
    BY <1>1, <2>1 DEF MarshalThrows
  <2>. QED  BY <1>4, <2>1, HeapStepRootsAllocated, EnterRootsAllocated DEF GlueStep
<1>5. CASE HostStep
  BY <1>1, <1>5 DEF HostStep, HostReturns, HostThrows, HostDrops, HostReleases, Invoke
<1>6. CASE EngineStep
  BY <1>1, <1>6 DEF EngineStep, JsCollects, RunFinalizer
<1>. QED  BY <1>2, <1>3, <1>4, <1>5, <1>6 DEF Next

\* Until the shutdown, what a call depends on stays allocated from the conversion of
\* its first argument until it returns, if it has at most one String argument.
THEOREM CallsStayRooted ==
  ASSUME OneStringAtMost
  PROVE  Spec => []CallsRooted
<1>1. Init => RootsAllocated
  BY DEF Init, RootsAllocated, Range
<1>2. IInv /\ RootsAllocated /\ [Next]_vars => RootsAllocated'
  BY NextRootsAllocated
<1>3. IInv /\ RootsAllocated => CallsRooted
  <2>. SUFFICES ASSUME IInv, RootsAllocated, ~shutDown PROVE CallsRooted
    BY DEF CallsRooted
  <2>1. ASSUME NEW i \in DOMAIN stack, stack[i].env # None
        PROVE  stack[i].env \in allocated
    <3>1. stack[i].frame \in DOMAIN shadow /\ stack[i].env \in shadow[stack[i].frame]
      BY <2>1 DEF IInv, ActivationsNest
    <3>. QED  BY <3>1, InUnion DEF RootsAllocated
  <2>2. callee # None => ClosureLive(callee)
    BY DEF IInv, TypeOK, CallPrepared, EntriesAgree, WorkingWrappersCallable
  <2>. QED  BY <2>1, <2>2 DEF CallsRooted, RootsAllocated
<1>. QED  BY <1>1, <1>2, <1>3, IInvHolds, PTL DEF Spec
=============================================================================
