------------------------ MODULE CompiledRootsProofs ------------------------
(***************************************************************************)
(* Compiled code uses nothing freed, whatever methods the programs have    *)
(* that pass the check of RootDiscipline, whatever the sizes, and whenever *)
(* the collector runs.                                                     *)
(***************************************************************************)
EXTENDS RootDiscipline, SequenceLemmas, SequenceTheorems, TLAPS

-----------------------------------------------------------------------------
(* What is reachable in a heap.                                            *)

\* The reachable objects are the least set that has the objects one starts from
\* and is closed under the references in the heap.
LEMMA ReachableLeast ==
  ASSUME NEW h, NEW from
  PROVE  /\ ReachableIn(h, from) \subseteq DOMAIN h
         /\ from \intersect DOMAIN h \subseteq ReachableIn(h, from)
         /\ Closed(h, ReachableIn(h, from))
         /\ \A S \in SUBSET DOMAIN h :
              from \intersect DOMAIN h \subseteq S /\ Closed(h, S) =>
                ReachableIn(h, from) \subseteq S
<1>1. Closed(h, ReachableIn(h, from))
  BY DEF Closed, ReachableIn
<1>. QED  BY <1>1 DEF ReachableIn

\* From more objects, more is reachable.
LEMMA ReachableMonotone ==
  ASSUME NEW h, NEW S, NEW T, S \subseteq T
  PROVE  ReachableIn(h, S) \subseteq ReachableIn(h, T)
<1>1. S \intersect DOMAIN h \subseteq ReachableIn(h, T)
  BY ReachableLeast
<1>. QED  BY <1>1, ReachableLeast

\* A collection that keeps what is reachable from T leaves everything reachable
\* that was reachable from a part of T.
LEMMA ReachableOutlives ==
  ASSUME NEW h, NEW T, NEW S \in SUBSET T,
         NEW h2, h2 = [o \in ReachableIn(h, T) |-> h[o]]
  PROVE  ReachableIn(h, S) \subseteq ReachableIn(h2, S)
<1>. DEFINE X == ReachableIn(h2, S)
<1>1. X \subseteq ReachableIn(h, T) /\ S \intersect DOMAIN h2 \subseteq X /\ Closed(h2, X)
  BY ReachableLeast
<1>2. /\ ReachableIn(h, T) \subseteq DOMAIN h
      /\ T \intersect DOMAIN h \subseteq ReachableIn(h, T)
      /\ Closed(h, ReachableIn(h, T))
  BY ReachableLeast
<1>3. S \intersect DOMAIN h \subseteq X
  BY <1>1, <1>2
<1>4. Closed(h, X)
  <2> SUFFICES ASSUME NEW o \in X, NEW q \in h[o] \intersect DOMAIN h
               PROVE  q \in X
    BY DEF Closed
  <2>1. o \in ReachableIn(h, T) /\ h2[o] = h[o]
    BY <1>1
  <2>2. q \in ReachableIn(h, T)
    BY <2>1, <1>2 DEF Closed
  <2>. QED  BY <2>1, <2>2, <1>1 DEF Closed
<1>5. X \in SUBSET DOMAIN h
  BY <1>1, <1>2
<1>. HIDE DEF X
<1>6. ReachableIn(h, S) \subseteq X
  BY <1>3, <1>4, <1>5, ReachableLeast
<1>. QED  BY <1>6 DEF X

\* In a heap with more objects or more references, what was reachable still is.
LEMMA ReachableGrows ==
  ASSUME NEW h, NEW h2, NEW S, DOMAIN h \subseteq DOMAIN h2,
         \A o \in DOMAIN h : h[o] \subseteq h2[o]
  PROVE  ReachableIn(h, S) \subseteq ReachableIn(h2, S)
<1>. DEFINE X == ReachableIn(h2, S) \intersect DOMAIN h
<1>1. /\ S \intersect DOMAIN h2 \subseteq ReachableIn(h2, S)
      /\ Closed(h2, ReachableIn(h2, S))
  BY ReachableLeast
<1>2. S \intersect DOMAIN h \subseteq X
  BY <1>1
<1>3. Closed(h, X)
  BY <1>1 DEF Closed
<1>4. X \in SUBSET DOMAIN h
  OBVIOUS
<1>. HIDE DEF X
<1>5. ReachableIn(h, S) \subseteq X
  BY <1>2, <1>3, <1>4, ReachableLeast
<1>. QED  BY <1>5 DEF X

\* What a part of R reaches in h, it reaches in h2.
Outlives(h, h2, R) ==
  \A S \in SUBSET R : ReachableIn(h, S) \subseteq ReachableIn(h2, S)

RootsOf(fr) == UNION {{fr[k][s] : s \in DOMAIN fr[k]} : k \in DOMAIN fr}

\* A collection keeps the roots, and all that a part of them reaches.
LEMMA CollectionKeeps ==
  ASSUME NEW h, HeapSound(h), NEW R, R \subseteq DOMAIN h \union {None},
         NEW h2, h2 = [o \in ReachableIn(h, R) |-> h[o]]
  PROVE  /\ HeapSound(h2)
         /\ Outlives(h, h2, R)
         /\ R \subseteq DOMAIN h2 \union {None}
         /\ DOMAIN h2 \subseteq DOMAIN h
<1>1. /\ ReachableIn(h, R) \subseteq DOMAIN h
      /\ R \intersect DOMAIN h \subseteq ReachableIn(h, R)
      /\ Closed(h, ReachableIn(h, R))
  BY ReachableLeast
<1>2. Outlives(h, h2, R)
  BY ReachableOutlives DEF Outlives
<1>3. HeapSound(h2)
  BY <1>1 DEF HeapSound, Closed
<1>. QED  BY <1>1, <1>2, <1>3

\* A new object leaves everything reachable that was.
LEMMA NewObjectKeeps ==
  ASSUME NEW h, HeapSound(h), NEW o \in Obj \ DOMAIN h,
         NEW S, S \subseteq DOMAIN h \union {None}
  PROVE  /\ HeapSound(With(h, o, S))
         /\ \A R : Outlives(h, With(h, o, S), R)
         /\ DOMAIN With(h, o, S) = DOMAIN h \union {o}
<1>. DEFINE h2 == With(h, o, S)
<1>1. /\ DOMAIN h2 = DOMAIN h \union {o}
      /\ \A q \in DOMAIN h2 : h2[q] = IF q = o THEN S ELSE h[q]
  BY DEF With
<1>. HIDE DEF h2
<1>2. HeapSound(h2)
  BY <1>1 DEF HeapSound
<1>3. \A q \in DOMAIN h : h[q] \subseteq h2[q]
  BY <1>1
<1>4. \A R : Outlives(h, h2, R)
  BY <1>1, <1>3, ReachableGrows DEF Outlives
<1>. QED  BY <1>1, <1>2, <1>4 DEF h2

\* ... and so do more references in an object.
LEMMA WriteKeeps ==
  ASSUME NEW h, HeapSound(h), NEW o \in DOMAIN h,
         NEW S, S \subseteq DOMAIN h \union {None},
         NEW h2, h2 = [h EXCEPT ![o] = @ \union S]
  PROVE  /\ HeapSound(h2)
         /\ \A R : Outlives(h, h2, R)
         /\ DOMAIN h2 = DOMAIN h
<1>1. /\ DOMAIN h2 = DOMAIN h
      /\ \A q \in DOMAIN h : h2[q] = IF q = o THEN h[o] \union S ELSE h[q]
  OBVIOUS
<1>2. HeapSound(h2)
  BY <1>1 DEF HeapSound
<1>3. \A q \in DOMAIN h : h[q] \subseteq h2[q]
  BY <1>1
<1>4. \A R : ReachableIn(h, R) \subseteq ReachableIn(h2, R)
  <2>1. PICK g : g = h2
    OBVIOUS
  <2>2. DOMAIN h \subseteq DOMAIN g /\ \A q \in DOMAIN h : h[q] \subseteq g[q]
    BY <1>1, <1>3, <2>1
  <2>3. \A R : ReachableIn(h, R) \subseteq ReachableIn(g, R)
    BY <2>2, ReachableGrows
  <2>. QED  BY <2>1, <2>3
<1>5. \A R : Outlives(h, h2, R)
  BY <1>4 DEF Outlives
<1>. QED  BY <1>1, <1>2, <1>5

\* An allocation finds a heap like that: collected, or as it was.
LEMMA AllocationKeeps ==
  ASSUME HeapSound(heap), FramesSound(heap, frames), NEW h \in HeapBeforeAlloc
  PROVE  /\ HeapSound(h)
         /\ Outlives(heap, h, Roots)
         /\ Roots \subseteq DOMAIN h \union {None}
         /\ DOMAIN h \subseteq DOMAIN heap
<1>1. Roots \subseteq DOMAIN heap \union {None}
  BY DEF Roots, FramesSound
<1>2. CASE h = [o \in ReachableIn(heap, Roots) |-> heap[o]]
  <2>1. PICK R : R = Roots
    OBVIOUS
  <2>2. PICK g : g = heap
    OBVIOUS
  <2>. QED  BY <1>1, <1>2, <2>1, <2>2, CollectionKeeps
<1>3. CASE h = heap
  BY <1>1, <1>3 DEF Outlives
<1>. QED  BY <1>2, <1>3 DEF HeapBeforeAlloc, Reachable

-----------------------------------------------------------------------------
(* What a step leaves true of the functions it does not run.               *)

\* The places of a function are among the roots.
LEMMA PlacesAreRoots ==
  ASSUME NEW fr, NEW f \in Activation, Placed(fr, f)
  PROVE  \A p \in Places(fr, f) : Slots(fr, f, p) \subseteq RootsOf(fr)
<1>1. f.result \in Value
  BY DEF Activation
<1>2. \A v \in Value : fr[f.frame][v] \in RootsOf(fr)
  BY DEF Placed, RootsOf
<1>3. f.inner # 0 => \A s \in DOMAIN fr[f.inner] : fr[f.inner][s] \in RootsOf(fr)
  BY DEF Placed, RootsOf
<1>. QED  BY <1>1, <1>2, <1>3 DEF Slots, Places, OwnPlaces

\* What is known of a function that waits stays known: its frames are the same,
\* and what they reach outlives the step.
LEMMA WaitingStays ==
  ASSUME NEW h, NEW h2, NEW fr, NEW fr2, NEW f, NEW code, NEW R,
         Outlives(h, h2, R),
         \A p \in Places(fr, f) : Slots(fr, f, p) \subseteq R,
         fr2[f.frame] = fr[f.frame],
         f.inner # 0 => fr2[f.inner] = fr[f.inner],
         Known(h, fr, f, code, TRUE)
  PROVE  Known(h2, fr2, f, code, TRUE)
<1>1. PICK e \in Explored(code) : /\ e[1] = f.pc
                                  /\ Describes(e[2], h, fr, f)
                                  /\ Waits(e[2], f, code[f.pc - 1])
  BY DEF Known
<1>2. Places(fr2, f) = Places(fr, f)
  BY DEF Places
<1>3. \A p \in Places(fr, f) : Slots(fr2, f, p) = Slots(fr, f, p)
  BY DEF Slots, Places, OwnPlaces
<1>4. \A p \in Places(fr, f) : \A r \in e[2].holds[p] :
        f.register[r] \in ReachableIn(h2, Slots(fr, f, p)) \union {None}
  <2> SUFFICES ASSUME NEW p \in Places(fr, f), NEW r \in e[2].holds[p]
               PROVE  f.register[r] \in ReachableIn(h2, Slots(fr, f, p)) \union {None}
    OBVIOUS
  <2>1. f.register[r] \in ReachableIn(h, Slots(fr, f, p)) \union {None}
    BY <1>1 DEF Describes
  <2>2. Slots(fr, f, p) \in SUBSET R
    OBVIOUS
  <2>3. ReachableIn(h, Slots(fr, f, p)) \subseteq ReachableIn(h2, Slots(fr, f, p))
    BY <2>2 DEF Outlives
  <2>. QED  BY <2>1, <2>3
<1>5. \A r \in e[2].live : f.register[r] \in DOMAIN h2 \union {None}
  <2> SUFFICES ASSUME NEW r \in e[2].live, r \in HeldRegisters(e[2])
               PROVE  f.register[r] \in DOMAIN h2 \union {None}
    BY <1>1 DEF Waits
  <2>1. PICK p \in Places(fr, f) : r \in e[2].holds[p]
    BY <1>1 DEF HeldRegisters, Describes
  <2>2. f.register[r] \in ReachableIn(h2, Slots(fr, f, p)) \union {None}
    BY <1>4, <2>1
  <2>. QED  BY <2>2, ReachableLeast
<1>6. Describes(e[2], h2, fr2, f)
  BY <1>1, <1>2, <1>3, <1>4, <1>5 DEF Describes
<1>. QED  BY <1>1, <1>6 DEF Known

\* The frames of the functions that wait are older than those of the running one.
LEMMA WaitingFramesAreOlder ==
  ASSUME NEW fr, NEW st \in Seq(Activation), Stacked(fr, st),
         NEW k \in DOMAIN st, NEW l \in DOMAIN st, k < l
  PROVE  /\ st[k].frame < st[l].frame
         /\ st[k].inner # 0 => st[k].inner < st[l].frame
         /\ st[k] \in Activation /\ Placed(fr, st[k])
<1>1. st[k] \in Activation /\ st[l] \in Activation
  BY LenProperties
<1>2. /\ st[k].frame \in Nat /\ st[k].inner \in Nat /\ st[l].frame \in Nat
  BY <1>1 DEF Activation
<1>3. Placed(fr, st[k]) /\ Top(st[k]) < st[l].frame
  BY DEF Stacked
<1>4. st[k].inner # 0 => st[k].inner = st[k].frame + 1
  BY <1>3 DEF Placed
<1>5. Top(st[k]) = IF st[k].inner = 0 THEN st[k].frame ELSE st[k].inner
  BY DEF Top
<1>6. st[k].frame < st[l].frame /\ (st[k].inner # 0 => st[k].inner < st[l].frame)
  BY <1>2, <1>3, <1>4, <1>5
<1>. QED  BY <1>1, <1>3, <1>6

\* The running function becomes f; the frames below its own stay.
ChangesRunning(fr, fr2, st, st2, f) ==
  /\ st \in Seq(Activation) /\ Stacked(fr, st)
  /\ st2 = [st EXCEPT ![Len(st)] = f]
  /\ f \in Activation /\ f.frame = st[Len(st)].frame
  /\ \A k \in DOMAIN fr : k < f.frame => k \in DOMAIN fr2 /\ fr2[k] = fr[k]
  /\ Len(fr2) = Top(f) /\ Placed(fr2, f)

\* Such a step leaves the frames on the shadow stack as the functions are on theirs.
LEMMA RunningStacked ==
  ASSUME NEW fr, NEW fr2, NEW st, NEW st2, NEW f, ChangesRunning(fr, fr2, st, st2, f)
  PROVE  /\ st2 \in Seq(Activation) /\ Len(st2) = Len(st) /\ DOMAIN st2 = DOMAIN st
         /\ Len(st) \in DOMAIN st /\ st2[Len(st)] = f
         /\ \A k \in DOMAIN st : k # Len(st) =>
              /\ st2[k] = st[k]
              /\ fr2[st[k].frame] = fr[st[k].frame]
              /\ st[k].inner # 0 => fr2[st[k].inner] = fr[st[k].inner]
         /\ Stacked(fr2, st2)
<1>. DEFINE n == Len(st)
<1>0. /\ st \in Seq(Activation) /\ Stacked(fr, st)
      /\ st2 = [st EXCEPT ![Len(st)] = f]
      /\ f \in Activation /\ f.frame = st[Len(st)].frame
      /\ \A k \in DOMAIN fr : k < f.frame => k \in DOMAIN fr2 /\ fr2[k] = fr[k]
      /\ Len(fr2) = Top(f) /\ Placed(fr2, f)
  BY DEF ChangesRunning
<1>1. n \in Nat \ {0} /\ DOMAIN st = 1 .. n /\ n \in DOMAIN st
  BY <1>0, EmptySeq, LenProperties DEF Stacked
<1>2. st2 \in Seq(Activation) /\ Len(st2) = n /\ DOMAIN st2 = DOMAIN st
  BY <1>0, <1>1, ReplaceSound
<1>3. st2[n] = f /\ \A k \in DOMAIN st : k # n => st2[k] = st[k]
  BY <1>0, <1>1
<1>4. \A k \in DOMAIN st : k # n => k < n
  BY <1>1
<1>5. ASSUME NEW k \in DOMAIN st, k # n
      PROVE  /\ st[k].frame \in DOMAIN fr2 /\ fr2[st[k].frame] = fr[st[k].frame]
             /\ st[k].inner # 0 => /\ st[k].inner \in DOMAIN fr2
                                   /\ fr2[st[k].inner] = fr[st[k].inner]
             /\ Placed(fr2, st[k])
  <2>1. /\ st[k].frame < st[n].frame
        /\ st[k].inner # 0 => st[k].inner < st[n].frame
        /\ Placed(fr, st[k])
    BY <1>0, <1>1, <1>4, <1>5, WaitingFramesAreOlder
  <2>2. st[k].frame \in DOMAIN fr /\ (st[k].inner # 0 => st[k].inner \in DOMAIN fr)
    BY <2>1 DEF Placed
  <2>. QED  BY <1>0, <2>1, <2>2 DEF Placed
<1>6. \A k \in DOMAIN st : st2[k].frame = st[k].frame /\ Placed(fr2, st2[k])
  BY <1>0, <1>3, <1>5
<1>7. ASSUME NEW k \in DOMAIN st, k # n
      PROVE  st2[k].pc > 0 /\ st2[k + 1].frame = Top(st2[k]) + 1
  <2>1. k + 1 \in DOMAIN st
    BY <1>1, <1>4, <1>7
  <2>2. st[k].pc > 0 /\ st[k + 1].frame = Top(st[k]) + 1
    BY <1>0, <1>7 DEF Stacked
  <2>. QED  BY <1>3, <1>6, <1>7, <2>1, <2>2
<1>8. ASSUME NEW k \in DOMAIN st, NEW l \in DOMAIN st, k < l
      PROVE  Top(st2[k]) < st2[l].frame
  <2>1. k # n
    BY <1>1, <1>8
  <2>2. Top(st[k]) < st[l].frame
    BY <1>0, <1>8 DEF Stacked
  <2>. QED  BY <1>3, <1>6, <2>1, <2>2
<1>9. st2 # << >>
  BY <1>1, <1>2
<1>10. Len(fr2) = Top(st2[Len(st2)])
  BY <1>0, <1>2, <1>3
<1>. HIDE DEF n
<1>11. Stacked(fr2, st2)
  BY <1>2, <1>6, <1>7, <1>8, <1>9, <1>10 DEF Stacked
<1>. QED  BY <1>1, <1>2, <1>3, <1>5, <1>11 DEF n

\* A step that leaves to the running function what it changes of functions and
\* frames keeps the invariant, when the roots' objects outlive it and the
\* running function is sound.
LEMMA RunningStep ==
  ASSUME IInv, UNCHANGED program, NEW f \in Activation, Becomes(f),
         f.frame = Running.frame,
         HeapSound(heap'), Outlives(heap, heap', Roots),
         FramesSound(heap', frames'),
         \A k \in DOMAIN frames :
           k < f.frame => k \in DOMAIN frames' /\ frames'[k] = frames[k],
         Len(frames') = Top(f), Placed(frames', f),
         MethodSound(heap', frames', f, FALSE)
  PROVE  IInv'
<1>1. PICK h, h2, fr, fr2, st, st2 :
        h = heap /\ h2 = heap' /\ fr = frames /\ fr2 = frames' /\ st = stack /\ st2 = stack'
  OBVIOUS
<1>2. ChangesRunning(fr, fr2, st, st2, f) /\ Outlives(h, h2, RootsOf(fr))
  BY <1>1 DEF IInv, Becomes, Running, Roots, RootsOf, ChangesRunning
<1>3. /\ st2 \in Seq(Activation) /\ Len(st2) = Len(st) /\ DOMAIN st2 = DOMAIN st
      /\ Len(st) \in DOMAIN st /\ st2[Len(st)] = f
      /\ \A k \in DOMAIN st : k # Len(st) =>
           /\ st2[k] = st[k]
           /\ fr2[st[k].frame] = fr[st[k].frame]
           /\ st[k].inner # 0 => fr2[st[k].inner] = fr[st[k].inner]
      /\ Stacked(fr2, st2)
  BY <1>2, RunningStacked
<1>4. ASSUME NEW k \in DOMAIN st, k # Len(st)
      PROVE  MethodSound(h2, fr2, st[k], TRUE)
  <2>1. MethodSound(h, fr, st[k], TRUE)
    BY <1>1, <1>4 DEF IInv
  <2>2. st[k] \in Activation /\ Placed(fr, st[k])
    BY <1>2, LenProperties DEF Stacked, ChangesRunning
  <2>3. \A p \in Places(fr, st[k]) : Slots(fr, st[k], p) \subseteq RootsOf(fr)
    BY <2>2, PlacesAreRoots
  <2>4. PICK code, a : code = Emitted(st[k].method) /\ a = st[k]
    OBVIOUS
  <2>5. Known(h, fr, a, code, TRUE) => Known(h2, fr2, a, code, TRUE)
    BY <1>2, <1>3, <1>4, <2>3, <2>4, WaitingStays
  <2>. QED  BY <2>1, <2>4, <2>5 DEF MethodSound
<1>5. \A k \in DOMAIN st2 : MethodSound(h2, fr2, st2[k], k # Len(st2))
  BY <1>1, <1>3, <1>4
<1>6. \A k \in DOMAIN stack' :
        MethodSound(heap, frames, stack[k], k # Len(stack))'
  BY <1>1, <1>5 DEF MethodSound, Emitted
<1>. QED  BY <1>1, <1>3, <1>6 DEF IInv

-----------------------------------------------------------------------------
(* What is done to the shadow stack.                                       *)

LEMMA FramesAreSequence ==
  ASSUME NEW h, NEW fr, FramesSound(h, fr)
  PROVE  /\ Len(fr) \in Nat /\ DOMAIN fr = 1 .. Len(fr)
         /\ RootsOf(fr) \subseteq DOMAIN h \union {None}
<1>. QED  BY LenProperties DEF FramesSound, RootsOf

\* The frames are sound in any heap that has what the roots point to.
LEMMA FramesStay ==
  ASSUME NEW h, NEW h2, NEW fr, FramesSound(h, fr),
         RootsOf(fr) \subseteq DOMAIN h2 \union {None}
  PROVE  FramesSound(h2, fr)
<1>. QED  BY DEF FramesSound, RootsOf

\* Writing p to slot s of frame k, in a heap that has p and what the roots point to.
WritesSlot(h, h2, fr, fr2, k, s, p) ==
  /\ FramesSound(h, fr) /\ RootsOf(fr) \subseteq DOMAIN h2 \union {None}
  /\ k \in DOMAIN fr /\ s \in DOMAIN fr[k] /\ p \in DOMAIN h2 \union {None}
  /\ fr2 = [fr EXCEPT ![k][s] = p]

\* It changes that slot, and leaves the shadow stack sound.
LEMMA SlotWritten ==
  ASSUME NEW h, NEW h2, NEW fr, NEW fr2, NEW k, NEW s, NEW p,
         WritesSlot(h, h2, fr, fr2, k, s, p)
  PROVE  /\ FramesSound(h2, fr2)
         /\ Len(fr2) = Len(fr) /\ DOMAIN fr2 = DOMAIN fr
         /\ \A j \in DOMAIN fr : j # k => fr2[j] = fr[j]
         /\ DOMAIN fr2[k] = DOMAIN fr[k]
         /\ \A t \in DOMAIN fr[k] : fr2[k][t] = IF t = s THEN p ELSE fr[k][t]
<1>0. /\ FramesSound(h, fr) /\ RootsOf(fr) \subseteq DOMAIN h2 \union {None}
      /\ k \in DOMAIN fr /\ s \in DOMAIN fr[k] /\ p \in DOMAIN h2 \union {None}
      /\ fr2 = [fr EXCEPT ![k][s] = p]
  BY DEF WritesSlot
<1>1. Len(fr) \in Nat /\ DOMAIN fr = 1 .. Len(fr)
  BY <1>0, FramesAreSequence
<1>2. /\ DOMAIN fr2 = DOMAIN fr
      /\ \A j \in DOMAIN fr : j # k => fr2[j] = fr[j]
      /\ fr2[k] = [fr[k] EXCEPT ![s] = p]
      /\ fr2 = [j \in DOMAIN fr |-> fr2[j]]
  BY <1>0
<1>3. /\ DOMAIN fr2[k] = DOMAIN fr[k]
      /\ \A t \in DOMAIN fr[k] : fr2[k][t] = IF t = s THEN p ELSE fr[k][t]
  BY <1>0, <1>2
<1>4. fr2 \in Seq({fr2[j] : j \in DOMAIN fr2}) /\ Len(fr2) = Len(fr)
  <2>. DEFINE Y == {fr[j] : j \in DOMAIN fr}
              X == Y \union {fr2[k]}
  <2>1. fr \in Seq(Y)
    BY <1>0 DEF FramesSound
  <2>2. fr = [j \in 1 .. Len(fr) |-> fr[j]] /\ \A j \in 1 .. Len(fr) : fr[j] \in X
    BY <1>1, <2>1, LenProperties
  <2>3. fr2 = [fr EXCEPT ![k] = fr2[k]] /\ fr2[k] \in X
    BY <1>0, <1>2
  <2>. HIDE DEF X, Y
  <2>4. fr \in Seq(X)
    BY <1>1, <2>2, IsASeq
  <2>5. PICK x \in X : x = fr2[k]
    BY <2>3
  <2>6. fr2 \in Seq(X) /\ Len(fr2) = Len(fr)
    BY <1>0, <2>3, <2>4, <2>5, ReplaceSound
  <2>7. fr2 \in Seq(Range(fr2))
    BY <2>6, OfItsRange
  <2>. QED  BY <2>6, <2>7 DEF Range
<1>5. \A j \in DOMAIN fr : \A t \in DOMAIN fr[j] : fr[j][t] \in DOMAIN h2 \union {None}
  BY <1>0 DEF RootsOf
<1>6. \A j \in DOMAIN fr2 : \A t \in DOMAIN fr2[j] : fr2[j][t] \in DOMAIN h2 \union {None}
  <2> SUFFICES ASSUME NEW j \in DOMAIN fr2, NEW t \in DOMAIN fr2[j]
               PROVE  fr2[j][t] \in DOMAIN h2 \union {None}
    OBVIOUS
  <2>1. CASE j = k
    BY <1>0, <1>3, <1>5, <2>1
  <2>2. CASE j # k
    BY <1>2, <1>5, <2>2
  <2>. QED  BY <2>1, <2>2
<1>. QED  BY <1>2, <1>3, <1>4, <1>6 DEF FramesSound

\* Pushing a frame.
LEMMA FramePushed ==
  ASSUME NEW h, NEW fr, FramesSound(h, fr),
         NEW x, \A s \in DOMAIN x : x[s] \in DOMAIN h \union {None}
  PROVE  /\ FramesSound(h, Append(fr, x))
         /\ Len(Append(fr, x)) = Len(fr) + 1
         /\ Len(fr) + 1 \in DOMAIN Append(fr, x)
         /\ Append(fr, x)[Len(fr) + 1] = x
         /\ \A k \in DOMAIN fr : k \in DOMAIN Append(fr, x) /\ Append(fr, x)[k] = fr[k]
<1>. DEFINE X == {fr[k] : k \in DOMAIN fr} \union {x}
            fr2 == Append(fr, x)
<1>1. Len(fr) \in Nat /\ DOMAIN fr = 1 .. Len(fr)
  BY FramesAreSequence
<1>2. fr \in Seq(X)
  <2>1. fr \in Seq({fr[k] : k \in DOMAIN fr}) /\ {fr[k] : k \in DOMAIN fr} \subseteq X
    BY DEF FramesSound
  <2>. HIDE DEF X
  <2>2. fr = [k \in 1 .. Len(fr) |-> fr[k]] /\ \A k \in 1 .. Len(fr) : fr[k] \in X
    BY <1>1, <2>1, LenProperties
  <2>. QED  BY <1>1, <2>2, IsASeq
<1>3. x \in X
  OBVIOUS
<1>4. \A y \in X : \A s \in DOMAIN y : y[s] \in DOMAIN h \union {None}
  BY DEF FramesSound
<1>. HIDE DEF X
<1>5. /\ fr2 \in Seq(X) /\ Len(fr2) = Len(fr) + 1
      /\ \A k \in 1 .. Len(fr) : fr2[k] = fr[k]
      /\ fr2[Len(fr) + 1] = x
      /\ DOMAIN fr2 = 1 .. (Len(fr) + 1)
  BY <1>2, <1>3, AppendProperties, LenProperties
<1>. HIDE DEF fr2
<1>6. fr2 \in Seq({fr2[k] : k \in DOMAIN fr2}) /\ \A k \in DOMAIN fr2 : fr2[k] \in X
  BY <1>5, OfItsRange, LenProperties DEF Range
<1>7. FramesSound(h, fr2)
  BY <1>4, <1>6 DEF FramesSound
<1>8. Len(fr) + 1 \in DOMAIN fr2 /\ \A k \in DOMAIN fr : k \in DOMAIN fr2
  BY <1>1, <1>5
<1>. QED  BY <1>1, <1>5, <1>7, <1>8 DEF fr2

\* Popping the newest frame.
LEMMA FramePopped ==
  ASSUME NEW h, NEW fr, FramesSound(h, fr), Len(fr) # 0,
         NEW fr2, fr2 = SubSeq(fr, 1, Len(fr) - 1)
  PROVE  /\ FramesSound(h, fr2)
         /\ Len(fr2) = Len(fr) - 1
         /\ \A k \in DOMAIN fr : k # Len(fr) => k \in DOMAIN fr2 /\ fr2[k] = fr[k]
<1>. DEFINE X == {fr[k] : k \in DOMAIN fr}
<1>1. fr \in Seq(X) /\ fr # << >> /\ fr2 = Front(fr)
  BY EmptySeq DEF FramesSound, Front
<1>2. \A y \in X : \A s \in DOMAIN y : y[s] \in DOMAIN h \union {None}
  BY DEF FramesSound
<1>3. Len(fr) \in Nat \ {0} /\ DOMAIN fr = 1 .. Len(fr)
  BY FramesAreSequence
<1>. HIDE DEF X
<1>4. /\ fr2 \in Seq(X) /\ Len(fr2) = Len(fr) - 1
      /\ DOMAIN fr2 = 1 .. Len(fr) - 1
      /\ \A k \in DOMAIN fr2 : fr2[k] = fr[k]
  BY <1>1, FrontProperties
<1>5. fr2 \in Seq({fr2[k] : k \in DOMAIN fr2}) /\ \A k \in DOMAIN fr2 : fr2[k] \in X
  <2>1. fr2 \in Seq(X)
    BY <1>4
  <2>2. fr2 \in Seq(Range(fr2)) /\ \A x \in Range(fr2) : x \in X
    BY <2>1, OfItsRange
  <2>. QED  BY <2>2 DEF Range
<1>6. \A k \in DOMAIN fr : k # Len(fr) => k \in DOMAIN fr2
  BY <1>3, <1>4
<1>. QED  BY <1>2, <1>4, <1>5, <1>6 DEF FramesSound

-----------------------------------------------------------------------------
(* The running function.                                                   *)

\* What the invariant says of it.
LEMMA RunningFacts ==
  ASSUME IInv
  PROVE  /\ Running \in Activation
         /\ Len(stack) \in DOMAIN stack
         /\ Placed(frames, Running)
         /\ Len(frames) = Top(Running)
         /\ MethodSound(heap, frames, Running, FALSE)
         /\ HeapSound(heap) /\ FramesSound(heap, frames)
         /\ Len(frames) \in Nat /\ DOMAIN frames = 1 .. Len(frames)
         /\ Roots = RootsOf(frames)
         /\ Roots \subseteq DOMAIN heap \union {None}
<1>1. stack \in Seq(Activation) /\ stack # << >> /\ Stacked(frames, stack)
  BY DEF IInv, Stacked
<1>2. Len(stack) \in Nat \ {0} /\ DOMAIN stack = 1 .. Len(stack)
  BY <1>1, EmptySeq, LenProperties
<1>3. Len(stack) \in DOMAIN stack /\ Running \in Activation
  BY <1>1, <1>2, LenProperties DEF Running
<1>4. MethodSound(heap, frames, Running, FALSE)
  BY <1>3 DEF IInv, Running
<1>5. HeapSound(heap) /\ FramesSound(heap, frames)
  BY DEF IInv
<1>6. PICK h, fr : h = heap /\ fr = frames
  OBVIOUS
<1>7. Len(frames) \in Nat /\ DOMAIN frames = 1 .. Len(frames)
  BY <1>5, <1>6, FramesAreSequence
<1>8. Roots = RootsOf(frames) /\ Roots \subseteq DOMAIN heap \union {None}
  BY <1>5, <1>6, FramesAreSequence DEF Roots, RootsOf
<1>. QED  BY <1>1, <1>3, <1>4, <1>5, <1>7, <1>8 DEF Stacked, Running

LEMMA ActivationFields ==
  ASSUME NEW f \in Activation
  PROVE  /\ f.value \in [Value -> Pointer] /\ f.frame \in Nat
         /\ f.method \in DOMAIN Native \union {"none"} /\ f.pc \in Nat
         /\ f.register \in [Register -> Pointer] /\ f.result \in Value
         /\ f.inner \in Nat
         /\ f = [ value |-> f.value, frame |-> f.frame, method |-> f.method,
                  pc |-> f.pc, register |-> f.register, result |-> f.result,
                  inner |-> f.inner ]
<1>. QED  BY DEF Activation

\* The pointers that the invariant lets anything hold.
LEMMA UsedArePointers ==
  ASSUME NEW h, HeapSound(h)
  PROVE  DOMAIN h \union {None} \subseteq Pointer
<1>. QED  BY DEF HeapSound, Pointer

\* An instruction that defines a value, in a function that is in no method.
LEMMA DefineStep ==
  ASSUME IInv, Idle, UNCHANGED program,
         HeapSound(heap'), Outlives(heap, heap', Roots),
         Roots \subseteq DOMAIN heap' \union {None},
         NEW v \in Value, NEW p \in DOMAIN heap' \union {None}, Defines(v, p)
  PROVE  IInv'
<1>1. PICK h, h2, fr, fr2, g :
        h = heap /\ h2 = heap' /\ fr = frames /\ fr2 = frames' /\ g = Running
  OBVIOUS
<1>2. /\ g \in Activation /\ Placed(fr, g) /\ Len(fr) = Top(g)
      /\ FramesSound(h, fr) /\ RootsOf(fr) \subseteq DOMAIN h2 \union {None}
      /\ g.pc = 0 /\ g.inner = 0
  BY <1>1, RunningFacts DEF Idle, Placed
<1>3. p \in Pointer
  BY UsedArePointers
<1>4. PICK f : f = [g EXCEPT !.value[v] = p]
  OBVIOUS
<1>5. /\ f \in Activation /\ f.frame = g.frame /\ f.inner = 0 /\ f.pc = 0
      /\ f.value = [g.value EXCEPT ![v] = p]
  BY <1>2, <1>3, <1>4, ActivationFields DEF Activation
<1>6. /\ Becomes(f) /\ fr2 = [fr EXCEPT ![g.frame][v] = p]
  BY <1>1, <1>4 DEF Defines, emit_set_root
<1>7. g.frame \in DOMAIN fr /\ v \in DOMAIN fr[g.frame] /\ DOMAIN fr[g.frame] = Value
  BY <1>2 DEF Placed
<1>8. /\ FramesSound(h2, fr2)
      /\ Len(fr2) = Len(fr) /\ DOMAIN fr2 = DOMAIN fr
      /\ \A j \in DOMAIN fr : j # g.frame => fr2[j] = fr[j]
      /\ DOMAIN fr2[g.frame] = DOMAIN fr[g.frame]
      /\ \A t \in DOMAIN fr[g.frame] : fr2[g.frame][t] = IF t = v THEN p ELSE fr[g.frame][t]
  <2>1. PICK k : k = g.frame
    OBVIOUS
  <2>2. WritesSlot(h, h2, fr, fr2, k, v, p)
    BY <1>1, <1>2, <1>6, <1>7, <2>1 DEF WritesSlot
  <2>. QED  BY <2>1, <2>2, SlotWritten
<1>9. Placed(fr2, f)
  <2>1. \A u \in Value : f.value[u] = IF u = v THEN p ELSE g.value[u]
    BY <1>2, <1>5, ActivationFields
  <2>2. \A u \in Value : g.value[u] \in {None, fr[g.frame][u]}
    BY <1>2 DEF Placed
  <2>3. \A u \in Value : f.value[u] \in {None, fr2[f.frame][u]}
    BY <1>5, <1>7, <1>8, <2>1, <2>2
  <2>. QED  BY <1>5, <1>7, <1>8, <2>3 DEF Placed
<1>10. Len(fr2) = Top(f)
  BY <1>2, <1>5, <1>8 DEF Top
<1>11. MethodSound(h2, fr2, f, FALSE)
  BY <1>5 DEF MethodSound
<1>12. \A k \in DOMAIN fr : k < f.frame => k \in DOMAIN fr2 /\ fr2[k] = fr[k]
  <2>1. \A k \in DOMAIN fr : k < f.frame => k # f.frame
    BY <1>2, <1>5, FramesAreSequence, ActivationFields
  <2>. QED  BY <1>5, <1>8, <2>1
<1>. QED  BY <1>1, <1>5, <1>6, <1>8, <1>9, <1>10, <1>11, <1>12, RunningStep

LEMMA ValuesAreRooted ==
  ASSUME IInv, NEW v \in Value
  PROVE  /\ Running.value[v] \in {None, frames[Running.frame][v]}
         /\ Running.value[v] \in Roots \union {None}
         /\ Running.value[v] \in DOMAIN heap \union {None}
<1>1. Placed(frames, Running) /\ Roots \subseteq DOMAIN heap \union {None}
  BY RunningFacts
<1>2. frames[Running.frame][v] \in Roots
  BY <1>1 DEF Placed, Roots
<1>. QED  BY <1>1, <1>2 DEF Placed

LEMMA SameHeapOutlives ==
  ASSUME NEW h, NEW R
  PROVE  Outlives(h, h, R)
<1>. QED  BY DEF Outlives

LEMMA GetFieldStep ==
  ASSUME IInv, NEW v \in Value, NEW u \in Value, GetField(v, u)
  PROVE  IInv'
<1>1. PICK p \in heap[Running.value[u]] : Defines(v, p)
  BY DEF GetField
<1>2. p \in DOMAIN heap \union {None}
  BY RunningFacts DEF GetField, HeapSound
<1>3. UNCHANGED <<program, heap>> /\ Idle
  BY DEF GetField
<1>4. Outlives(heap, heap', Roots) /\ HeapSound(heap') /\ Roots \subseteq DOMAIN heap' \union {None}
  BY <1>3, RunningFacts DEF Outlives
<1>. QED  BY <1>1, <1>2, <1>3, <1>4, DefineStep

LEMMA BlockParamStep ==
  ASSUME IInv, NEW v \in Value, NEW u \in Value, BlockParam(v, u)
  PROVE  IInv'
<1>1. PICK p : p = Running.value[u]
  OBVIOUS
<1>2. p \in DOMAIN heap \union {None}
  BY <1>1, ValuesAreRooted
<1>3. UNCHANGED <<program, heap>> /\ Idle /\ Defines(v, p)
  BY <1>1 DEF BlockParam
<1>4. Outlives(heap, heap', Roots) /\ HeapSound(heap') /\ Roots \subseteq DOMAIN heap' \union {None}
  BY <1>3, RunningFacts DEF Outlives
<1>. QED  BY <1>2, <1>3, <1>4, DefineStep

LEMMA ConstructStep ==
  ASSUME IInv, NEW v \in Value, Construct(v)
  PROVE  IInv'
<1>1. PICK h \in HeapBeforeAlloc, U \in SUBSET (Value \ {v}) :
        \E o \in Obj \ DOMAIN h :
          /\ heap' = With(h, o, {Running.value[u] : u \in U})
          /\ Defines(v, o)
  BY DEF Construct
<1>2. PICK o \in Obj \ DOMAIN h :
        /\ heap' = With(h, o, {Running.value[u] : u \in U})
        /\ Defines(v, o)
  BY <1>1
<1>3. /\ HeapSound(h) /\ Outlives(heap, h, Roots)
      /\ Roots \subseteq DOMAIN h \union {None}
  BY RunningFacts, AllocationKeeps
<1>4. PICK S, R : S = {Running.value[u] : u \in U} /\ R = Roots
  OBVIOUS
<1>5. S \subseteq DOMAIN h \union {None}
  BY <1>3, <1>4, ValuesAreRooted
<1>6. /\ HeapSound(With(h, o, S))
      /\ Outlives(h, With(h, o, S), R)
      /\ DOMAIN With(h, o, S) = DOMAIN h \union {o}
  BY <1>3, <1>5, NewObjectKeeps
<1>7. Outlives(heap, heap', Roots)
  BY <1>2, <1>3, <1>4, <1>6 DEF Outlives
<1>8. /\ HeapSound(heap') /\ Roots \subseteq DOMAIN heap' \union {None}
      /\ o \in DOMAIN heap' \union {None}
  BY <1>2, <1>3, <1>4, <1>6
<1>9. Idle /\ UNCHANGED program
  BY DEF Construct
<1>. QED  BY <1>2, <1>7, <1>8, <1>9, DefineStep

\* A program's methods are ones that passed the check.
LEMMA MethodChecked ==
  ASSUME IInv, NEW m \in program.methods
  PROVE  Certifies(Explored(Emitted(m)), Emitted(m)) /\ m \in DOMAIN Native
<1>1. program \in Programs
  BY DEF IInv
<1>2. PassesCheck(Emitted(m))
  BY <1>1, MethodsPassCheck DEF Emitted
<1>. QED  BY <1>1, <1>2, ProgramAssumption DEF PassesCheck

\* What the check takes for known where a method begins, is true there.
LEMMA EntryDescribes ==
  ASSUME NEW h, NEW fr, FramesSound(h, fr),
         NEW f \in Activation, Placed(fr, f), f.inner = 0,
         \A r \in Register : \/ f.register[r] = None
                             \/ /\ f.register[r] \in DOMAIN h
                                /\ \E v \in Value \ {f.result} : f.register[r] = fr[f.frame][v]
  PROVE  Describes(Entry, h, fr, f)
<1>1. /\ Places(fr, f) = OwnPlaces /\ DOMAIN Entry.holds = OwnPlaces
      /\ Entry.live = Register
      /\ Entry.holds[Values] = Register /\ Entry.holds[ResultSlot] = {}
  BY DEF Places, Entry, OwnPlaces, Values, ResultSlot
<1>2. \A r \in Register :
        f.register[r] \in ReachableIn(h, Slots(fr, f, Values)) \union {None}
  BY ReachableLeast DEF Slots
<1>. QED  BY <1>1, <1>2 DEF Describes, OwnPlaces

LEMMA StartMethodStep ==
  ASSUME IInv, NEW v \in Value, NEW m \in program.methods,
         NEW u \in Value, NEW w \in Value, StartMethod(v, m, u, w)
  PROVE  IInv'
<1>1. PICK h, fr, g : h = heap /\ fr = frames /\ g = Running
  OBVIOUS
<1>2. /\ g \in Activation /\ Placed(fr, g) /\ Len(fr) = Top(g)
      /\ HeapSound(h) /\ FramesSound(h, fr)
      /\ g.pc = 0 /\ g.inner = 0 /\ v \notin {u, w}
  BY <1>1, RunningFacts DEF StartMethod, Idle, Placed
<1>3. PICK reg : reg = [NoRegisters EXCEPT !.recv = g.value[u], !.init = g.value[w]]
  OBVIOUS
<1>4. /\ reg \in [Register -> Pointer]
      /\ \A r \in Register : reg[r] \in {None, g.value[u], g.value[w]}
  <2>1. g.value[u] \in Pointer /\ g.value[w] \in Pointer
    BY <1>2, ActivationFields
  <2>2. NoRegisters \in [Register -> {None}] /\ None \in Pointer
    BY DEF NoRegisters, Pointer
  <2>. QED  BY <1>3, <2>1, <2>2
<1>5. PICK f : f = [g EXCEPT !.method = m, !.pc = 1, !.result = v, !.value[v] = None,
                             !.register = reg]
  OBVIOUS
<1>6. Becomes(f) /\ UNCHANGED <<program, heap, frames>>
  BY <1>1, <1>3, <1>5 DEF StartMethod
<1>7. m \in DOMAIN Native /\ Certifies(Explored(Emitted(m)), Emitted(m))
  BY MethodChecked
<1>8. /\ f \in Activation /\ f.frame = g.frame /\ f.inner = 0 /\ f.pc = 1
      /\ f.method = m /\ f.result = v /\ f.register = reg
      /\ \A t \in Value : f.value[t] = IF t = v THEN None ELSE g.value[t]
  <2>1. None \in Pointer
    BY DEF Pointer
  <2>. QED  BY <1>2, <1>4, <1>5, <1>7, <2>1, ActivationFields DEF Activation
<1>9. Placed(fr, f)
  BY <1>2, <1>8 DEF Placed
<1>10. /\ g.value[u] \in {None, fr[f.frame][u]} /\ g.value[w] \in {None, fr[f.frame][w]}
       /\ g.value[u] \in DOMAIN h \union {None} /\ g.value[w] \in DOMAIN h \union {None}
  BY <1>1, <1>8, ValuesAreRooted
<1>11. Describes(Entry, h, fr, f)
  <2>1. \A r \in Register : \/ f.register[r] = None
                            \/ /\ f.register[r] \in DOMAIN h
                               /\ \E t \in Value \ {f.result} : f.register[r] = fr[f.frame][t]
    BY <1>2, <1>4, <1>8, <1>10
  <2>. QED  BY <1>2, <1>8, <1>9, <2>1, EntryDescribes
<1>12. MethodSound(h, fr, f, FALSE)
  <2>1. PICK e \in Explored(Emitted(m)) : e = <<1, Entry>>
    BY <1>7 DEF Certifies
  <2>2. Known(h, fr, f, Emitted(f.method), FALSE)
    BY <1>8, <1>11, <2>1 DEF Known
  <2>. QED  BY <1>8, <2>2 DEF MethodSound
<1>13. Len(fr) = Top(f)
  BY <1>2, <1>8 DEF Top
<1>14. Outlives(heap, heap', Roots)
  BY <1>6 DEF Outlives
<1>. QED  BY <1>1, <1>2, <1>6, <1>8, <1>9, <1>12, <1>13, <1>14, RunningStep

-----------------------------------------------------------------------------
(* Operations of a method.                                                 *)

\* Where a method is, the check has admitted the operation there, and what it knows
\* there is true; it also knows what follows.
LEMMA OperationFacts ==
  ASSUME IInv, ~Idle
  PROVE  /\ Running.pc \in Nat \ {0}
         /\ Running.method \in program.methods
         /\ Running.value[Running.result] = None
         /\ \E fact :
              /\ Describes(fact, heap, frames, Running)
              /\ Admits(Current, fact)
              /\ Successors(Current, Running.pc, fact) \subseteq
                   Explored(Emitted(Running.method))
<1>1. Running \in Activation /\ MethodSound(heap, frames, Running, FALSE)
  BY RunningFacts
<1>2. Running.pc \in Nat \ {0}
  BY <1>1, ActivationFields DEF Idle
<1>3. Running.pc > 0
  BY <1>2
<1>4. /\ Running.method \in program.methods
      /\ Running.value[Running.result] = None
      /\ Known(heap, frames, Running, Emitted(Running.method), FALSE)
  BY <1>1, <1>3 DEF MethodSound
<1>5. PICK e \in Explored(Emitted(Running.method)) :
        /\ e[1] = Running.pc
        /\ Describes(e[2], heap, frames, Running)
  BY <1>4 DEF Known
<1>6. /\ Admits(Current, e[2])
      /\ Successors(Current, Running.pc, e[2]) \subseteq Explored(Emitted(Running.method))
  BY <1>4, <1>5, MethodChecked DEF Certifies, Current, Instruction
<1>. QED  BY <1>2, <1>4, <1>5, <1>6

LEMMA SuccessorFacts ==
  ASSUME NEW op, NEW pc, NEW f
  PROVE  /\ op.op \notin {"goto", "result", "end"} =>
              <<pc + 1, After(op, f)>> \in Successors(op, pc, f)
         /\ op.op \in {"each", "branch", "goto"} =>
              <<op.exit, f>> \in Successors(op, pc, f)
<1>. QED  BY DEF Successors

\* What an operation leaves alone of the function.
Continues(g, f) ==
  /\ f \in Activation
  /\ f.frame = g.frame /\ f.method = g.method
  /\ f.value = g.value /\ f.result = g.result

\* An operation after which the check knows where the method is.
LEMMA OperationStep ==
  ASSUME IInv, ~Idle, UNCHANGED program,
         NEW f, Continues(Running, f), Becomes(f),
         HeapSound(heap'), Outlives(heap, heap', Roots),
         FramesSound(heap', frames'), Len(frames') = Top(f),
         \A k \in DOMAIN frames :
           k < f.frame => k \in DOMAIN frames' /\ frames'[k] = frames[k],
         f.frame \in DOMAIN frames' /\ DOMAIN frames'[f.frame] = Value,
         \A v \in Value \ {f.result} : frames'[f.frame][v] = frames[f.frame][v],
         f.inner # 0 => /\ f.inner = f.frame + 1
                        /\ f.inner \in DOMAIN frames'
                        /\ SlotNumbers(DOMAIN frames'[f.inner]),
         NEW fact, <<f.pc, fact>> \in Explored(Emitted(f.method)),
         Describes(fact, heap', frames', f)
  PROVE  IInv'
<1>1. /\ Running \in Activation /\ Placed(frames, Running)
      /\ Running.method \in program.methods
      /\ Running.value[Running.result] = None
  BY RunningFacts, OperationFacts
<1>2. Certifies(Explored(Emitted(f.method)), Emitted(f.method))
  BY <1>1, MethodChecked DEF Continues
<1>3. f.pc \in Nat \ {0}
  <2>1. PICK e \in Explored(Emitted(f.method)) : e = <<f.pc, fact>>
    OBVIOUS
  <2>2. e[1] \in Nat \ {0} /\ e[1] = f.pc
    BY <1>2, <2>1 DEF Certifies
  <2>. QED  BY <2>2
<1>4. Placed(frames', f)
  <2>1. \A v \in Value : f.value[v] \in {None, frames'[f.frame][v]}
    BY <1>1 DEF Placed, Continues
  <2>. QED  BY <1>3, <2>1 DEF Placed
<1>5. MethodSound(heap', frames', f, FALSE)
  <2>1. PICK e \in Explored(Emitted(f.method)) : e = <<f.pc, fact>>
    OBVIOUS
  <2>2. Known(heap', frames', f, Emitted(f.method), FALSE)
    BY <2>1 DEF Known
  <2>. QED  BY <1>1, <2>2 DEF MethodSound, Continues
<1>. QED  BY <1>4, <1>5, RunningStep DEF Continues

\* ... which leaves the shadow stack alone.
LEMMA RegisterStep ==
  ASSUME IInv, ~Idle, UNCHANGED <<program, frames>>,
         NEW f, Continues(Running, f), f.inner = Running.inner, Becomes(f),
         HeapSound(heap'), Outlives(heap, heap', Roots),
         Roots \subseteq DOMAIN heap' \union {None},
         NEW fact, <<f.pc, fact>> \in Explored(Emitted(f.method)),
         Describes(fact, heap', frames, f)
  PROVE  IInv'
<1>1. /\ Running \in Activation /\ Placed(frames, Running)
      /\ FramesSound(heap, frames) /\ Len(frames) = Top(Running)
      /\ Roots = RootsOf(frames)
  BY RunningFacts
<1>2. PICK h, h2, fr : h = heap /\ h2 = heap' /\ fr = frames
  OBVIOUS
<1>3. FramesSound(heap', frames')
  BY <1>1, <1>2, FramesStay
<1>4. /\ f.frame \in DOMAIN frames' /\ DOMAIN frames'[f.frame] = Value
      /\ f.inner # 0 => /\ f.inner = f.frame + 1
                        /\ f.inner \in DOMAIN frames'
                        /\ SlotNumbers(DOMAIN frames'[f.inner])
  BY <1>1 DEF Placed, Continues
<1>5. Len(frames') = Top(f)
  BY <1>1 DEF Top, Continues
<1>6. /\ \A k \in DOMAIN frames : k < f.frame => k \in DOMAIN frames' /\ frames'[k] = frames[k]
      /\ \A v \in Value \ {f.result} : frames'[f.frame][v] = frames[f.frame][v]
      /\ Describes(fact, heap', frames', f)
  OBVIOUS
<1>. QED  BY <1>3, <1>4, <1>5, <1>6, OperationStep

\* The function moves on, with a register set.
LEMMA SetFields ==
  ASSUME NEW g \in Activation, NEW r \in Register, NEW p \in Pointer,
         NEW f, f = Advanced([g EXCEPT !.register[r] = p])
  PROVE  /\ Continues(g, f) /\ f.inner = g.inner /\ f.pc = g.pc + 1
         /\ \A q \in Register : f.register[q] = IF q = r THEN p ELSE g.register[q]
<1>. PICK f1 : f1 = [g EXCEPT !.register[r] = p]
  OBVIOUS
<1>1. /\ f1 \in Activation /\ f1.frame = g.frame /\ f1.inner = g.inner /\ f1.pc = g.pc
      /\ f1.method = g.method /\ f1.value = g.value /\ f1.result = g.result
      /\ f1.register = [g.register EXCEPT ![r] = p]
  BY ActivationFields DEF Activation
<1>2. f1.pc + 1 \in Nat
  BY <1>1, ActivationFields
<1>3. /\ f \in Activation /\ f.frame = f1.frame /\ f.inner = f1.inner
      /\ f.pc = f1.pc + 1 /\ f.register = f1.register
      /\ f.method = f1.method /\ f.value = f1.value /\ f.result = f1.result
  BY <1>1, <1>2 DEF Activation, Advanced
<1>4. \A q \in Register : f.register[q] = IF q = r THEN p ELSE g.register[q]
  BY <1>1, <1>3, ActivationFields
<1>. QED  BY <1>1, <1>3, <1>4 DEF Continues

\* ... or with nothing else changed.
LEMMA AdvanceFields ==
  ASSUME NEW g \in Activation, NEW f, f = Advanced(g)
  PROVE  /\ Continues(g, f) /\ f.inner = g.inner /\ f.pc = g.pc + 1
         /\ f.register = g.register
<1>1. g.pc + 1 \in Nat
  BY ActivationFields
<1>. QED  BY <1>1 DEF Activation, Advanced, Continues

\* The function jumps.
LEMMA JumpFields ==
  ASSUME NEW g \in Activation, NEW target \in Nat,
         NEW f, f = [g EXCEPT !.pc = target]
  PROVE  /\ Continues(g, f) /\ f.inner = g.inner /\ f.pc = target
         /\ f.register = g.register
<1>. QED  BY DEF Activation, Continues

\* A function that has the same frames has the same places.
SameFrames(f, f2) == f2.frame = f.frame /\ f2.inner = f.inner /\ f2.result = f.result

LEMMA SamePlaces ==
  ASSUME NEW fr, NEW f, NEW f2, SameFrames(f, f2)
  PROVE  /\ Places(fr, f2) = Places(fr, f)
         /\ \A p : Slots(fr, f2, p) = Slots(fr, f, p)
<1>. QED  BY DEF SameFrames, Places, Slots

\* What is known stays true while the heap grows.
LEMMA StaysDescribed ==
  ASSUME NEW fact, NEW h, NEW h2, NEW fr, NEW f, NEW f2,
         Describes(fact, h, fr, f), SameFrames(f, f2), f2.register = f.register,
         Outlives(h, h2, RootsOf(fr)), DOMAIN h \subseteq DOMAIN h2,
         f \in Activation, Placed(fr, f)
  PROVE  Describes(fact, h2, fr, f2)
<1>1. /\ Places(fr, f2) = Places(fr, f)
      /\ \A p : Slots(fr, f2, p) = Slots(fr, f, p)
  BY SamePlaces
<1>2. \A p \in Places(fr, f) :
        ReachableIn(h, Slots(fr, f, p)) \subseteq ReachableIn(h2, Slots(fr, f, p))
  BY PlacesAreRoots DEF Outlives
<1>3. \A r \in fact.live : f2.register[r] \in DOMAIN h2 \union {None}
  BY DEF Describes
<1>4. \A p \in Places(fr, f) : \A r \in fact.holds[p] :
        f2.register[r] \in ReachableIn(h2, Slots(fr, f, p)) \union {None}
  BY <1>2 DEF Describes
<1>. QED  BY <1>1, <1>3, <1>4 DEF Describes

\* After a collection what is held is still there, and so is what was made since.
LEMMA CollectedDescribes ==
  ASSUME NEW fact, NEW h, NEW h2, NEW fr, NEW f, NEW f2, NEW made \in SUBSET Register,
         Describes(fact, h, fr, f), SameFrames(f, f2),
         Outlives(h, h2, RootsOf(fr)), f \in Activation, Placed(fr, f),
         \A r \in Register \ made : f2.register[r] = f.register[r],
         \A r \in made : f2.register[r] \in DOMAIN h2 \union {None}
  PROVE  Describes(Collected(fact, made), h2, fr, f2)
<1>. DEFINE fact2 == Collected(fact, made)
<1>1. /\ Places(fr, f2) = Places(fr, f)
      /\ \A p : Slots(fr, f2, p) = Slots(fr, f, p)
  BY SamePlaces
<1>2. \A p \in Places(fr, f) :
        ReachableIn(h, Slots(fr, f, p)) \subseteq ReachableIn(h2, Slots(fr, f, p))
  BY PlacesAreRoots DEF Outlives
<1>3. /\ DOMAIN fact.holds = Places(fr, f)
      /\ \A p \in Places(fr, f) : fact.holds[p] \subseteq Register
  BY DEF Describes
<1>4. /\ fact2.live = HeldRegisters(fact) \union made
      /\ DOMAIN fact2.holds = Places(fr, f)
      /\ \A p \in Places(fr, f) : fact2.holds[p] = fact.holds[p] \ made
  BY <1>3 DEF Collected
<1>5. \A p \in Places(fr, f) : \A r \in fact.holds[p] \ made :
        f2.register[r] \in ReachableIn(h2, Slots(fr, f, p)) \union {None}
  BY <1>2, <1>3 DEF Describes
<1>6. HeldRegisters(fact) \subseteq Register
  BY <1>3 DEF HeldRegisters
<1>7. \A r \in HeldRegisters(fact) \union made : f2.register[r] \in DOMAIN h2 \union {None}
  <2> SUFFICES ASSUME NEW r \in HeldRegisters(fact), r \notin made
               PROVE  f2.register[r] \in DOMAIN h2 \union {None}
    OBVIOUS
  <2>1. PICK p \in Places(fr, f) : r \in fact.holds[p]
    BY <1>3 DEF HeldRegisters
  <2>2. f2.register[r] \in ReachableIn(h2, Slots(fr, f, p)) \union {None}
    BY <1>5, <2>1
  <2>. QED  BY <2>2, ReachableLeast
<1>. HIDE DEF fact2
<1>8. Describes(fact2, h2, fr, f2)
  BY <1>1, <1>3, <1>4, <1>5, <1>6, <1>7 DEF Describes
<1>. QED  BY <1>8 DEF fact2

\* A register gets a pointer that is live if from is, and held where from is.
LEMMA CopiedDescribes ==
  ASSUME NEW fact, NEW h, NEW fr, NEW f, NEW f2,
         NEW to \in Register, NEW from \in Register, NEW fact2,
         Describes(fact, h, fr, f), SameFrames(f, f2),
         fact2.live = Copied(fact.live, from, to),
         DOMAIN fact2.holds = Places(fr, f),
         \A p \in Places(fr, f) : fact2.holds[p] = Copied(fact.holds[p], from, to),
         \A r \in Register \ {to} : f2.register[r] = f.register[r],
         from \in fact.live => f2.register[to] \in DOMAIN h \union {None},
         \A p \in Places(fr, f) : from \in fact.holds[p] =>
           f2.register[to] \in ReachableIn(h, Slots(fr, f, p)) \union {None}
  PROVE  Describes(fact2, h, fr, f2)
<1>1. /\ Places(fr, f2) = Places(fr, f)
      /\ \A p : Slots(fr, f2, p) = Slots(fr, f, p)
  BY SamePlaces
<1>2. /\ DOMAIN fact2.holds = Places(fr, f)
      /\ fact2.live = Copied(fact.live, from, to)
      /\ \A p \in Places(fr, f) : fact2.holds[p] = Copied(fact.holds[p], from, to)
  BY DEF Describes
<1>3. /\ fact2.live \subseteq Register
      /\ \A r \in fact2.live : f2.register[r] \in DOMAIN h \union {None}
  BY <1>2 DEF Describes, Copied
<1>4. \A p \in Places(fr, f) :
        /\ fact2.holds[p] \subseteq Register
        /\ \A r \in fact2.holds[p] :
             f2.register[r] \in ReachableIn(h, Slots(fr, f, p)) \union {None}
  BY <1>2 DEF Describes, Copied
<1>. QED  BY <1>1, <1>2, <1>3, <1>4 DEF Describes

LEMMA SwappedDescribes ==
  ASSUME NEW fact, NEW h, NEW fr, NEW f, NEW f2,
         NEW a \in Register, NEW b \in Register, NEW fact2,
         Describes(fact, h, fr, f), SameFrames(f, f2),
         fact2 = [ live  |-> Swapped(fact.live, a, b),
                   holds |-> [p \in DOMAIN fact.holds |-> Swapped(fact.holds[p], a, b)] ],
         \A r \in Register \ {a, b} : f2.register[r] = f.register[r],
         f2.register[a] = f.register[b], f2.register[b] = f.register[a]
  PROVE  Describes(fact2, h, fr, f2)
<1>1. /\ Places(fr, f2) = Places(fr, f)
      /\ \A p : Slots(fr, f2, p) = Slots(fr, f, p)
  BY SamePlaces
<1>2. /\ DOMAIN fact2.holds = Places(fr, f)
      /\ fact2.live = Swapped(fact.live, a, b)
      /\ \A p \in Places(fr, f) : fact2.holds[p] = Swapped(fact.holds[p], a, b)
  BY DEF Describes
<1>3. /\ fact2.live \subseteq Register
      /\ \A r \in fact2.live : f2.register[r] \in DOMAIN h \union {None}
  BY <1>2 DEF Describes, Swapped
<1>4. \A p \in Places(fr, f) :
        /\ fact2.holds[p] \subseteq Register
        /\ \A r \in fact2.holds[p] :
             f2.register[r] \in ReachableIn(h, Slots(fr, f, p)) \union {None}
  BY <1>2 DEF Describes, Swapped
<1>. QED  BY <1>1, <1>2, <1>3, <1>4 DEF Describes

\* What the check knows after each kind of operation.
LEMMA AfterFacts ==
  ASSUME NEW op, NEW f
  PROVE  /\ op.op \in {"alloc", "call"} => After(op, f) = Collected(f, {op.to})
         /\ op.op = "ask" => After(op, f) = Collected(f, {})
         /\ op.op \in {"load", "move", "each"} => After(op, f) =
              [ live  |-> Copied(f.live, op.from, op.to),
                holds |-> [p \in DOMAIN f.holds |-> Copied(f.holds[p], op.from, op.to)] ]
         /\ op.op = "swap" => After(op, f) =
              [ live  |-> Swapped(f.live, op.from, op.to),
                holds |-> [p \in DOMAIN f.holds |-> Swapped(f.holds[p], op.from, op.to)] ]
         /\ op.op = "rootResult" => After(op, f) = WrittenTo(f, ResultSlot, op.from)
         /\ op.op = "rootAt" => After(op, f) = WrittenTo(f, op.slot, op.from)
         /\ op.op = "push" => After(op, f) =
              [ live  |-> f.live,
                holds |-> [p \in OwnPlaces \union 1 .. op.slots |->
                             IF p \in OwnPlaces THEN f.holds[p] ELSE {}] ]
         /\ op.op = "pop" => After(op, f) =
              [ live |-> f.live, holds |-> [p \in OwnPlaces |-> f.holds[p]] ]
         /\ op.op \in {"copy", "store", "branch"} => After(op, f) = f
<1>1. op.op \in {"alloc", "call"} => After(op, f) = Collected(f, {op.to})
  BY DEF After
<1>2. op.op = "ask" => After(op, f) = Collected(f, {})
  BY DEF After
<1>3. op.op \in {"load", "move", "each"} => After(op, f) =
        [ live  |-> Copied(f.live, op.from, op.to),
          holds |-> [p \in DOMAIN f.holds |-> Copied(f.holds[p], op.from, op.to)] ]
  BY DEF After
<1>4. op.op = "swap" => After(op, f) =
        [ live  |-> Swapped(f.live, op.from, op.to),
          holds |-> [p \in DOMAIN f.holds |-> Swapped(f.holds[p], op.from, op.to)] ]
  BY DEF After
<1>5. op.op = "rootResult" => After(op, f) = WrittenTo(f, ResultSlot, op.from)
  BY DEF After
<1>6. op.op = "rootAt" => After(op, f) = WrittenTo(f, op.slot, op.from)
  BY DEF After
<1>7. op.op = "push" => After(op, f) =
        [ live  |-> f.live,
          holds |-> [p \in OwnPlaces \union 1 .. op.slots |->
                       IF p \in OwnPlaces THEN f.holds[p] ELSE {}] ]
  BY DEF After
<1>8. op.op = "pop" => After(op, f) =
        [ live |-> f.live, holds |-> [p \in OwnPlaces |-> f.holds[p]] ]
  BY DEF After
<1>9. op.op \in {"copy", "store", "branch"} => After(op, f) = f
  BY DEF After
<1>. QED  BY <1>1, <1>2, <1>3, <1>4, <1>5, <1>6, <1>7, <1>8, <1>9

LEMMA StepAllocKeeps ==
  ASSUME IInv, StepAlloc
  PROVE  IInv'
<1>1. ~Idle /\ Current.op = "alloc" /\ UNCHANGED <<program, frames>>
  BY DEF StepAlloc, Runs
<1>2. PICK h2 \in HeapBeforeAlloc, o \in Obj :
        /\ o \notin DOMAIN h2 /\ heap' = With(h2, o, {}) /\ Sets(Current.to, o)
  BY DEF StepAlloc
<1>3. PICK fact : /\ Describes(fact, heap, frames, Running)
                  /\ Admits(Current, fact)
                  /\ Successors(Current, Running.pc, fact) \subseteq
                       Explored(Emitted(Running.method))
  BY <1>1, OperationFacts
<1>4. PICK to \in Register : to = Current.to
  BY <1>1, <1>3 DEF Admits
<1>5. <<Running.pc + 1, Collected(fact, {to})>> \in Explored(Emitted(Running.method))
  BY <1>1, <1>3, <1>4, SuccessorFacts, AfterFacts
<1>6. /\ HeapSound(h2) /\ Outlives(heap, h2, Roots)
      /\ Roots \subseteq DOMAIN h2 \union {None}
  BY RunningFacts, AllocationKeeps
<1>7. /\ HeapSound(With(h2, o, {})) /\ \A R : Outlives(h2, With(h2, o, {}), R)
      /\ DOMAIN With(h2, o, {}) = DOMAIN h2 \union {o}
  BY <1>2, <1>6, NewObjectKeeps
<1>8. /\ HeapSound(heap') /\ Outlives(heap, heap', Roots)
      /\ Roots \subseteq DOMAIN heap' \union {None} /\ o \in DOMAIN heap'
  BY <1>2, <1>6, <1>7 DEF Outlives
<1>9. PICK h, h3, fr, g, f, made :
        /\ h = heap /\ h3 = heap' /\ fr = frames /\ g = Running /\ made = {to}
        /\ f = Advanced([g EXCEPT !.register[to] = o])
  OBVIOUS
<1>10. /\ g \in Activation /\ Placed(fr, g) /\ Roots = RootsOf(fr)
  BY <1>9, RunningFacts
<1>11. Becomes(f)
  BY <1>2, <1>4, <1>9 DEF Sets
<1>12. o \in Pointer
  BY DEF Pointer
<1>13. /\ Continues(g, f) /\ f.inner = g.inner /\ f.pc = g.pc + 1
       /\ \A q \in Register : f.register[q] = IF q = to THEN o ELSE g.register[q]
  BY <1>9, <1>10, <1>12, SetFields
<1>14. Describes(Collected(fact, made), h3, fr, f)
  <2>1. SameFrames(g, f)
    BY <1>13 DEF Continues, SameFrames
  <2>. QED  BY <1>3, <1>8, <1>9, <1>10, <1>13, <2>1, CollectedDescribes
<1>15. PICK fact2 : fact2 = Collected(fact, made)
  OBVIOUS
<1>16. <<f.pc, fact2>> \in Explored(Emitted(f.method)) /\ Describes(fact2, heap', frames, f)
  BY <1>5, <1>9, <1>13, <1>14, <1>15 DEF Continues
<1>. QED  BY <1>1, <1>8, <1>9, <1>11, <1>13, <1>16, RegisterStep

\* An operation that writes references into an object.
LEMMA WriteStep ==
  ASSUME IInv, ~Idle, Current.op \in {"copy", "store"},
         NEW S, S \subseteq DOMAIN heap \union {None}, NEW into, Writes(into, S)
  PROVE  IInv'
<1>1. UNCHANGED <<program, frames>> /\ Becomes(Advanced(Running))
  BY DEF Writes
<1>2. PICK h, h2, fr, g, f, p :
        /\ h = heap /\ h2 = heap' /\ fr = frames /\ g = Running
        /\ f = Advanced(g) /\ p = Reg(into)
  OBVIOUS
<1>3. /\ g \in Activation /\ Placed(fr, g) /\ Roots = RootsOf(fr)
      /\ HeapSound(h) /\ RootsOf(fr) \subseteq DOMAIN h \union {None}
  BY <1>2, RunningFacts
<1>4. /\ HeapSound(h2) /\ Outlives(h, h2, RootsOf(fr)) /\ DOMAIN h2 = DOMAIN h
  <2>1. CASE p \in DOMAIN h
    <3>1. PICK o \in DOMAIN h : o = p
      BY <2>1
    <3>2. h2 = [h EXCEPT ![o] = @ \union S]
      BY <1>2, <2>1, <3>1 DEF Writes
    <3>3. S \subseteq DOMAIN h \union {None}
      BY <1>2
    <3>. QED  BY <1>3, <3>2, <3>3, WriteKeeps
  <2>2. CASE p \notin DOMAIN h
    <3>1. h2 = h
      BY <1>2, <2>2 DEF Writes
    <3>. QED  BY <1>3, <3>1, SameHeapOutlives
  <2>. QED  BY <2>1, <2>2
<1>5. PICK fact : /\ Describes(fact, heap, frames, Running)
                  /\ Admits(Current, fact)
                  /\ Successors(Current, Running.pc, fact) \subseteq
                       Explored(Emitted(Running.method))
  BY OperationFacts
<1>6. <<Running.pc + 1, fact>> \in Explored(Emitted(Running.method))
  BY <1>5, SuccessorFacts, AfterFacts
<1>7. Continues(g, f) /\ f.inner = g.inner /\ f.pc = g.pc + 1 /\ f.register = g.register
  BY <1>2, <1>3, AdvanceFields
<1>8. SameFrames(g, f)
  BY <1>7 DEF Continues, SameFrames
<1>9. Describes(fact, h2, fr, f)
  BY <1>2, <1>3, <1>4, <1>5, <1>7, <1>8, StaysDescribed
<1>10. <<f.pc, fact>> \in Explored(Emitted(f.method))
  BY <1>2, <1>6, <1>7 DEF Continues
<1>11. /\ HeapSound(heap') /\ Outlives(heap, heap', Roots)
       /\ Roots \subseteq DOMAIN heap' \union {None}
       /\ Describes(fact, heap', frames, f)
  BY <1>2, <1>3, <1>4, <1>9
<1>. QED  BY <1>1, <1>2, <1>7, <1>10, <1>11, RegisterStep

\* What an object holds is allocated.
LEMMA ContentsAreUsed ==
  ASSUME IInv, NEW r
  PROVE  Held(r) \subseteq DOMAIN heap \union {None}
<1>. QED  BY RunningFacts DEF Held, HeapSound

LEMMA StepCopyKeeps ==
  ASSUME IInv, StepCopy
  PROVE  IInv'
<1>1. ~Idle /\ Current.op = "copy"
  BY DEF StepCopy, Runs
<1>2. PICK S, into : /\ S = Held(Current.from) /\ into = Current.into
                     /\ Writes(into, S)
  BY DEF StepCopy
<1>3. S \subseteq DOMAIN heap \union {None}
  BY <1>2, ContentsAreUsed
<1>. QED  BY <1>1, <1>2, <1>3, WriteStep

LEMMA StepStoreKeeps ==
  ASSUME IInv, StepStore
  PROVE  IInv'
<1>1. ~Idle /\ Current.op = "store"
  BY DEF StepStore, Runs
<1>2. PICK S, into : /\ S = {Reg(Current.from)} /\ into = Current.into
                     /\ Writes(into, S)
  BY DEF StepStore
<1>3. PICK fact : Describes(fact, heap, frames, Running) /\ Admits(Current, fact)
  BY <1>1, OperationFacts
<1>4. Current.from \in fact.live
  BY <1>1, <1>3 DEF Admits
<1>5. S \subseteq DOMAIN heap \union {None}
  BY <1>2, <1>3, <1>4 DEF Describes, Reg
<1>. QED  BY <1>1, <1>2, <1>5, WriteStep

\* An operation that copies to a register what another register holds, or what
\* the object has that the other register holds.
LEMMA CopyRegisterStep ==
  ASSUME IInv, ~Idle, Current.op \in {"load", "move", "each"},
         UNCHANGED <<program, heap, frames>>, NEW p, Sets(Current.to, p),
         \/ Current.op = "move" /\ p = Reg(Current.from)
         \/ Current.op \in {"load", "each"} /\ p \in Held(Current.from)
  PROVE  IInv'
<1>1. PICK fact : /\ Describes(fact, heap, frames, Running)
                  /\ Admits(Current, fact)
                  /\ Successors(Current, Running.pc, fact) \subseteq
                       Explored(Emitted(Running.method))
  BY OperationFacts
<1>2. fact.live \subseteq Register
  BY <1>1 DEF Describes
<1>3. PICK to \in Register, from \in Register : to = Current.to /\ from = Current.from
  BY <1>1, <1>2 DEF Admits
<1>4. PICK fact2 : fact2 =
        [ live  |-> Copied(fact.live, from, to),
          holds |-> [q \in DOMAIN fact.holds |-> Copied(fact.holds[q], from, to)] ]
  OBVIOUS
<1>5. <<Running.pc + 1, fact2>> \in Explored(Emitted(Running.method))
  BY <1>1, <1>3, <1>4, SuccessorFacts, AfterFacts
<1>6. PICK h, fr, g, f :
        /\ h = heap /\ fr = frames /\ g = Running
        /\ f = Advanced([g EXCEPT !.register[to] = p])
  OBVIOUS
<1>7. /\ g \in Activation /\ HeapSound(h)
      /\ Roots \subseteq DOMAIN heap' \union {None}
  BY <1>6, RunningFacts
<1>8. \/ p = g.register[from]
      \/ g.register[from] \in DOMAIN h /\ p \in h[g.register[from]]
  BY <1>3, <1>6 DEF Reg, Held
<1>9. p \in Pointer
  BY <1>7, <1>8, ActivationFields, UsedArePointers DEF HeapSound
<1>10. /\ Continues(g, f) /\ f.inner = g.inner /\ f.pc = g.pc + 1
       /\ \A q \in Register : f.register[q] = IF q = to THEN p ELSE g.register[q]
  BY <1>6, <1>7, <1>9, SetFields
<1>11. Describes(fact2, h, fr, f)
  <2>1. SameFrames(g, f) /\ f.register[to] = p
    BY <1>10 DEF Continues, SameFrames
  <2>2. \A r \in Register \ {to} : f.register[r] = g.register[r]
    BY <1>10
  <2>3. from \in fact.live => f.register[to] \in DOMAIN h \union {None}
    BY <1>1, <1>6, <1>7, <1>8, <2>1 DEF Describes, HeapSound
  <2>4. ASSUME NEW q \in Places(fr, g), from \in fact.holds[q]
        PROVE  f.register[to] \in ReachableIn(h, Slots(fr, g, q)) \union {None}
    <3>. DEFINE X == ReachableIn(h, Slots(fr, g, q))
    <3>1. g.register[from] \in X \union {None}
      BY <1>1, <1>6, <2>4 DEF Describes
    <3>2. X \subseteq DOMAIN h /\ Closed(h, X)
      BY ReachableLeast
    <3>. HIDE DEF X
    <3>3. None \notin DOMAIN h
      BY <1>7, RootsAssumption DEF HeapSound
    <3>4. p \in X \union {None}
      BY <1>7, <1>8, <3>1, <3>2, <3>3 DEF Closed, HeapSound
    <3>. QED  BY <2>1, <3>4 DEF X
  <2>5. Describes(fact, h, fr, g)
    BY <1>1, <1>6
  <2>6. /\ fact2.live = Copied(fact.live, from, to)
        /\ DOMAIN fact2.holds = Places(fr, g)
        /\ \A q \in Places(fr, g) : fact2.holds[q] = Copied(fact.holds[q], from, to)
    BY <1>4, <2>5 DEF Describes
  <2>. QED  BY <2>1, <2>2, <2>3, <2>4, <2>5, <2>6, CopiedDescribes
<1>12. Becomes(f)
  BY <1>3, <1>6 DEF Sets
<1>13. /\ <<f.pc, fact2>> \in Explored(Emitted(f.method))
       /\ Describes(fact2, heap', frames, f)
       /\ HeapSound(heap') /\ Outlives(heap, heap', Roots)
  BY <1>5, <1>6, <1>7, <1>10, <1>11, SameHeapOutlives DEF Continues
<1>. QED  BY <1>6, <1>7, <1>10, <1>12, <1>13, RegisterStep

LEMMA StepLoadKeeps ==
  ASSUME IInv, StepLoad
  PROVE  IInv'
<1>1. ~Idle /\ Current.op = "load" /\ UNCHANGED <<program, heap, frames>>
  BY DEF StepLoad, Runs
<1>2. PICK p \in Held(Current.from) : Sets(Current.to, p)
  BY DEF StepLoad
<1>. QED  BY <1>1, <1>2, CopyRegisterStep

LEMMA StepMoveKeeps ==
  ASSUME IInv, StepMove
  PROVE  IInv'
<1>1. ~Idle /\ Current.op = "move" /\ UNCHANGED <<program, heap, frames>>
  BY DEF StepMove, Runs
<1>2. PICK p : p = Reg(Current.from) /\ Sets(Current.to, p)
  BY DEF StepMove
<1>. QED  BY <1>1, <1>2, CopyRegisterStep

LEMMA StepSwapKeeps ==
  ASSUME IInv, StepSwap
  PROVE  IInv'
<1>1. ~Idle /\ Current.op = "swap" /\ UNCHANGED <<program, heap, frames>>
  BY DEF StepSwap, Runs
<1>2. PICK fact : /\ Describes(fact, heap, frames, Running)
                  /\ Admits(Current, fact)
                  /\ Successors(Current, Running.pc, fact) \subseteq
                       Explored(Emitted(Running.method))
  BY <1>1, OperationFacts
<1>3. PICK a \in Register, b \in Register : a = Current.from /\ b = Current.to
  BY <1>1, <1>2 DEF Admits
<1>4. PICK fact2 : fact2 =
        [ live  |-> Swapped(fact.live, a, b),
          holds |-> [p \in DOMAIN fact.holds |-> Swapped(fact.holds[p], a, b)] ]
  OBVIOUS
<1>5. <<Running.pc + 1, fact2>> \in Explored(Emitted(Running.method))
  BY <1>1, <1>2, <1>3, <1>4, SuccessorFacts, AfterFacts
<1>6. PICK h, fr, g, f1, f :
        /\ h = heap /\ fr = frames /\ g = Running
        /\ f1 = [g EXCEPT !.register[b] = g.register[a]]
        /\ f = Advanced([f1 EXCEPT !.register[a] = g.register[b]])
  OBVIOUS
<1>7. /\ g \in Activation /\ g.register[a] \in Pointer /\ g.register[b] \in Pointer
  BY <1>6, RunningFacts, ActivationFields
<1>8. /\ f1 \in Activation /\ f1.frame = g.frame /\ f1.inner = g.inner /\ f1.pc = g.pc
      /\ f1.method = g.method /\ f1.value = g.value /\ f1.result = g.result
      /\ f1.register = [g.register EXCEPT ![b] = g.register[a]]
  BY <1>6, <1>7, ActivationFields DEF Activation
<1>9. PICK p \in Pointer : p = g.register[b]
  BY <1>7
<1>10. f = Advanced([f1 EXCEPT !.register[a] = p])
  BY <1>6, <1>9
<1>11. /\ Continues(f1, f) /\ f.inner = f1.inner /\ f.pc = f1.pc + 1
       /\ \A q \in Register : f.register[q] = IF q = a THEN p ELSE f1.register[q]
  <2>1. f1 \in Activation
    BY <1>8
  <2>. QED  BY <1>10, <2>1, SetFields
<1>12. \A q \in Register : f1.register[q] = IF q = b THEN g.register[a] ELSE g.register[q]
  BY <1>7, <1>8, ActivationFields
<1>13. Continues(g, f) /\ f.inner = g.inner /\ f.pc = g.pc + 1
  BY <1>8, <1>11 DEF Continues
<1>14. Becomes(f)
  <2>1. [g EXCEPT !.register[b] = g.register[a], !.register[a] = g.register[b]]
          = [f1 EXCEPT !.register[a] = g.register[b]]
    BY <1>6
  <2>. QED  BY <1>3, <1>6, <2>1 DEF StepSwap, Reg
<1>15. Describes(fact2, h, fr, f)
  <2>1. SameFrames(g, f)
    BY <1>13 DEF Continues, SameFrames
  <2>2. /\ \A r \in Register \ {a, b} : f.register[r] = g.register[r]
        /\ f.register[a] = g.register[b] /\ f.register[b] = g.register[a]
    BY <1>9, <1>11, <1>12
  <2>3. Describes(fact, h, fr, g)
    BY <1>2, <1>6
  <2>. QED  BY <1>4, <2>1, <2>2, <2>3, SwappedDescribes
<1>16. /\ <<f.pc, fact2>> \in Explored(Emitted(f.method))
       /\ Describes(fact2, heap', frames, f)
       /\ HeapSound(heap') /\ Outlives(heap, heap', Roots)
       /\ Roots \subseteq DOMAIN heap' \union {None}
  BY <1>1, <1>5, <1>6, <1>13, <1>15, RunningFacts, SameHeapOutlives DEF Continues
<1>. QED  BY <1>1, <1>6, <1>13, <1>14, <1>16, RegisterStep

\* An operation that leaves for elsewhere in the code.
LEMMA JumpStep ==
  ASSUME IInv, ~Idle, Current.op \in {"each", "branch", "goto"},
         UNCHANGED <<program, heap, frames>>, Jumps(Current.exit)
  PROVE  IInv'
<1>1. PICK fact : /\ Describes(fact, heap, frames, Running)
                  /\ Successors(Current, Running.pc, fact) \subseteq
                       Explored(Emitted(Running.method))
  BY OperationFacts
<1>2. PICK e \in Explored(Emitted(Running.method)) : e = <<Current.exit, fact>>
  BY <1>1, SuccessorFacts
<1>3. Current.exit \in Nat
  <2>1. Certifies(Explored(Emitted(Running.method)), Emitted(Running.method))
    BY OperationFacts, MethodChecked
  <2>2. e[1] \in Nat /\ e[1] = Current.exit
    BY <1>2, <2>1 DEF Certifies
  <2>. QED  BY <2>2
<1>. PICK target \in Nat : target = Current.exit
  BY <1>3
<1>4. PICK h, fr, g, f :
        /\ h = heap /\ fr = frames /\ g = Running
        /\ f = [g EXCEPT !.pc = target]
  OBVIOUS
<1>5. g \in Activation /\ Placed(fr, g)
  BY <1>4, RunningFacts
<1>6. Continues(g, f) /\ f.inner = g.inner /\ f.pc = target /\ f.register = g.register
  BY <1>4, <1>5, JumpFields
<1>7. Becomes(f)
  BY <1>4 DEF Jumps
<1>8. Describes(fact, h, fr, f)
  <2>1. SameFrames(g, f)
    BY <1>6 DEF Continues, SameFrames
  <2>2. Outlives(h, h, RootsOf(fr)) /\ Describes(fact, h, fr, g)
    BY <1>1, <1>4, SameHeapOutlives
  <2>. QED  BY <1>5, <1>6, <2>1, <2>2, StaysDescribed
<1>9. /\ <<f.pc, fact>> \in Explored(Emitted(f.method))
      /\ Describes(fact, heap', frames, f)
      /\ HeapSound(heap') /\ Outlives(heap, heap', Roots)
      /\ Roots \subseteq DOMAIN heap' \union {None}
  BY <1>2, <1>4, <1>6, <1>8, RunningFacts, SameHeapOutlives DEF Continues
<1>. QED  BY <1>4, <1>6, <1>7, <1>9, RegisterStep

LEMMA StepEachKeeps ==
  ASSUME IInv, StepEach
  PROVE  IInv'
<1>1. ~Idle /\ Current.op = "each" /\ UNCHANGED <<program, heap, frames>>
  BY DEF StepEach, Runs
<1>2. CASE \E p \in Held(Current.from) : Sets(Current.to, p)
  <2>1. PICK p \in Held(Current.from) : Sets(Current.to, p)
    BY <1>2
  <2>. QED  BY <1>1, <2>1, CopyRegisterStep
<1>3. CASE Jumps(Current.exit)
  BY <1>1, <1>3, JumpStep
<1>. QED  BY <1>2, <1>3 DEF StepEach

LEMMA StepBranchKeeps ==
  ASSUME IInv, StepBranch
  PROVE  IInv'
<1>1. ~Idle /\ Current.op = "branch" /\ UNCHANGED <<program, heap, frames>>
  BY DEF StepBranch, Runs
<1>2. CASE Becomes(Advanced(Running))
  <2>1. PICK fact : /\ Describes(fact, heap, frames, Running)
                    /\ Successors(Current, Running.pc, fact) \subseteq
                         Explored(Emitted(Running.method))
    BY <1>1, OperationFacts
  <2>2. <<Running.pc + 1, fact>> \in Explored(Emitted(Running.method))
    BY <1>1, <2>1, SuccessorFacts, AfterFacts
  <2>3. PICK h, fr, g, f : h = heap /\ fr = frames /\ g = Running /\ f = Advanced(g)
    OBVIOUS
  <2>4. g \in Activation /\ Placed(fr, g)
    BY <2>3, RunningFacts
  <2>5. Continues(g, f) /\ f.inner = g.inner /\ f.pc = g.pc + 1 /\ f.register = g.register
    BY <2>3, <2>4, AdvanceFields
  <2>6. Describes(fact, h, fr, f)
    <3>1. SameFrames(g, f)
      BY <2>5 DEF Continues, SameFrames
    <3>2. Outlives(h, h, RootsOf(fr)) /\ Describes(fact, h, fr, g)
      BY <2>1, <2>3, SameHeapOutlives
    <3>. QED  BY <2>4, <2>5, <3>1, <3>2, StaysDescribed
  <2>7. /\ <<f.pc, fact>> \in Explored(Emitted(f.method))
        /\ Describes(fact, heap', frames, f)
        /\ HeapSound(heap') /\ Outlives(heap, heap', Roots)
        /\ Roots \subseteq DOMAIN heap' \union {None}
    BY <1>1, <2>2, <2>3, <2>5, <2>6, RunningFacts, SameHeapOutlives DEF Continues
  <2>. QED  BY <1>1, <1>2, <2>3, <2>5, <2>7, RegisterStep
<1>3. CASE Jumps(Current.exit)
  BY <1>1, <1>3, JumpStep
<1>. QED  BY <1>2, <1>3 DEF StepBranch

LEMMA StepGotoKeeps ==
  ASSUME IInv, StepGoto
  PROVE  IInv'
<1>. QED  BY JumpStep DEF StepGoto, Runs

\* A method has a frame of its own exactly if the check knows of its slots.
LEMMA OwnFrame ==
  ASSUME NEW fact, NEW h, NEW fr, NEW f, Describes(fact, h, fr, f), Placed(fr, f)
  PROVE  DOMAIN fact.holds = OwnPlaces <=> f.inner = 0
<1>1. DOMAIN fact.holds = Places(fr, f)
  BY DEF Describes
<1>2. f.inner # 0 => \E n \in Nat \ {0} : n \in DOMAIN fr[f.inner]
  BY DEF Placed, SlotNumbers
<1>3. \A n \in Nat \ {0} : n \notin OwnPlaces
  BY DEF OwnPlaces, Values, ResultSlot
<1>. QED  BY <1>1, <1>2, <1>3 DEF Places

\* A register is written to a place.
LEMMA WrittenDescribes ==
  ASSUME NEW fact, NEW h, NEW fr, NEW fr2, NEW g, NEW f, NEW slot, NEW from,
         Describes(fact, h, fr, g), SameFrames(g, f), f.register = g.register,
         from \in fact.live, Places(fr2, g) = Places(fr, g),
         \A p \in Places(fr, g) \ {slot} : Slots(fr2, g, p) = Slots(fr, g, p),
         Slots(fr2, g, slot) = {g.register[from]}
  PROVE  Describes(WrittenTo(fact, slot, from), h, fr2, f)
<1>. DEFINE fact2 == WrittenTo(fact, slot, from)
<1>1. /\ Places(fr2, f) = Places(fr2, g)
      /\ \A p : Slots(fr2, f, p) = Slots(fr2, g, p)
  BY SamePlaces
<1>2. /\ DOMAIN fact2.holds = Places(fr, g) /\ fact2.live = fact.live
      /\ \A p \in Places(fr, g) :
           fact2.holds[p] = IF p = slot THEN {from} ELSE fact.holds[p]
  BY DEF WrittenTo, Describes
<1>3. from \in Register /\ g.register[from] \in DOMAIN h \union {None}
  BY DEF Describes
<1>4. \A p \in Places(fr, g) :
        /\ fact2.holds[p] \subseteq Register
        /\ \A r \in fact2.holds[p] :
             f.register[r] \in ReachableIn(h, Slots(fr2, f, p)) \union {None}
  <2> SUFFICES ASSUME NEW p \in Places(fr, g)
               PROVE  /\ fact2.holds[p] \subseteq Register
                      /\ \A r \in fact2.holds[p] :
                           f.register[r] \in ReachableIn(h, Slots(fr2, f, p)) \union {None}
    OBVIOUS
  <2>1. CASE p = slot
    <3>1. Slots(fr2, f, p) \intersect DOMAIN h \subseteq ReachableIn(h, Slots(fr2, f, p))
      BY ReachableLeast
    <3>2. Slots(fr2, f, p) = {g.register[from]} /\ fact2.holds[p] = {from}
      BY <1>1, <1>2, <2>1
    <3>. HIDE DEF fact2
    <3>. QED  BY <1>3, <3>1, <3>2
  <2>2. CASE p # slot
    <3>1. Slots(fr2, f, p) = Slots(fr, g, p) /\ fact2.holds[p] = fact.holds[p]
      BY <1>1, <1>2, <2>2
    <3>. HIDE DEF fact2
    <3>. QED  BY <3>1 DEF Describes
  <2>. QED  BY <2>1, <2>2
<1>5. \A r \in fact.live : f.register[r] \in DOMAIN h \union {None}
  BY DEF Describes
<1>. HIDE DEF fact2
<1>6. Describes(fact2, h, fr2, f)
  BY <1>1, <1>2, <1>4, <1>5 DEF Describes
<1>. QED  BY <1>6 DEF fact2

LEMMA StepRootResultKeeps ==
  ASSUME IInv, StepRootResult
  PROVE  IInv'
<1>1. ~Idle /\ Current.op = "rootResult" /\ UNCHANGED <<program, heap>>
  BY DEF StepRootResult, Runs
<1>2. PICK fact : /\ Describes(fact, heap, frames, Running)
                  /\ Admits(Current, fact)
                  /\ Successors(Current, Running.pc, fact) \subseteq
                       Explored(Emitted(Running.method))
  BY <1>1, OperationFacts
<1>3. PICK from \in fact.live : from = Current.from
  BY <1>1, <1>2 DEF Admits
<1>4. <<Running.pc + 1, WrittenTo(fact, ResultSlot, from)>> \in
        Explored(Emitted(Running.method))
  BY <1>1, <1>2, <1>3, SuccessorFacts, AfterFacts
<1>5. PICK h, fr, fr2, g, f, p, k, v :
        /\ h = heap /\ fr = frames /\ fr2 = frames' /\ g = Running /\ f = Advanced(g)
        /\ p = g.register[from] /\ k = g.frame /\ v = g.result
  OBVIOUS
<1>6. /\ g \in Activation /\ Placed(fr, g) /\ FramesSound(h, fr) /\ HeapSound(h)
      /\ Roots = RootsOf(fr) /\ RootsOf(fr) \subseteq DOMAIN h \union {None}
      /\ Len(fr) = Top(g) /\ v \in Value
  BY <1>5, RunningFacts, ActivationFields
<1>7. WritesSlot(h, h, fr, fr2, k, v, p)
  <2>1. fr2 = [fr EXCEPT ![k][v] = p]
    BY <1>3, <1>5 DEF StepRootResult, emit_set_root, Reg
  <2>2. p \in DOMAIN h \union {None}
    BY <1>2, <1>3, <1>5 DEF Describes
  <2>3. k \in DOMAIN fr /\ v \in DOMAIN fr[k]
    BY <1>5, <1>6 DEF Placed
  <2>. QED  BY <1>6, <2>1, <2>2, <2>3 DEF WritesSlot
<1>8. /\ FramesSound(h, fr2) /\ Len(fr2) = Len(fr) /\ DOMAIN fr2 = DOMAIN fr
      /\ \A j \in DOMAIN fr : j # k => fr2[j] = fr[j]
      /\ DOMAIN fr2[k] = DOMAIN fr[k]
      /\ \A t \in DOMAIN fr[k] : fr2[k][t] = IF t = v THEN p ELSE fr[k][t]
  BY <1>7, SlotWritten
<1>9. Continues(g, f) /\ f.inner = g.inner /\ f.pc = g.pc + 1 /\ f.register = g.register
  BY <1>5, <1>6, AdvanceFields
<1>10. SameFrames(g, f)
  BY <1>9 DEF Continues, SameFrames
<1>11. g.inner # 0 => fr2[g.inner] = fr[g.inner]
  BY <1>5, <1>6, <1>8, ActivationFields DEF Placed
<1>12. /\ k \in DOMAIN fr2 /\ DOMAIN fr[k] = Value
       /\ g.inner # 0 => /\ g.inner = g.frame + 1
                         /\ g.inner \in DOMAIN fr2
                         /\ SlotNumbers(DOMAIN fr[g.inner])
  BY <1>5, <1>6, <1>8 DEF Placed
<1>13. k \in Nat
  BY <1>5, <1>6, ActivationFields
<1>14. Describes(WrittenTo(fact, ResultSlot, from), h, fr2, f)
  <2>1. Places(fr2, g) = Places(fr, g)
    BY <1>11, <1>13 DEF Places
  <2>2. \A q \in Places(fr, g) \ {ResultSlot} : Slots(fr2, g, q) = Slots(fr, g, q)
    <3>1. Slots(fr2, g, Values) = Slots(fr, g, Values)
      BY <1>5, <1>8, <1>12 DEF Slots
    <3>2. \A q \in Places(fr, g) \ OwnPlaces : Slots(fr2, g, q) = Slots(fr, g, q)
      BY <1>11, <1>13 DEF Slots, Places, OwnPlaces
    <3>. QED  BY <3>1, <3>2 DEF OwnPlaces
  <2>3. Slots(fr2, g, ResultSlot) = {g.register[from]}
    <3>1. ResultSlot # Values
      BY DEF ResultSlot, Values
    <3>. QED  BY <1>5, <1>6, <1>8, <1>12, <3>1 DEF Slots
  <2>4. Describes(fact, h, fr, g)
    BY <1>2, <1>5
  <2>. QED  BY <1>9, <1>10, <2>1, <2>2, <2>3, <2>4, WrittenDescribes
<1>15. PICK fact2 : fact2 = WrittenTo(fact, ResultSlot, from)
  OBVIOUS
<1>16. <<f.pc, fact2>> \in Explored(Emitted(f.method)) /\ Describes(fact2, heap', frames', f)
  BY <1>1, <1>4, <1>5, <1>9, <1>14, <1>15 DEF Continues
<1>17. Becomes(f)
  BY <1>5 DEF StepRootResult
<1>18. /\ HeapSound(heap') /\ Outlives(heap, heap', Roots) /\ FramesSound(heap', frames')
       /\ Len(frames') = Top(f)
  BY <1>1, <1>5, <1>6, <1>8, <1>9, SameHeapOutlives DEF Top, Continues
<1>19. \A j \in DOMAIN frames : j < f.frame => j \in DOMAIN frames' /\ frames'[j] = frames[j]
  <2>1. \A j \in DOMAIN fr : j < k => j # k
    BY <1>6, <1>13, FramesAreSequence
  <2>. QED  BY <1>5, <1>8, <1>9, <2>1 DEF Continues
<1>20. /\ f.frame \in DOMAIN frames' /\ DOMAIN frames'[f.frame] = Value
       /\ \A t \in Value \ {f.result} : frames'[f.frame][t] = frames[f.frame][t]
       /\ f.inner # 0 => /\ f.inner = f.frame + 1
                         /\ f.inner \in DOMAIN frames'
                         /\ SlotNumbers(DOMAIN frames'[f.inner])
  BY <1>5, <1>8, <1>9, <1>11, <1>12, <1>13 DEF Continues
<1>21. Continues(Running, f)
  BY <1>5, <1>9
<1>. QED  BY <1>1, <1>16, <1>17, <1>18, <1>19, <1>20, <1>21, OperationStep

LEMMA StepRootAtKeeps ==
  ASSUME IInv, StepRootAt
  PROVE  IInv'
<1>1. ~Idle /\ Current.op = "rootAt" /\ UNCHANGED <<program, heap>>
  BY DEF StepRootAt, Runs
<1>2. PICK fact : /\ Describes(fact, heap, frames, Running)
                  /\ Admits(Current, fact)
                  /\ Successors(Current, Running.pc, fact) \subseteq
                       Explored(Emitted(Running.method))
  BY <1>1, OperationFacts
<1>3. PICK from \in fact.live : from = Current.from
  BY <1>1, <1>2 DEF Admits
<1>4. PICK slot \in DOMAIN fact.holds \ OwnPlaces : slot = Current.slot
  BY <1>1, <1>2 DEF Admits
<1>5. <<Running.pc + 1, WrittenTo(fact, slot, from)>> \in
        Explored(Emitted(Running.method))
  BY <1>1, <1>2, <1>3, <1>4, SuccessorFacts, AfterFacts
<1>6. PICK h, fr, fr2, g, f, p, k :
        /\ h = heap /\ fr = frames /\ fr2 = frames' /\ g = Running /\ f = Advanced(g)
        /\ p = g.register[from] /\ k = g.inner
  OBVIOUS
<1>7. /\ g \in Activation /\ Placed(fr, g) /\ FramesSound(h, fr) /\ HeapSound(h)
      /\ Roots = RootsOf(fr) /\ RootsOf(fr) \subseteq DOMAIN h \union {None}
      /\ Len(fr) = Top(g) /\ Describes(fact, h, fr, g)
  BY <1>2, <1>6, RunningFacts
<1>8. slot \in DOMAIN fr[k] /\ k # 0
  BY <1>6, <1>7 DEF Describes, Places
<1>9. /\ g.frame \in DOMAIN fr /\ DOMAIN fr[g.frame] = Value
      /\ k = g.frame + 1 /\ k \in DOMAIN fr /\ SlotNumbers(DOMAIN fr[k])
  BY <1>6, <1>7, <1>8 DEF Placed
<1>10. g.frame \in Nat /\ g.frame # k
  BY <1>6, <1>7, <1>9, ActivationFields
<1>11. WritesSlot(h, h, fr, fr2, k, slot, p)
  <2>1. fr2 = [fr EXCEPT ![k][slot] = p]
    BY <1>3, <1>4, <1>6 DEF StepRootAt, emit_set_root, Reg
  <2>2. p \in DOMAIN h \union {None}
    BY <1>2, <1>3, <1>6 DEF Describes
  <2>. QED  BY <1>7, <1>8, <1>9, <2>1, <2>2 DEF WritesSlot
<1>12. /\ FramesSound(h, fr2) /\ Len(fr2) = Len(fr) /\ DOMAIN fr2 = DOMAIN fr
       /\ \A j \in DOMAIN fr : j # k => fr2[j] = fr[j]
       /\ DOMAIN fr2[k] = DOMAIN fr[k]
       /\ \A t \in DOMAIN fr[k] : fr2[k][t] = IF t = slot THEN p ELSE fr[k][t]
  BY <1>11, SlotWritten
<1>13. fr2[g.frame] = fr[g.frame]
  BY <1>9, <1>10, <1>12
<1>14. Continues(g, f) /\ f.inner = g.inner /\ f.pc = g.pc + 1 /\ f.register = g.register
  BY <1>6, <1>7, AdvanceFields
<1>15. Describes(WrittenTo(fact, slot, from), h, fr2, f)
  <2>1. SameFrames(g, f)
    BY <1>14 DEF Continues, SameFrames
  <2>2. Places(fr2, g) = Places(fr, g)
    BY <1>6, <1>12 DEF Places
  <2>3. \A q \in Places(fr, g) \ {slot} : Slots(fr2, g, q) = Slots(fr, g, q)
    <3>1. \A q \in OwnPlaces : Slots(fr2, g, q) = Slots(fr, g, q)
      BY <1>13 DEF Slots, OwnPlaces
    <3>2. \A q \in Places(fr, g) \ OwnPlaces :
            q # slot => Slots(fr2, g, q) = Slots(fr, g, q)
      BY <1>6, <1>8, <1>12 DEF Slots, Places, OwnPlaces
    <3>. QED  BY <3>1, <3>2
  <2>4. Slots(fr2, g, slot) = {g.register[from]}
    BY <1>4, <1>6, <1>8, <1>12 DEF Slots, OwnPlaces
  <2>. QED  BY <1>7, <1>14, <2>1, <2>2, <2>3, <2>4, WrittenDescribes
<1>16. PICK fact2 : fact2 = WrittenTo(fact, slot, from)
  OBVIOUS
<1>17. <<f.pc, fact2>> \in Explored(Emitted(f.method)) /\ Describes(fact2, heap', frames', f)
  BY <1>1, <1>5, <1>6, <1>14, <1>15, <1>16 DEF Continues
<1>18. Becomes(f) /\ Continues(Running, f)
  BY <1>6, <1>14 DEF StepRootAt
<1>19. /\ HeapSound(heap') /\ Outlives(heap, heap', Roots) /\ FramesSound(heap', frames')
       /\ Len(frames') = Top(f)
  BY <1>1, <1>6, <1>7, <1>12, <1>14, SameHeapOutlives DEF Top, Continues
<1>20. \A j \in DOMAIN frames : j < f.frame => j \in DOMAIN frames' /\ frames'[j] = frames[j]
  <2>1. \A j \in DOMAIN fr : j < g.frame => j # k
    BY <1>7, <1>9, <1>10, FramesAreSequence
  <2>. QED  BY <1>6, <1>12, <1>14, <2>1 DEF Continues
<1>21. /\ f.frame \in DOMAIN frames' /\ DOMAIN frames'[f.frame] = Value
       /\ \A t \in Value \ {f.result} : frames'[f.frame][t] = frames[f.frame][t]
       /\ f.inner # 0 => /\ f.inner = f.frame + 1
                         /\ f.inner \in DOMAIN frames'
                         /\ SlotNumbers(DOMAIN frames'[f.inner])
  BY <1>6, <1>9, <1>12, <1>13, <1>14 DEF Continues
<1>. QED  BY <1>1, <1>17, <1>18, <1>19, <1>20, <1>21, OperationStep

LEMMA StepPushFrameKeeps ==
  ASSUME IInv, StepPushFrame
  PROVE  IInv'
<1>1. ~Idle /\ Current.op = "push" /\ UNCHANGED <<program, heap>>
  BY DEF StepPushFrame, Runs
<1>2. PICK fact : /\ Describes(fact, heap, frames, Running)
                  /\ Admits(Current, fact)
                  /\ Successors(Current, Running.pc, fact) \subseteq
                       Explored(Emitted(Running.method))
  BY <1>1, OperationFacts
<1>3. PICK n \in Nat \ {0} : n = Current.slots
  BY <1>1, <1>2 DEF Admits
<1>4. PICK fact2 : fact2 =
        [ live  |-> fact.live,
          holds |-> [p \in OwnPlaces \union 1 .. n |->
                       IF p \in OwnPlaces THEN fact.holds[p] ELSE {}] ]
  OBVIOUS
<1>5. <<Running.pc + 1, fact2>> \in Explored(Emitted(Running.method))
  BY <1>1, <1>2, <1>3, <1>4, SuccessorFacts, AfterFacts
<1>6. PICK h, fr, fr2, g, g1, f, x :
        /\ h = heap /\ fr = frames /\ fr2 = frames' /\ g = Running
        /\ g1 = [g EXCEPT !.inner = Len(fr) + 1] /\ f = Advanced(g1)
        /\ x = [s \in 1 .. n |-> None]
  OBVIOUS
<1>7. /\ g \in Activation /\ Placed(fr, g) /\ FramesSound(h, fr) /\ HeapSound(h)
      /\ Roots = RootsOf(fr) /\ Len(fr) = Top(g) /\ Len(fr) \in Nat
      /\ DOMAIN fr = 1 .. Len(fr) /\ Describes(fact, h, fr, g)
  BY <1>2, <1>6, RunningFacts
<1>8. g.inner = 0 /\ Len(fr) = g.frame
  <2>1. DOMAIN fact.holds = OwnPlaces
    BY <1>1, <1>2 DEF Admits
  <2>2. g.inner = 0
    BY <1>7, <2>1, OwnFrame
  <2>. QED  BY <1>7, <2>2 DEF Top
<1>9. /\ DOMAIN x = 1 .. n /\ SlotNumbers(DOMAIN x)
      /\ \A s \in DOMAIN x : x[s] \in DOMAIN h \union {None}
  BY <1>6 DEF SlotNumbers
<1>10. fr2 = Append(fr, x)
  BY <1>3, <1>6 DEF StepPushFrame
<1>11. /\ FramesSound(h, fr2) /\ Len(fr2) = Len(fr) + 1 /\ Len(fr) + 1 \in DOMAIN fr2
       /\ fr2[Len(fr) + 1] = x
       /\ \A k \in DOMAIN fr : k \in DOMAIN fr2 /\ fr2[k] = fr[k]
  BY <1>7, <1>9, <1>10, FramePushed
<1>12. /\ g1 \in Activation /\ Continues(g, g1) /\ g1.inner = Len(fr) + 1 /\ g1.pc = g.pc
       /\ g1.register = g.register
  <2>1. Len(fr) + 1 \in Nat
    BY <1>7
  <2>. QED  BY <1>6, <1>7, <2>1 DEF Activation, Continues
<1>13. Continues(g1, f) /\ f.inner = g1.inner /\ f.pc = g1.pc + 1 /\ f.register = g1.register
  BY <1>6, <1>12, AdvanceFields
<1>14. /\ Continues(g, f) /\ f.inner = Len(fr) + 1 /\ f.pc = g.pc + 1
       /\ f.register = g.register /\ f.inner # 0
  <2>1. Len(fr) + 1 # 0
    BY <1>7
  <2>. QED  BY <1>12, <1>13, <2>1 DEF Continues
<1>15. /\ g.frame \in DOMAIN fr /\ DOMAIN fr[g.frame] = Value
  BY <1>7 DEF Placed
<1>16. Describes(fact2, h, fr2, f)
  <2>1. Places(fr2, f) = OwnPlaces \union 1 .. n /\ Places(fr, g) = OwnPlaces
    BY <1>8, <1>9, <1>11, <1>14 DEF Places
  <2>2. \A p \in OwnPlaces : Slots(fr2, f, p) = Slots(fr, g, p)
    <3>1. fr2[f.frame] = fr[g.frame] /\ f.result = g.result
      BY <1>11, <1>14, <1>15 DEF Continues
    <3>. QED  BY <3>1 DEF Slots, OwnPlaces
  <2>3. /\ DOMAIN fact2.holds = OwnPlaces \union 1 .. n /\ fact2.live = fact.live
        /\ \A p \in OwnPlaces : fact2.holds[p] = fact.holds[p]
        /\ \A p \in 1 .. n : p \notin OwnPlaces => fact2.holds[p] = {}
    BY <1>4
  <2>4. /\ fact.live \subseteq Register
        /\ \A r \in fact.live : f.register[r] \in DOMAIN h \union {None}
        /\ \A p \in OwnPlaces :
             /\ fact.holds[p] \subseteq Register
             /\ \A r \in fact.holds[p] :
                  f.register[r] \in ReachableIn(h, Slots(fr2, f, p)) \union {None}
    BY <1>7, <1>14, <2>1, <2>2 DEF Describes
  <2>. QED  BY <2>1, <2>3, <2>4 DEF Describes
<1>17. <<f.pc, fact2>> \in Explored(Emitted(f.method)) /\ Describes(fact2, heap', frames', f)
  BY <1>1, <1>5, <1>6, <1>14, <1>16 DEF Continues
<1>18. Becomes(f) /\ Continues(Running, f)
  BY <1>6, <1>14 DEF StepPushFrame
<1>19. /\ HeapSound(heap') /\ Outlives(heap, heap', Roots) /\ FramesSound(heap', frames')
       /\ Len(frames') = Top(f)
  BY <1>1, <1>6, <1>7, <1>11, <1>14, SameHeapOutlives DEF Top
<1>20. \A j \in DOMAIN frames : j < f.frame => j \in DOMAIN frames' /\ frames'[j] = frames[j]
  BY <1>6, <1>11
<1>21. /\ f.frame \in DOMAIN frames' /\ DOMAIN frames'[f.frame] = Value
       /\ \A t \in Value \ {f.result} : frames'[f.frame][t] = frames[f.frame][t]
       /\ f.inner # 0 => /\ f.inner = f.frame + 1
                         /\ f.inner \in DOMAIN frames'
                         /\ SlotNumbers(DOMAIN frames'[f.inner])
  <2>1. f.frame \in DOMAIN fr2 /\ fr2[f.frame] = fr[g.frame] /\ f.frame = g.frame
    BY <1>11, <1>14, <1>15 DEF Continues
  <2>2. f.inner = f.frame + 1 /\ f.inner \in DOMAIN fr2 /\ fr2[f.inner] = x
    BY <1>8, <1>11, <1>14, <2>1
  <2>. QED  BY <1>6, <1>9, <1>15, <2>1, <2>2
<1>. QED  BY <1>1, <1>17, <1>18, <1>19, <1>20, <1>21, OperationStep

LEMMA StepPopFrameKeeps ==
  ASSUME IInv, StepPopFrame
  PROVE  IInv'
<1>1. ~Idle /\ Current.op = "pop" /\ UNCHANGED <<program, heap>>
  BY DEF StepPopFrame, Runs
<1>2. PICK fact : /\ Describes(fact, heap, frames, Running)
                  /\ Admits(Current, fact)
                  /\ Successors(Current, Running.pc, fact) \subseteq
                       Explored(Emitted(Running.method))
  BY <1>1, OperationFacts
<1>3. PICK fact2 : fact2 = [ live |-> fact.live, holds |-> [p \in OwnPlaces |-> fact.holds[p]] ]
  OBVIOUS
<1>4. <<Running.pc + 1, fact2>> \in Explored(Emitted(Running.method))
  BY <1>1, <1>2, <1>3, SuccessorFacts, AfterFacts
<1>5. PICK h, fr, fr2, g, g1, f :
        /\ h = heap /\ fr = frames /\ fr2 = frames' /\ g = Running
        /\ g1 = [g EXCEPT !.inner = 0] /\ f = Advanced(g1)
  OBVIOUS
<1>6. /\ g \in Activation /\ Placed(fr, g) /\ FramesSound(h, fr) /\ HeapSound(h)
      /\ Roots = RootsOf(fr) /\ Len(fr) = Top(g) /\ Len(fr) \in Nat
      /\ DOMAIN fr = 1 .. Len(fr) /\ Describes(fact, h, fr, g)
  BY <1>2, <1>5, RunningFacts
<1>7. g.inner # 0
  <2>1. DOMAIN fact.holds # OwnPlaces
    BY <1>1, <1>2 DEF Admits
  <2>. QED  BY <1>6, <2>1, OwnFrame
<1>8. /\ Len(fr) = g.frame + 1 /\ g.frame \in DOMAIN fr /\ DOMAIN fr[g.frame] = Value
      /\ g.frame \in Nat
  BY <1>6, <1>7, ActivationFields DEF Top, Placed
<1>9. /\ FramesSound(h, fr2) /\ Len(fr2) = Len(fr) - 1
      /\ \A k \in DOMAIN fr : k # Len(fr) => k \in DOMAIN fr2 /\ fr2[k] = fr[k]
  <2>1. fr2 = SubSeq(fr, 1, Len(fr) - 1)
    BY <1>5 DEF StepPopFrame
  <2>2. Len(fr) # 0
    BY <1>8
  <2>3. FramesSound(h, fr)
    BY <1>6
  <2>. QED  BY <2>1, <2>2, <2>3, FramePopped
<1>10. /\ g1 \in Activation /\ Continues(g, g1) /\ g1.inner = 0 /\ g1.pc = g.pc
       /\ g1.register = g.register
  BY <1>5, <1>6 DEF Activation, Continues
<1>11. Continues(g1, f) /\ f.inner = g1.inner /\ f.pc = g1.pc + 1 /\ f.register = g1.register
  BY <1>5, <1>10, AdvanceFields
<1>12. /\ Continues(g, f) /\ f.inner = 0 /\ f.pc = g.pc + 1 /\ f.register = g.register
  BY <1>10, <1>11 DEF Continues
<1>13. f.frame = g.frame /\ f.frame \in DOMAIN fr2 /\ fr2[f.frame] = fr[g.frame]
  <2>1. g.frame # Len(fr)
    BY <1>8
  <2>. QED  BY <1>8, <1>9, <1>12, <2>1 DEF Continues
<1>14. Describes(fact2, h, fr2, f)
  <2>1. Places(fr2, f) = OwnPlaces /\ OwnPlaces \subseteq Places(fr, g)
    BY <1>12 DEF Places
  <2>2. \A p \in OwnPlaces : Slots(fr2, f, p) = Slots(fr, g, p)
    BY <1>12, <1>13 DEF Slots, OwnPlaces, Continues
  <2>3. /\ DOMAIN fact2.holds = OwnPlaces /\ fact2.live = fact.live
        /\ \A p \in OwnPlaces : fact2.holds[p] = fact.holds[p]
    BY <1>3
  <2>4. /\ fact.live \subseteq Register
        /\ \A r \in fact.live : f.register[r] \in DOMAIN h \union {None}
        /\ \A p \in OwnPlaces :
             /\ fact.holds[p] \subseteq Register
             /\ \A r \in fact.holds[p] :
                  f.register[r] \in ReachableIn(h, Slots(fr2, f, p)) \union {None}
    BY <1>6, <1>12, <2>1, <2>2 DEF Describes
  <2>. QED  BY <2>1, <2>3, <2>4 DEF Describes
<1>15. <<f.pc, fact2>> \in Explored(Emitted(f.method)) /\ Describes(fact2, heap', frames', f)
  BY <1>1, <1>4, <1>5, <1>12, <1>14 DEF Continues
<1>16. Becomes(f) /\ Continues(Running, f)
  BY <1>5, <1>12 DEF StepPopFrame
<1>17. Len(fr2) = Top(f)
  BY <1>8, <1>9, <1>12, <1>13 DEF Top
<1>18. HeapSound(heap') /\ Outlives(heap, heap', Roots) /\ FramesSound(heap', frames')
  BY <1>1, <1>5, <1>6, <1>9, SameHeapOutlives
<1>19. \A j \in DOMAIN frames : j < f.frame => j \in DOMAIN frames' /\ frames'[j] = frames[j]
  <2>1. \A j \in DOMAIN fr : j < g.frame => j # Len(fr)
    BY <1>6, <1>8
  <2>. QED  BY <1>5, <1>9, <1>13, <2>1
<1>20. /\ f.frame \in DOMAIN frames' /\ DOMAIN frames'[f.frame] = Value
       /\ \A t \in Value \ {f.result} : frames'[f.frame][t] = frames[f.frame][t]
  BY <1>5, <1>8, <1>13
<1>. QED  BY <1>1, <1>5, <1>12, <1>15, <1>16, <1>17, <1>18, <1>19, <1>20, OperationStep

\* A method ends when it has no frame of its own.
LEMMA FinishedFields ==
  ASSUME IInv, ~Idle, Current.op \in {"result", "end"}
  PROVE  /\ Running.inner = 0
         /\ Finished \in Activation /\ Finished.frame = Running.frame
         /\ Finished.inner = 0 /\ Finished.pc = 0 /\ Finished.value = Running.value
<1>1. PICK fact : Describes(fact, heap, frames, Running) /\ Admits(Current, fact)
  BY OperationFacts
<1>2. Running \in Activation /\ Placed(frames, Running)
  BY RunningFacts
<1>3. Running.inner = 0
  <2>1. DOMAIN fact.holds = OwnPlaces
    BY <1>1 DEF Admits
  <2>2. PICK h, fr, g : h = heap /\ fr = frames /\ g = Running
    OBVIOUS
  <2>3. Describes(fact, h, fr, g) /\ Placed(fr, g)
    BY <1>1, <1>2, <2>2
  <2>. QED  BY <2>1, <2>2, <2>3, OwnFrame
<1>4. 1 \in Value /\ NoRegisters \in [Register -> Pointer]
  BY RootsAssumption DEF Value, NoRegisters, Pointer
<1>. QED  BY <1>2, <1>3, <1>4 DEF Finished, Activation

LEMMA StepEndKeeps ==
  ASSUME IInv, StepEnd
  PROVE  IInv'
<1>1. ~Idle /\ Current.op = "end" /\ UNCHANGED <<program, heap, frames>>
  BY DEF StepEnd, Runs
<1>2. PICK f : f = Finished
  OBVIOUS
<1>3. /\ f \in Activation /\ f.frame = Running.frame /\ f.inner = 0 /\ f.pc = 0
      /\ f.value = Running.value /\ Running.inner = 0
  BY <1>1, <1>2, FinishedFields
<1>4. /\ Placed(frames, Running) /\ Len(frames) = Top(Running)
      /\ HeapSound(heap) /\ FramesSound(heap, frames)
  BY RunningFacts
<1>5. Placed(frames', f) /\ Len(frames') = Top(f) /\ MethodSound(heap', frames', f, FALSE)
  BY <1>1, <1>3, <1>4 DEF Placed, Top, MethodSound
<1>6. Becomes(f) /\ Outlives(heap, heap', Roots)
  BY <1>1, <1>2, SameHeapOutlives DEF StepEnd
<1>. QED  BY <1>1, <1>3, <1>4, <1>5, <1>6, RunningStep

LEMMA StepResultKeeps ==
  ASSUME IInv, StepResult
  PROVE  IInv'
<1>1. ~Idle /\ Current.op = "result" /\ UNCHANGED <<program, heap>>
  BY DEF StepResult, Runs
<1>2. PICK fact : Describes(fact, heap, frames, Running) /\ Admits(Current, fact)
  BY <1>1, OperationFacts
<1>3. PICK h, fr, fr2, g, g1, v, p, k :
        /\ h = heap /\ fr = frames /\ fr2 = frames' /\ g = Running /\ g1 = Finished
        /\ v = g.result /\ p = Reg(Current.from) /\ k = g.frame
  OBVIOUS
<1>4. p \in DOMAIN h \union {None}
  <2>1. Current.from \in fact.live
    BY <1>1, <1>2 DEF Admits
  <2>. QED  BY <1>2, <1>3, <2>1 DEF Describes, Reg
<1>5. /\ g \in Activation /\ Placed(fr, g) /\ FramesSound(h, fr) /\ HeapSound(h)
      /\ Roots = RootsOf(fr) /\ RootsOf(fr) \subseteq DOMAIN h \union {None}
      /\ Len(fr) = Top(g) /\ v \in Value
  BY <1>3, RunningFacts, ActivationFields
<1>6. /\ g1 \in Activation /\ g1.frame = g.frame /\ g1.inner = 0 /\ g1.pc = 0
      /\ g1.value = g.value /\ g.inner = 0
  BY <1>1, <1>3, FinishedFields
<1>7. p \in Pointer
  BY <1>4, <1>5, UsedArePointers
<1>8. PICK f : f = [g1 EXCEPT !.value[v] = p]
  OBVIOUS
<1>9. /\ f \in Activation /\ f.frame = g.frame /\ f.inner = 0 /\ f.pc = 0
      /\ \A u \in Value : f.value[u] = IF u = v THEN p ELSE g.value[u]
  <2>1. f \in Activation /\ f.frame = g1.frame /\ f.inner = 0 /\ f.pc = 0
    BY <1>5, <1>6, <1>7, <1>8, ActivationFields DEF Activation
  <2>2. f.value = [g.value EXCEPT ![v] = p]
    BY <1>6, <1>8, ActivationFields
  <2>3. g.value \in [Value -> Pointer]
    BY <1>5, ActivationFields
  <2>. QED  BY <1>6, <2>1, <2>2, <2>3
<1>10. Becomes(f) /\ fr2 = [fr EXCEPT ![k][v] = p]
  BY <1>3, <1>8 DEF StepResult, emit_set_root
<1>11. k \in DOMAIN fr /\ v \in DOMAIN fr[k] /\ DOMAIN fr[k] = Value
  BY <1>3, <1>5 DEF Placed
<1>12. WritesSlot(h, h, fr, fr2, k, v, p)
  BY <1>4, <1>5, <1>10, <1>11 DEF WritesSlot
<1>13. /\ FramesSound(h, fr2) /\ Len(fr2) = Len(fr) /\ DOMAIN fr2 = DOMAIN fr
       /\ \A j \in DOMAIN fr : j # k => fr2[j] = fr[j]
       /\ DOMAIN fr2[k] = DOMAIN fr[k]
       /\ \A t \in DOMAIN fr[k] : fr2[k][t] = IF t = v THEN p ELSE fr[k][t]
  BY <1>12, SlotWritten
<1>14. Placed(fr2, f)
  <2>1. \A u \in Value : g.value[u] \in {None, fr[k][u]}
    BY <1>3, <1>5 DEF Placed
  <2>2. \A u \in Value : f.value[u] \in {None, fr2[k][u]}
    BY <1>9, <1>11, <1>13, <2>1
  <2>. QED  BY <1>3, <1>9, <1>11, <1>13, <2>2 DEF Placed
<1>15. Len(fr2) = Top(f) /\ MethodSound(h, fr2, f, FALSE)
  BY <1>5, <1>6, <1>9, <1>13 DEF Top, MethodSound
<1>16. \A j \in DOMAIN fr : j < f.frame => j \in DOMAIN fr2 /\ fr2[j] = fr[j]
  <2>1. \A j \in DOMAIN fr : j < k => j # k
    BY <1>3, <1>5, FramesAreSequence, ActivationFields
  <2>. QED  BY <1>3, <1>9, <1>13, <2>1
<1>17. /\ HeapSound(heap') /\ FramesSound(heap', frames') /\ Len(frames') = Top(f)
       /\ Placed(frames', f) /\ MethodSound(heap', frames', f, FALSE)
       /\ Outlives(heap, heap', Roots) /\ f.frame = Running.frame
       /\ \A j \in DOMAIN frames : j < f.frame => j \in DOMAIN frames' /\ frames'[j] = frames[j]
  BY <1>1, <1>3, <1>5, <1>9, <1>13, <1>14, <1>15, <1>16, SameHeapOutlives
<1>. QED  BY <1>1, <1>9, <1>10, <1>17, RunningStep

-----------------------------------------------------------------------------
(* Calls and returns.                                                      *)

\* A function with other registers, or further on in its method.
SamePlacement(g, f) ==
  /\ f \in Activation
  /\ f.frame = g.frame /\ f.inner = g.inner /\ f.value = g.value
  /\ f.result = g.result /\ f.method = g.method

\* The function at n calls one whose frame is new: st and fr become st2 and fr2.
Calls(fr, fr2, st, st2, n, f, callee) ==
  /\ n \in Nat \ {0} /\ st \in Seq(Activation) /\ Len(st) = n /\ Stacked(fr, st)
  /\ st2 \in Seq(Activation) /\ Len(st2) = n + 1
  /\ \A k \in DOMAIN st : k # n => st2[k] = st[k]
  /\ st2[n] = f /\ SamePlacement(st[n], f) /\ f.pc > 0
  /\ st2[n + 1] = callee /\ callee \in Activation
  /\ callee.frame = Len(fr) + 1 /\ callee.inner = 0 /\ callee.pc = 0
  /\ Len(fr) \in Nat /\ DOMAIN fr = 1 .. Len(fr)
  /\ Len(fr2) = Len(fr) + 1 /\ Len(fr) + 1 \in DOMAIN fr2
  /\ fr2[Len(fr) + 1] = callee.value
  /\ \A k \in DOMAIN fr : k \in DOMAIN fr2 /\ fr2[k] = fr[k]

\* The frames of a function that stays are where they were.
LEMMA PlacedElsewhere ==
  ASSUME NEW fr, NEW fr2, NEW g, NEW f, Placed(fr, g), SamePlacement(g, f),
         f.pc = 0 => g.pc = 0,
         g.frame \in DOMAIN fr2 /\ fr2[g.frame] = fr[g.frame],
         g.inner # 0 => g.inner \in DOMAIN fr2 /\ fr2[g.inner] = fr[g.inner]
  PROVE  Placed(fr2, f)
<1>. QED  BY DEF Placed, SamePlacement

LEMMA CallStacked ==
  ASSUME NEW fr, NEW fr2, NEW st, NEW st2, NEW n, NEW f, NEW callee,
         Calls(fr, fr2, st, st2, n, f, callee)
  PROVE  Stacked(fr2, st2)
<1>1. /\ n \in Nat \ {0} /\ DOMAIN st = 1 .. n /\ DOMAIN st2 = 1 .. (n + 1)
      /\ n \in DOMAIN st /\ Len(st2) = n + 1 /\ Len(st) = n
      /\ st \in Seq(Activation) /\ st2 \in Seq(Activation) /\ Stacked(fr, st)
  BY LenProperties DEF Calls
<1>2. /\ \A k \in DOMAIN st : k # n => st2[k] = st[k]
      /\ st2[n] = f /\ SamePlacement(st[n], f) /\ f.pc > 0
      /\ st2[n + 1] = callee /\ callee \in Activation
      /\ callee.frame = Len(fr) + 1 /\ callee.inner = 0 /\ callee.pc = 0
  BY DEF Calls
<1>3. /\ Len(fr) \in Nat /\ DOMAIN fr = 1 .. Len(fr)
      /\ Len(fr2) = Len(fr) + 1 /\ Len(fr) + 1 \in DOMAIN fr2
      /\ fr2[Len(fr) + 1] = callee.value
      /\ \A k \in DOMAIN fr : k \in DOMAIN fr2 /\ fr2[k] = fr[k]
  BY DEF Calls
<1>4. \A k \in DOMAIN st : st[k] \in Activation /\ Placed(fr, st[k])
  BY <1>1, LenProperties DEF Stacked
<1>5. ASSUME NEW k \in DOMAIN st
      PROVE  /\ Placed(fr2, st2[k]) /\ Top(st2[k]) = Top(st[k])
             /\ st2[k].frame = st[k].frame /\ Top(st[k]) \in DOMAIN fr
  <2>1. k # n => SamePlacement(st[k], st2[k]) /\ st2[k] = st[k]
    BY <1>2, <1>4, <1>5 DEF SamePlacement
  <2>2. SamePlacement(st[k], st2[k])
    BY <1>2, <2>1
  <2>3. /\ st[k].frame \in DOMAIN fr /\ (st[k].inner # 0 => st[k].inner \in DOMAIN fr)
    BY <1>4 DEF Placed
  <2>4. st2[k].pc = 0 => st[k].pc = 0
    <3>1. CASE k = n
      <4>1. st2[k].pc > 0 /\ st2[k].pc \in Nat
        BY <1>2, <3>1, ActivationFields DEF SamePlacement
      <4>. QED  BY <4>1
    <3>2. CASE k # n
      BY <2>1, <3>2
    <3>. QED  BY <3>1, <3>2
  <2>5. /\ st[k].frame \in DOMAIN fr2 /\ fr2[st[k].frame] = fr[st[k].frame]
        /\ st[k].inner # 0 => st[k].inner \in DOMAIN fr2 /\ fr2[st[k].inner] = fr[st[k].inner]
    BY <1>3, <2>3
  <2>6. PICK g, f2 : g = st[k] /\ f2 = st2[k]
    OBVIOUS
  <2>7. Placed(fr, g) /\ SamePlacement(g, f2)
    BY <1>4, <2>2, <2>6
  <2>8. Placed(fr2, f2)
    BY <2>4, <2>5, <2>6, <2>7, PlacedElsewhere
  <2>. QED  BY <2>2, <2>3, <2>6, <2>8 DEF Top, SamePlacement
<1>6. Placed(fr2, callee) /\ Top(callee) = Len(fr) + 1
  <2>1. callee.value \in [Value -> Pointer]
    BY <1>2, ActivationFields
  <2>2. /\ callee.frame \in DOMAIN fr2 /\ fr2[callee.frame] = callee.value
        /\ DOMAIN fr2[callee.frame] = Value
    BY <1>2, <1>3, <2>1
  <2>. QED  BY <1>2, <2>2 DEF Placed, Top
<1>7. Top(st[n]) = Len(fr)
  BY <1>1 DEF Stacked
<1>8. \A k \in DOMAIN st2 : k \in DOMAIN st \/ k = n + 1
  BY <1>1
<1>9. ASSUME NEW k \in DOMAIN st2, k # n + 1
      PROVE  st2[k].pc > 0 /\ st2[k + 1].frame = Top(st2[k]) + 1
  <2>1. k \in DOMAIN st
    BY <1>8, <1>9
  <2>2. CASE k = n
    BY <1>2, <1>5, <1>7, <2>1, <2>2
  <2>3. CASE k # n
    <3>1. st[k].pc > 0 /\ st[k + 1].frame = Top(st[k]) + 1
      BY <1>1, <2>1, <2>3 DEF Stacked
    <3>2. k + 1 \in DOMAIN st
      BY <1>1, <2>1, <2>3
    <3>. QED  BY <1>2, <1>5, <2>1, <2>3, <3>1, <3>2
  <2>. QED  BY <2>2, <2>3
<1>10. ASSUME NEW k \in DOMAIN st2, NEW l \in DOMAIN st2, k < l
       PROVE  Top(st2[k]) < st2[l].frame
  <2>1. k \in DOMAIN st
    BY <1>1, <1>10
  <2>2. CASE l = n + 1
    <3>1. Top(st[k]) \in 1 .. Len(fr)
      BY <1>3, <1>5, <2>1
    <3>2. Top(st2[k]) = Top(st[k])
      BY <1>5, <2>1
    <3>. QED  BY <1>2, <1>3, <2>2, <3>1, <3>2
  <2>3. CASE l # n + 1
    <3>1. l \in DOMAIN st
      BY <1>8, <2>3
    <3>2. Top(st[k]) < st[l].frame
      BY <1>1, <1>10, <2>1, <3>1 DEF Stacked
    <3>. QED  BY <1>5, <2>1, <3>1, <3>2
  <2>. QED  BY <2>2, <2>3
<1>11. st2 # << >> /\ st2[Len(st2)] = callee
  BY <1>1, <1>2
<1>12. \A k \in DOMAIN st2 : Placed(fr2, st2[k])
  BY <1>2, <1>5, <1>6, <1>8
<1>13. Len(fr2) = Top(st2[Len(st2)])
  BY <1>3, <1>6, <1>11
<1>. QED  BY <1>1, <1>9, <1>10, <1>11, <1>12, <1>13 DEF Stacked

\* The function at n + 1 returns to the one at n.
Returns(fr, fr2, st, st2, n, f) ==
  /\ n \in Nat \ {0} /\ st \in Seq(Activation) /\ Len(st) = n + 1 /\ Stacked(fr, st)
  /\ st2 \in Seq(Activation) /\ Len(st2) = n
  /\ \A k \in DOMAIN st2 : k # n => st2[k] = st[k]
  /\ st2[n] = f /\ SamePlacement(st[n], f) /\ f.pc > 0
  /\ st[n + 1].pc = 0
  /\ Len(fr) \in Nat /\ DOMAIN fr = 1 .. Len(fr)
  /\ Len(fr2) = Len(fr) - 1
  /\ \A k \in DOMAIN fr : k # Len(fr) => k \in DOMAIN fr2 /\ fr2[k] = fr[k]

LEMMA ReturnStacked ==
  ASSUME NEW fr, NEW fr2, NEW st, NEW st2, NEW n, NEW f,
         Returns(fr, fr2, st, st2, n, f)
  PROVE  /\ Stacked(fr2, st2)
         /\ \A k \in DOMAIN st2 :
              /\ fr2[st[k].frame] = fr[st[k].frame]
              /\ st[k].inner # 0 => fr2[st[k].inner] = fr[st[k].inner]
<1>1. /\ n \in Nat \ {0} /\ DOMAIN st = 1 .. (n + 1) /\ DOMAIN st2 = 1 .. n
      /\ n \in DOMAIN st2 /\ Len(st2) = n /\ Len(st) = n + 1
      /\ st \in Seq(Activation) /\ st2 \in Seq(Activation) /\ Stacked(fr, st)
  BY LenProperties DEF Returns
<1>2. /\ \A k \in DOMAIN st2 : k # n => st2[k] = st[k]
      /\ st2[n] = f /\ SamePlacement(st[n], f) /\ f.pc > 0
      /\ st[n + 1].pc = 0
  BY DEF Returns
<1>3. /\ Len(fr) \in Nat /\ DOMAIN fr = 1 .. Len(fr)
      /\ Len(fr2) = Len(fr) - 1
      /\ \A k \in DOMAIN fr : k # Len(fr) => k \in DOMAIN fr2 /\ fr2[k] = fr[k]
  BY DEF Returns
<1>4. \A k \in DOMAIN st : st[k] \in Activation /\ Placed(fr, st[k])
  BY <1>1, LenProperties DEF Stacked
<1>5. n + 1 \in DOMAIN st /\ \A k \in DOMAIN st2 : k \in DOMAIN st /\ k < n + 1
  BY <1>1
<1>6. Len(fr) = st[n + 1].frame
  <2>1. st[n + 1].inner = 0
    BY <1>2, <1>4, <1>5 DEF Placed
  <2>. QED  BY <1>1, <2>1 DEF Stacked, Top
<1>7. Len(fr) = Top(st[n]) + 1
  BY <1>1, <1>5, <1>6 DEF Stacked
<1>8. ASSUME NEW k \in DOMAIN st2
      PROVE  /\ Placed(fr2, st2[k]) /\ Top(st2[k]) = Top(st[k])
             /\ st2[k].frame = st[k].frame
             /\ fr2[st[k].frame] = fr[st[k].frame]
             /\ st[k].inner # 0 => fr2[st[k].inner] = fr[st[k].inner]
  <2>1. k \in DOMAIN st /\ k < n + 1
    BY <1>5
  <2>2. k # n => SamePlacement(st[k], st2[k]) /\ st2[k] = st[k]
    BY <1>2, <1>4, <2>1 DEF SamePlacement
  <2>3. SamePlacement(st[k], st2[k])
    BY <1>2, <2>2
  <2>4. /\ st[k].frame \in DOMAIN fr /\ (st[k].inner # 0 => st[k].inner \in DOMAIN fr)
    BY <1>4, <2>1 DEF Placed
  <2>5. st2[k].pc = 0 => st[k].pc = 0
    <3>1. CASE k = n
      <4>1. st2[k].pc > 0 /\ st2[k].pc \in Nat
        BY <1>2, <3>1, ActivationFields DEF SamePlacement
      <4>. QED  BY <4>1
    <3>2. CASE k # n
      BY <2>2, <3>2
    <3>. QED  BY <3>1, <3>2
  <2>6. st[k].frame # Len(fr) /\ (st[k].inner # 0 => st[k].inner # Len(fr))
    <3>1. /\ st[k].frame < st[n + 1].frame
          /\ st[k].inner # 0 => st[k].inner < st[n + 1].frame
      BY <1>1, <1>5, <2>1, WaitingFramesAreOlder
    <3>2. st[k].frame \in Nat /\ st[k].inner \in Nat
      BY <1>4, <2>1, ActivationFields
    <3>. QED  BY <1>3, <1>6, <3>1, <3>2
  <2>7. /\ st[k].frame \in DOMAIN fr2 /\ fr2[st[k].frame] = fr[st[k].frame]
        /\ st[k].inner # 0 => st[k].inner \in DOMAIN fr2 /\ fr2[st[k].inner] = fr[st[k].inner]
    BY <1>3, <2>4, <2>6
  <2>8. PICK g, f2 : g = st[k] /\ f2 = st2[k]
    OBVIOUS
  <2>9. Placed(fr, g) /\ SamePlacement(g, f2)
    BY <1>4, <2>1, <2>3, <2>8
  <2>10. Placed(fr2, f2)
    BY <2>5, <2>7, <2>8, <2>9, PlacedElsewhere
  <2>. QED  BY <2>3, <2>7, <2>8, <2>10 DEF Top, SamePlacement
<1>9. ASSUME NEW k \in DOMAIN st2, k # n
      PROVE  st2[k].pc > 0 /\ st2[k + 1].frame = Top(st2[k]) + 1
  <2>1. k \in DOMAIN st /\ k # n + 1 /\ k + 1 \in DOMAIN st2
    BY <1>1, <1>9
  <2>2. st[k].pc > 0 /\ st[k + 1].frame = Top(st[k]) + 1
    BY <1>1, <2>1 DEF Stacked
  <2>. QED  BY <1>2, <1>8, <1>9, <2>1, <2>2
<1>10. ASSUME NEW k \in DOMAIN st2, NEW l \in DOMAIN st2, k < l
       PROVE  Top(st2[k]) < st2[l].frame
  <2>1. Top(st[k]) < st[l].frame
    BY <1>1, <1>5, <1>10 DEF Stacked
  <2>. QED  BY <1>8, <2>1
<1>11. Len(fr2) = Top(st2[Len(st2)])
  <2>1. Top(st2[n]) = Top(st[n]) /\ st[n] \in Activation
    BY <1>1, <1>4, <1>5, <1>8
  <2>2. Top(st[n]) \in Nat
    BY <2>1, ActivationFields DEF Top
  <2>. QED  BY <1>1, <1>3, <1>7, <2>1, <2>2
<1>12. st2 # << >>
  BY <1>1
<1>13. Stacked(fr2, st2)
  BY <1>1, <1>8, <1>9, <1>10, <1>11, <1>12 DEF Stacked
<1>. QED  BY <1>8, <1>13

\* What is known of a function depends on its own frames only.
LEMMA DescribedElsewhere ==
  ASSUME NEW fact, NEW h, NEW fr, NEW fr2, NEW f, Describes(fact, h, fr, f),
         fr2[f.frame] = fr[f.frame],
         f.inner # 0 => fr2[f.inner] = fr[f.inner]
  PROVE  Describes(fact, h, fr2, f)
<1>1. Places(fr2, f) = Places(fr, f)
  BY DEF Places
<1>2. \A p \in Places(fr, f) : Slots(fr2, f, p) = Slots(fr, f, p)
  BY DEF Slots, Places, OwnPlaces
<1>. QED  BY <1>1, <1>2 DEF Describes

LEMMA StepCallKeeps ==
  ASSUME IInv, StepCall
  PROVE  IInv'
<1>1. ~Idle /\ Current.op \in {"call", "ask"} /\ UNCHANGED <<program, heap>>
  BY DEF StepCall, Runs
<1>2. PICK fact : /\ Describes(fact, heap, frames, Running)
                  /\ Admits(Current, fact)
                  /\ Successors(Current, Running.pc, fact) \subseteq
                       Explored(Emitted(Running.method))
  BY <1>1, OperationFacts
<1>3. PICK args, made :
        /\ args = [k \in DOMAIN Current.args |-> Reg(Current.args[k])]
        /\ made = IF Current.op = "call" THEN {Current.to} ELSE {}
  OBVIOUS
<1>4. PICK op, h, fr, fr2, st, st2, n, g, g1, f, callee :
        /\ op = Current /\ h = heap /\ fr = frames /\ fr2 = frames'
        /\ st = stack /\ st2 = stack'
        /\ n = Len(stack) /\ g = Running
        /\ g1 = IF op.op = "call" THEN [g EXCEPT !.register[op.to] = None] ELSE g
        /\ f = Advanced(g1) /\ callee = Entered(args, Len(fr) + 1)
  OBVIOUS
<1>5. /\ st2 = Append([st EXCEPT ![n] = f], callee) /\ fr2 = Append(fr, callee.value)
  BY <1>3, <1>4 DEF StepCall
<1>6. /\ g \in Activation /\ Placed(fr, g) /\ FramesSound(h, fr) /\ HeapSound(h)
      /\ Roots = RootsOf(fr) /\ RootsOf(fr) \subseteq DOMAIN h \union {None}
      /\ Len(fr) \in Nat /\ DOMAIN fr = 1 .. Len(fr) /\ Describes(fact, h, fr, g)
      /\ g.pc \in Nat \ {0} /\ g.method \in program.methods /\ g.value[g.result] = None
      /\ st \in Seq(Activation) /\ Stacked(fr, st) /\ n \in DOMAIN st /\ st[n] = g
  BY <1>1, <1>2, <1>4, RunningFacts, OperationFacts DEF IInv, Running
<1>7. /\ n \in Nat \ {0} /\ DOMAIN st = 1 .. n /\ Len(st) = n
  BY <1>4, <1>6, LenProperties
<1>8. made \in SUBSET Register
  BY <1>1, <1>2, <1>3 DEF Admits
<1>9. /\ g1 \in Activation /\ Continues(g, g1) /\ g1.inner = g.inner /\ g1.pc = g.pc
      /\ \A r \in Register : g1.register[r] = IF r \in made THEN None ELSE g.register[r]
  <2>1. CASE op.op = "call"
    <3>1. PICK to \in Register : to = op.to
      BY <1>3, <1>4, <1>8, <2>1
    <3>2. g1 = [g EXCEPT !.register[to] = None] /\ None \in Pointer /\ made = {to}
      BY <1>3, <1>4, <2>1, <3>1 DEF Pointer
    <3>3. /\ g1 \in Activation /\ Continues(g, g1) /\ g1.inner = g.inner /\ g1.pc = g.pc
          /\ g1.register = [g.register EXCEPT ![to] = None]
      BY <1>6, <3>2, ActivationFields DEF Activation, Continues
    <3>4. g.register \in [Register -> Pointer]
      BY <1>6, ActivationFields
    <3>. QED  BY <3>2, <3>3, <3>4
  <2>2. CASE op.op # "call"
    BY <1>3, <1>4, <1>6, <2>2 DEF Continues
  <2>. QED  BY <2>1, <2>2
<1>10. /\ Continues(g1, f) /\ f.inner = g1.inner /\ f.pc = g1.pc + 1
       /\ f.register = g1.register
  BY <1>4, <1>9, AdvanceFields
<1>11. /\ Continues(g, f) /\ f.inner = g.inner /\ f.pc = g.pc + 1 /\ f.pc > 0
       /\ \A r \in Register : f.register[r] = IF r \in made THEN None ELSE g.register[r]
       /\ f.pc - 1 = g.pc
  BY <1>6, <1>9, <1>10 DEF Continues
<1>12. /\ callee \in Activation /\ callee.frame = Len(fr) + 1 /\ callee.inner = 0
       /\ callee.pc = 0
       /\ DOMAIN callee.value = Value
       /\ \A v \in Value : callee.value[v] \in DOMAIN h \union {None}
  <2>1. \A k \in DOMAIN args : args[k] \in DOMAIN h \union {None}
    <3> SUFFICES ASSUME NEW k \in DOMAIN args
                 PROVE  args[k] \in DOMAIN h \union {None}
      OBVIOUS
    <3>1. k \in DOMAIN Current.args /\ args[k] = Reg(Current.args[k])
      BY <1>3
    <3>2. Current.args[k] \in fact.live
      BY <1>1, <1>2, <3>1 DEF Admits
    <3>. QED  BY <1>2, <1>4, <3>1, <3>2 DEF Describes, Reg
  <2>2. PICK val : val = [v \in Value |-> IF v \in DOMAIN args THEN args[v] ELSE None]
    OBVIOUS
  <2>3. DOMAIN val = Value /\ \A v \in Value : val[v] \in DOMAIN h \union {None}
    BY <2>1, <2>2
  <2>4. val \in [Value -> Pointer]
    <3>1. DOMAIN h \union {None} \subseteq Pointer
      BY <1>6, UsedArePointers
    <3>. QED  BY <2>2, <2>3, <3>1
  <2>5. callee = [ value |-> val, frame |-> Len(fr) + 1, method |-> "none", pc |-> 0,
                   register |-> NoRegisters, result |-> 1, inner |-> 0 ]
    BY <1>4, <2>2 DEF Entered
  <2>6. 1 \in Value /\ NoRegisters \in [Register -> Pointer] /\ Len(fr) + 1 \in Nat
    BY <1>6, RootsAssumption DEF Value, NoRegisters, Pointer
  <2>. QED  BY <2>3, <2>4, <2>5, <2>6 DEF Activation
<1>13. /\ st2 \in Seq(Activation) /\ Len(st2) = n + 1 /\ DOMAIN st2 = 1 .. (n + 1)
       /\ \A k \in DOMAIN st : k # n => st2[k] = st[k]
       /\ st2[n] = f /\ st2[n + 1] = callee
  <2>1. PICK s : s = [st EXCEPT ![n] = f]
    OBVIOUS
  <2>2. f \in Activation
    BY <1>11 DEF Continues
  <2>3. s \in Seq(Activation) /\ Len(s) = n /\ DOMAIN s = 1 .. n
    BY <1>6, <1>7, <2>1, <2>2, ReplaceSound, LenProperties
  <2>4. s[n] = f /\ \A k \in DOMAIN st : k # n => s[k] = st[k]
    BY <1>6, <2>1
  <2>5. st2 = Append(s, callee)
    BY <1>5, <2>1
  <2>6. /\ st2 \in Seq(Activation) /\ Len(st2) = n + 1
        /\ \A k \in 1 .. n : st2[k] = s[k]
        /\ st2[n + 1] = callee
    BY <1>12, <2>3, <2>5, AppendProperties
  <2>7. DOMAIN st2 = 1 .. (n + 1)
    BY <2>6, LenProperties
  <2>. QED  BY <1>7, <2>4, <2>6, <2>7
<1>14. /\ FramesSound(h, fr2) /\ Len(fr2) = Len(fr) + 1 /\ Len(fr) + 1 \in DOMAIN fr2
       /\ fr2[Len(fr) + 1] = callee.value
       /\ \A k \in DOMAIN fr : k \in DOMAIN fr2 /\ fr2[k] = fr[k]
  <2>1. PICK x : x = callee.value
    OBVIOUS
  <2>2. \A s \in DOMAIN x : x[s] \in DOMAIN h \union {None}
    BY <1>12, <2>1
  <2>3. FramesSound(h, fr) /\ fr2 = Append(fr, x)
    BY <1>5, <1>6, <2>1
  <2>. QED  BY <2>1, <2>2, <2>3, FramePushed
<1>15. Stacked(fr2, st2)
  <2>1. Calls(fr, fr2, st, st2, n, f, callee)
    BY <1>6, <1>7, <1>11, <1>12, <1>13, <1>14 DEF Calls, SamePlacement, Continues
  <2>. QED  BY <2>1, CallStacked
<1>16. Known(h, fr2, f, Emitted(f.method), TRUE)
  <2>1. PICK fact2 : fact2 = Collected(fact, made)
    OBVIOUS
  <2>2. fact2 = After(Current, fact)
    BY <1>1, <1>3, <2>1, AfterFacts
  <2>3. <<f.pc, fact2>> \in Explored(Emitted(f.method))
    BY <1>1, <1>2, <1>4, <1>11, <2>2, SuccessorFacts DEF Continues
  <2>4. Describes(fact2, h, fr, f)
    <3>1. SameFrames(g, f)
      BY <1>11 DEF Continues, SameFrames
    <3>2. /\ \A r \in Register \ made : f.register[r] = g.register[r]
          /\ \A r \in made : f.register[r] \in DOMAIN h \union {None}
      BY <1>8, <1>11
    <3>3. Outlives(h, h, RootsOf(fr))
      BY SameHeapOutlives
    <3>. QED  BY <1>6, <1>8, <2>1, <3>1, <3>2, <3>3, CollectedDescribes
  <2>5. Describes(fact2, h, fr2, f)
    <3>1. /\ fr2[f.frame] = fr[f.frame]
          /\ f.inner # 0 => fr2[f.inner] = fr[f.inner]
      BY <1>6, <1>11, <1>14 DEF Placed, Continues
    <3>. QED  BY <2>4, <3>1, DescribedElsewhere
  <2>6. Waits(fact2, f, Current)
    <3>1. /\ fact2.live = HeldRegisters(fact) \union made
          /\ HeldRegisters(fact2) = HeldRegisters(fact) \ made
      BY <2>1 DEF Collected, HeldRegisters
    <3>2. \A r \in fact2.live : r \in HeldRegisters(fact2) \/ f.register[r] = None
      BY <1>8, <1>11, <3>1
    <3>3. Current.op = "call" => Current.to \in Register \ HeldRegisters(fact2)
      BY <1>3, <1>8, <3>1
    <3>. QED  BY <1>1, <3>2, <3>3 DEF Waits
  <2>7. Current = Emitted(f.method)[f.pc - 1]
    BY <1>4, <1>11 DEF Current, Instruction, Continues
  <2>8. PICK e \in Explored(Emitted(f.method)) : e = <<f.pc, fact2>>
    BY <2>3
  <2>. QED  BY <2>5, <2>6, <2>7, <2>8 DEF Known
<1>17. ASSUME NEW k \in DOMAIN st2
       PROVE  MethodSound(h, fr2, st2[k], k # n + 1)
  <2>1. CASE k = n + 1
    BY <1>12, <1>13, <2>1 DEF MethodSound
  <2>2. CASE k = n
    <3>1. f.method \in program.methods /\ f.value[f.result] = None
      BY <1>6, <1>11 DEF Continues
    <3>2. k # n + 1
      BY <1>7, <2>2
    <3>. QED  BY <1>13, <1>16, <2>2, <3>1, <3>2 DEF MethodSound
  <2>3. CASE k \notin {n, n + 1}
    <3>1. k \in DOMAIN st /\ st2[k] = st[k]
      BY <1>7, <1>13, <2>3
    <3>2. MethodSound(h, fr, st[k], TRUE)
      BY <1>4, <2>3, <3>1 DEF IInv
    <3>3. PICK a, code : a = st[k] /\ code = Emitted(a.method)
      OBVIOUS
    <3>4. a \in Activation /\ Placed(fr, a)
      BY <1>6, <3>1, <3>3, LenProperties DEF Stacked
    <3>5. /\ fr2[a.frame] = fr[a.frame]
          /\ a.inner # 0 => fr2[a.inner] = fr[a.inner]
      BY <1>14, <3>4 DEF Placed
    <3>6. \A p \in Places(fr, a) : Slots(fr, a, p) \subseteq RootsOf(fr)
      BY <3>4, PlacesAreRoots
    <3>7. Outlives(h, h, RootsOf(fr))
      BY SameHeapOutlives
    <3>8. Known(h, fr, a, code, TRUE) => Known(h, fr2, a, code, TRUE)
      BY <3>5, <3>6, <3>7, WaitingStays
    <3>9. MethodSound(h, fr2, a, TRUE)
      BY <3>2, <3>3, <3>8 DEF MethodSound
    <3>. QED  BY <2>3, <3>1, <3>3, <3>9
  <2>. QED  BY <2>1, <2>2, <2>3
<1>18. \A k \in DOMAIN stack' : MethodSound(heap, frames, stack[k], k # Len(stack))'
  BY <1>1, <1>4, <1>13, <1>17 DEF MethodSound, Emitted
<1>. QED  BY <1>1, <1>4, <1>6, <1>13, <1>14, <1>15, <1>18 DEF IInv

\* A register that is in no place gets the result that the function waited for.
LEMMA ReturnDescribes ==
  ASSUME NEW fact, NEW h, NEW fr, NEW g, NEW f, NEW to, NEW p,
         Describes(fact, h, fr, g), SameFrames(g, f),
         to \notin HeldRegisters(fact), p \in DOMAIN h \union {None},
         \A r \in Register : f.register[r] = IF r = to THEN p ELSE g.register[r]
  PROVE  Describes(fact, h, fr, f)
<1>1. /\ Places(fr, f) = Places(fr, g)
      /\ \A q : Slots(fr, f, q) = Slots(fr, g, q)
  BY SamePlaces
<1>2. \A r \in fact.live : f.register[r] \in DOMAIN h \union {None}
  BY DEF Describes
<1>3. \A q \in Places(fr, g) : \A r \in fact.holds[q] : r \in Register /\ r # to
  BY DEF Describes, HeldRegisters
<1>4. \A q \in Places(fr, g) : \A r \in fact.holds[q] : f.register[r] = g.register[r]
  BY <1>3
<1>. QED  BY <1>1, <1>2, <1>4 DEF Describes

LEMMA ReturnKeeps ==
  ASSUME IInv, NEW v \in Value, Return(v)
  PROVE  IInv'
<1>1. Idle /\ UNCHANGED <<program, heap>> /\ Len(stack) > 1
  BY DEF Return
<1>2. PICK h, fr, fr2, st, st2, n, g, code, p :
        /\ h = heap /\ fr = frames /\ fr2 = frames' /\ st = stack /\ st2 = stack'
        /\ n = Len(stack) - 1 /\ g = st[n] /\ code = Emitted(g.method)
        /\ p = Running.value[v]
  OBVIOUS
<1>3. /\ FramesSound(h, fr) /\ HeapSound(h) /\ Len(fr) \in Nat /\ DOMAIN fr = 1 .. Len(fr)
      /\ st \in Seq(Activation) /\ Stacked(fr, st)
      /\ Placed(fr, Running) /\ Running \in Activation
  BY <1>2, RunningFacts DEF IInv
<1>4. /\ n \in Nat \ {0} /\ Len(st) = n + 1 /\ DOMAIN st = 1 .. (n + 1)
      /\ n \in DOMAIN st /\ n + 1 \in DOMAIN st /\ n # Len(st)
  BY <1>1, <1>2, <1>3, LenProperties
<1>5. /\ g \in Activation /\ Placed(fr, g) /\ g.pc > 0 /\ st[n + 1] = Running
  BY <1>2, <1>3, <1>4, LenProperties DEF Stacked, Running
<1>6. /\ g.method \in program.methods /\ g.value[g.result] = None
      /\ Known(h, fr, g, code, TRUE)
  <2>1. MethodSound(h, fr, g, n # Len(st))
    BY <1>2, <1>4 DEF IInv
  <2>2. MethodSound(h, fr, g, TRUE)
    BY <1>4, <2>1
  <2>. QED  BY <1>2, <1>5, <2>2 DEF MethodSound
<1>7. PICK e \in Explored(code) : /\ e[1] = g.pc
                                  /\ Describes(e[2], h, fr, g)
                                  /\ Waits(e[2], g, code[g.pc - 1])
  BY <1>6 DEF Known
<1>8. PICK call, outer, fact :
        call = code[g.pc - 1] /\ outer = SubSeq(st, 1, n) /\ fact = e[2]
  OBVIOUS
<1>9. PICK f : f = IF call.op = "call" THEN [g EXCEPT !.register[call.to] = p] ELSE g
  OBVIOUS
<1>10. p \in DOMAIN h \union {None} /\ p \in Pointer
  BY <1>2, <1>3, ValuesAreRooted, UsedArePointers
<1>11. /\ SamePlacement(g, f) /\ f.pc = g.pc /\ SameFrames(g, f)
       /\ Describes(fact, h, fr, f)
  <2>1. CASE call.op = "call"
    <3>1. PICK to \in Register : to = call.to /\ to \notin HeldRegisters(fact)
      BY <1>7, <1>8, <2>1 DEF Waits
    <3>2. f = [g EXCEPT !.register[to] = p]
      BY <1>9, <2>1, <3>1
    <3>3. /\ SamePlacement(g, f) /\ f.pc = g.pc
          /\ f.register = [g.register EXCEPT ![to] = p]
      BY <1>5, <1>10, <3>2, ActivationFields DEF Activation, SamePlacement
    <3>4. \A r \in Register : f.register[r] = IF r = to THEN p ELSE g.register[r]
      BY <1>5, <3>3, ActivationFields
    <3>5. SameFrames(g, f)
      BY <3>3 DEF SamePlacement, SameFrames
    <3>6. Describes(fact, h, fr, g)
      BY <1>7, <1>8
    <3>7. Describes(fact, h, fr, f)
      BY <1>10, <3>1, <3>4, <3>5, <3>6, ReturnDescribes
    <3>. QED  BY <3>3, <3>5, <3>7
  <2>2. CASE call.op # "call"
    BY <1>5, <1>7, <1>8, <1>9, <2>2 DEF SamePlacement, SameFrames
  <2>. QED  BY <2>1, <2>2
<1>12. /\ outer \in Seq(Activation) /\ Len(outer) = n /\ DOMAIN outer = 1 .. n
       /\ \A k \in 1 .. n : outer[k] = st[k]
  <2>1. outer = Front(st)
    BY <1>4, <1>8 DEF Front
  <2>2. st # << >>
    BY <1>4
  <2>3. /\ outer \in Seq(Activation) /\ Len(outer) = Len(st) - 1
        /\ DOMAIN outer = 1 .. Len(st) - 1
        /\ \A k \in DOMAIN outer : outer[k] = st[k]
    BY <1>3, <2>1, <2>2, FrontProperties
  <2>4. Len(st) - 1 = n
    BY <1>4
  <2>. QED  BY <2>3, <2>4
<1>13. /\ st2 \in Seq(Activation) /\ Len(st2) = n /\ DOMAIN st2 = 1 .. n
       /\ \A k \in DOMAIN st2 : k # n => st2[k] = st[k]
       /\ st2[n] = f
  <2>1. n \in DOMAIN outer /\ outer[n] = g
    BY <1>2, <1>4, <1>12
  <2>2. st2 = IF call.op = "call" THEN [outer EXCEPT ![n].register[call.to] = p] ELSE outer
    BY <1>2, <1>8, <1>12 DEF Return
  <2>3. CASE call.op = "call"
    <3>1. st2 = [outer EXCEPT ![n] = f]
      BY <1>9, <2>1, <2>2, <2>3
    <3>2. f \in Activation
      BY <1>11 DEF SamePlacement
    <3>3. st2 \in Seq(Activation) /\ Len(st2) = Len(outer)
      BY <1>12, <2>1, <3>1, <3>2, ReplaceSound
    <3>4. /\ DOMAIN st2 = DOMAIN outer /\ st2[n] = f
          /\ \A k \in DOMAIN outer : k # n => st2[k] = outer[k]
      BY <2>1, <3>1
    <3>. QED  BY <1>12, <3>3, <3>4
  <2>4. CASE call.op # "call"
    <3>1. st2 = outer /\ f = g
      BY <1>9, <2>2, <2>4
    <3>. QED  BY <1>12, <2>1, <3>1
  <2>. QED  BY <2>3, <2>4
<1>14. /\ FramesSound(h, fr2) /\ Len(fr2) = Len(fr) - 1
       /\ \A k \in DOMAIN fr : k # Len(fr) => k \in DOMAIN fr2 /\ fr2[k] = fr[k]
  <2>1. fr2 = SubSeq(fr, 1, Len(fr) - 1)
    BY <1>2 DEF Return
  <2>2. Len(fr) # 0
    BY <1>3 DEF Placed
  <2>3. FramesSound(h, fr)
    BY <1>3
  <2>. QED  BY <2>1, <2>2, <2>3, FramePopped
<1>15. /\ Stacked(fr2, st2)
       /\ \A k \in DOMAIN st2 :
            /\ fr2[st[k].frame] = fr[st[k].frame]
            /\ st[k].inner # 0 => fr2[st[k].inner] = fr[st[k].inner]
  <2>1. st[n + 1].pc = 0 /\ f.pc > 0 /\ SamePlacement(st[n], f)
    BY <1>1, <1>2, <1>5, <1>11 DEF Idle
  <2>2. Returns(fr, fr2, st, st2, n, f)
    BY <1>3, <1>4, <1>13, <1>14, <2>1 DEF Returns
  <2>. QED  BY <2>2, ReturnStacked
<1>16. Known(h, fr2, f, code, FALSE)
  <2>1. /\ fr2[f.frame] = fr[f.frame]
        /\ f.inner # 0 => fr2[f.inner] = fr[f.inner]
    BY <1>2, <1>4, <1>11, <1>13, <1>15 DEF SamePlacement
  <2>2. Describes(fact, h, fr2, f)
    BY <1>11, <2>1, DescribedElsewhere
  <2>. QED  BY <1>7, <1>8, <1>11, <2>2 DEF Known
<1>17. ASSUME NEW k \in DOMAIN st2
       PROVE  MethodSound(h, fr2, st2[k], k # n)
  <2>1. CASE k = n
    BY <1>2, <1>6, <1>11, <1>13, <1>16, <2>1 DEF MethodSound, SamePlacement
  <2>2. CASE k # n
    <3>1. k \in DOMAIN st /\ st2[k] = st[k] /\ k # Len(st)
      BY <1>4, <1>13, <2>2
    <3>2. MethodSound(h, fr, st[k], TRUE)
      BY <1>2, <3>1 DEF IInv
    <3>3. PICK a, c : a = st[k] /\ c = Emitted(a.method)
      OBVIOUS
    <3>4. a \in Activation /\ Placed(fr, a)
      BY <1>3, <3>1, <3>3, LenProperties DEF Stacked
    <3>5. /\ fr2[a.frame] = fr[a.frame]
          /\ a.inner # 0 => fr2[a.inner] = fr[a.inner]
      BY <1>15, <3>3
    <3>6. \A q \in Places(fr, a) : Slots(fr, a, q) \subseteq RootsOf(fr)
      BY <3>4, PlacesAreRoots
    <3>7. Outlives(h, h, RootsOf(fr))
      BY SameHeapOutlives
    <3>8. Known(h, fr, a, c, TRUE) => Known(h, fr2, a, c, TRUE)
      BY <3>5, <3>6, <3>7, WaitingStays
    <3>9. MethodSound(h, fr2, a, TRUE)
      BY <3>2, <3>3, <3>8 DEF MethodSound
    <3>. QED  BY <2>2, <3>1, <3>3, <3>9
  <2>. QED  BY <2>1, <2>2
<1>18. \A k \in DOMAIN stack' : MethodSound(heap, frames, stack[k], k # Len(stack))'
  BY <1>1, <1>2, <1>13, <1>17 DEF MethodSound, Emitted
<1>. QED  BY <1>1, <1>2, <1>3, <1>13, <1>14, <1>15, <1>18 DEF IInv

-----------------------------------------------------------------------------
(* The invariant holds, and the properties follow from it.                 *)

\* The main function starts: its frame is the only one, and empty.
LEMMA InitSound ==
  ASSUME Init
  PROVE  IInv
<1>1. PICK f, fr : f = Entered(<< >>, 1) /\ fr = [v \in Value |-> None]
  OBVIOUS
<1>2. 1 \in Value /\ None \in Pointer
  BY RootsAssumption DEF Value, Pointer
<1>3. /\ f.value = fr /\ f.frame = 1 /\ f.method = "none" /\ f.pc = 0
      /\ f.inner = 0 /\ f.register = NoRegisters /\ f.result = 1
  BY <1>1 DEF Entered
<1>4. f \in Activation
  <2>1. fr \in [Value -> Pointer] /\ NoRegisters \in [Register -> Pointer]
    BY <1>1, <1>2 DEF NoRegisters
  <2>2. f = [ value |-> f.value, frame |-> f.frame, method |-> f.method,
              pc |-> f.pc, register |-> f.register, result |-> f.result,
              inner |-> f.inner ]
    BY <1>1 DEF Entered
  <2>. QED  BY <1>2, <1>3, <2>1, <2>2 DEF Activation
<1>5. /\ program \in Programs
      /\ heap = << >> /\ frames = << fr >> /\ stack = << f >>
  BY <1>1 DEF Init
<1>6. stack \in Seq(Activation)
  BY <1>4, <1>5
<1>7. HeapSound(heap)
  BY <1>5 DEF HeapSound
<1>8. FramesSound(heap, frames)
  <2>1. \A k \in DOMAIN frames : frames[k] = fr
    BY <1>5
  <2>2. frames \in Seq({frames[k] : k \in DOMAIN frames})
    <3>1. frames \in Seq({fr})
      BY <1>5
    <3>2. {frames[k] : k \in DOMAIN frames} = {fr}
      BY <1>5
    <3>. QED  BY <3>1, <3>2
  <2>3. \A s \in DOMAIN fr : fr[s] = None
    BY <1>1
  <2>. QED  BY <2>1, <2>2, <2>3 DEF FramesSound
<1>9. Placed(frames, f)
  <2>1. frames[1] = fr /\ 1 \in DOMAIN frames /\ DOMAIN fr = Value
    BY <1>1, <1>5
  <2>. QED  BY <1>3, <2>1 DEF Placed
<1>10. Stacked(frames, stack)
  <2>1. /\ stack # << >> /\ Len(stack) = 1 /\ DOMAIN stack = {1}
        /\ stack[1] = f /\ Len(frames) = 1
    BY <1>5
  <2>2. Top(f) = 1
    BY <1>3 DEF Top
  <2>. QED  BY <1>9, <2>1, <2>2 DEF Stacked
<1>11. \A k \in DOMAIN stack : MethodSound(heap, frames, stack[k], k # Len(stack))
  BY <1>3, <1>5 DEF MethodSound
<1>. QED  BY <1>5, <1>6, <1>7, <1>8, <1>10, <1>11 DEF IInv

\* Every instruction and every emitted operation keeps the invariant.
LEMMA NextKeeps ==
  ASSUME IInv, [Next]_vars
  PROVE  IInv'
<1>1. ASSUME NEW v \in Value, Construct(v)  PROVE IInv'
  BY <1>1, ConstructStep
<1>2. ASSUME NEW v \in Value, Return(v)  PROVE IInv'
  BY <1>2, ReturnKeeps
<1>3. ASSUME NEW v \in Value, NEW u \in Value, GetField(v, u)  PROVE IInv'
  BY <1>3, GetFieldStep
<1>4. ASSUME NEW v \in Value, NEW u \in Value, BlockParam(v, u)  PROVE IInv'
  BY <1>4, BlockParamStep
<1>5. ASSUME NEW v \in Value, NEW m \in program.methods, NEW u \in Value,
             NEW w \in Value, StartMethod(v, m, u, w)
      PROVE  IInv'
  BY <1>5, StartMethodStep
<1>6. CASE StepAlloc \/ StepCopy \/ StepStore \/ StepLoad \/ StepMove \/ StepSwap
  BY <1>6, StepAllocKeeps, StepCopyKeeps, StepStoreKeeps, StepLoadKeeps,
     StepMoveKeeps, StepSwapKeeps
<1>7. CASE StepEach \/ StepBranch \/ StepGoto \/ StepCall
  BY <1>7, StepEachKeeps, StepBranchKeeps, StepGotoKeeps, StepCallKeeps
<1>8. CASE \/ StepRootResult \/ StepPushFrame \/ StepRootAt \/ StepPopFrame
           \/ StepResult \/ StepEnd
  BY <1>8, StepRootResultKeeps, StepPushFrameKeeps, StepRootAtKeeps,
     StepPopFrameKeeps, StepResultKeeps, StepEndKeeps
<1>9. CASE UNCHANGED vars
  BY <1>9 DEF vars, IInv, MethodSound, Emitted
<1>. QED  BY <1>1, <1>2, <1>3, <1>4, <1>5, <1>6, <1>7, <1>8, <1>9 DEF Next

LEMMA InvariantHolds == Spec => []IInv
<1>. QED  BY InitSound, NextKeeps, PTL DEF Spec

\* What a method's next operation reads is allocated: the check has admitted
\* the operation where the method is, and what it knows there is true.  That
\* goes for a function that waits for a call, too.
LEMMA OperandsAreLive ==
  ASSUME IInv
  PROVE  OperandsLive
<1>. SUFFICES ASSUME NEW k \in DOMAIN stack, stack[k].pc > 0,
                     NEW r \in Instruction(stack[k]).reads
              PROVE  InUse(stack[k].register[r])
  BY DEF OperandsLive
<1>1. PICK f, code : f = stack[k] /\ code = Emitted(f.method)
  OBVIOUS
<1>2. f.method \in program.methods /\ \E waits : Known(heap, frames, f, code, waits)
  BY <1>1 DEF IInv, MethodSound
<1>3. PICK e \in Explored(code) : e[1] = f.pc /\ Describes(e[2], heap, frames, f)
  BY <1>2 DEF Known
<1>4. Certifies(Explored(code), code)
  BY <1>1, <1>2, MethodChecked
<1>5. Admits(code[f.pc], e[2])
  BY <1>3, <1>4 DEF Certifies
<1>6. r \in e[2].live
  BY <1>1, <1>5 DEF Admits, Instruction
<1>. QED  BY <1>1, <1>3, <1>6 DEF Describes, InUse

\* A value is in the slot of its function's frame, and what the frames hold is
\* allocated.
LEMMA ValuesAreLive ==
  ASSUME IInv
  PROVE  ValuesLive
<1>. SUFFICES ASSUME NEW k \in DOMAIN stack, NEW v \in Value
              PROVE  InUse(stack[k].value[v])
  BY DEF ValuesLive
<1>1. Placed(frames, stack[k]) /\ FramesSound(heap, frames)
  BY DEF IInv, Stacked
<1>2. PICK n : n = stack[k].frame
  OBVIOUS
<1>3. /\ n \in DOMAIN frames /\ v \in DOMAIN frames[n]
      /\ stack[k].value[v] \in {None, frames[n][v]}
  BY <1>1, <1>2 DEF Placed
<1>4. frames[n][v] \in DOMAIN heap \union {None}
  BY <1>1, <1>3 DEF FramesSound
<1>. QED  BY <1>3, <1>4 DEF InUse

\* The newest frame is that of the running function, or the one its method
\* pushed; a method that pops one has pushed it.
LEMMA NewestIsPopped ==
  ASSUME IInv
  PROVE  PopsNewest
<1>1. Placed(frames, Running) /\ Len(frames) = Top(Running) /\ Running \in Activation
  BY RunningFacts
<1>2. Idle => Running.frame = Len(frames)
  BY <1>1 DEF Idle, Placed, Top
<1>3. ASSUME Runs("pop")
      PROVE  Running.inner = Len(frames)
  <2>1. PICK fact : Describes(fact, heap, frames, Running) /\ Admits(Current, fact)
    BY <1>3, OperationFacts DEF Runs
  <2>2. Current.op = "pop"
    BY <1>3 DEF Runs
  <2>3. Places(frames, Running) # OwnPlaces
    BY <2>1, <2>2 DEF Admits, Describes
  <2>4. Running.inner # 0
    BY <2>3 DEF Places
  <2>. QED  BY <1>1, <2>4 DEF Top
<1>. QED  BY <1>2, <1>3 DEF PopsNewest

\* The program, the heap, the shadow stack and the functions under way have
\* their types: slots hold pointers, never the slot numbers or counts that the
\* emitted code computes next to them.
THEOREM TypeCorrect == Spec => []TypeOK
<1>1. ASSUME IInv PROVE TypeOK
  <2>1. HeapSound(heap) /\ FramesSound(heap, frames)
    BY <1>1 DEF IInv
  <2>2. DOMAIN heap \union {None} \subseteq Pointer
    BY <2>1, UsedArePointers
  <2>3. DOMAIN heap \subseteq Obj /\ \A o \in DOMAIN heap : heap[o] \subseteq Pointer
    BY <2>1, <2>2 DEF HeapSound
  <2>4. \A k \in DOMAIN frames : \A s \in DOMAIN frames[k] : frames[k][s] \in Pointer
    BY <2>1, <2>2 DEF FramesSound
  <2>. QED  BY <1>1, <2>3, <2>4 DEF TypeOK, IInv
<1>. QED  BY <1>1, InvariantHolds, PTL

\* No compiled function touches freed memory, whatever the functions and the
\* closures it calls allocate and collect: this is for all heaps, depths and
\* numbers of values, and for all programs whose methods pass the check of
\* RootDiscipline, which all methods of the wasm32-linear back end do, and all
\* those of the native one but for the five that keep an intermediate in no
\* slot (translate/list_methods.rs, translate/option_methods.rs and
\* translate/result_methods.rs).
THEOREM NothingFreed == Spec => []NothingFreedIsUsed
<1>1. ASSUME IInv PROVE NothingFreedIsUsed
  BY <1>1, ValuesAreLive, OperandsAreLive DEF NothingFreedIsUsed
<1>. QED  BY <1>1, InvariantHolds, PTL

\* phx_gc_pop_frame always finds the frame that it is given on top of the
\* shadow stack, and so never aborts.
THEOREM FramesPopInOrder == Spec => []PopsNewest
<1>1. ASSUME IInv PROVE PopsNewest
  BY <1>1, NewestIsPopped
<1>. QED  BY <1>1, InvariantHolds, PTL
=============================================================================
