-------------------------- MODULE PhoenixGCProofs --------------------------
(***************************************************************************)
(* Proofs about PhoenixGC for any number of threads, addresses, frames,    *)
(* slots and pins, and any sizes that the header can hold.                 *)
(***************************************************************************)
EXTENDS PhoenixGC, FiniteSetTheorems, FunctionTheorems, SequenceTheorems, TLAPS

\* Every payload the program asks for is smaller than the header's size field
\* can tell (4 GiB). Without this the properties below are false.
SizesFit == MaxPayload < SizeModulus

-----------------------------------------------------------------------------
(* The byte count of a set of objects.                                     *)

Cells(S, f) == {c \in S \X (1 .. MaxPayload) : c[2] <= f[c[1]]}

\* A count of bytes is a finite number.
LEMMA BytesFinite ==
  ASSUME NEW S \in SUBSET Addr, NEW f
  PROVE  IsFiniteSet(Cells(S, f)) /\ Bytes(S, f) \in Nat
<1>1. IsFiniteSet(S) /\ IsFiniteSet(1 .. MaxPayload)
  BY AddrAssumption, SizeAssumption, FS_Subset, FS_Interval
<1>2. IsFiniteSet(S \X (1 .. MaxPayload))
  BY <1>1, FS_Product
<1>3. Cells(S, f) \in SUBSET (S \X (1 .. MaxPayload))
  BY DEF Cells
<1>4. IsFiniteSet(Cells(S, f))
  BY <1>2, <1>3, FS_Subset
<1>. QED  BY <1>4, FS_CardinalityType DEF Bytes, Cells

\* The bytes of a set are those of a subset and those of the rest.
LEMMA BytesSplit ==
  ASSUME NEW S \in SUBSET Addr, NEW T \in SUBSET S, NEW f
  PROVE  Bytes(S, f) = Bytes(T, f) + Bytes(S \ T, f)
<1>1. IsFiniteSet(Cells(T, f)) /\ IsFiniteSet(Cells(S \ T, f))
  BY BytesFinite
<1>2. Cells(S, f) = Cells(T, f) \cup Cells(S \ T, f)
  BY DEF Cells
<1>3. Cells(T, f) \cap Cells(S \ T, f) = {}
  BY DEF Cells
<1>4. Cardinality(Cells(S, f)) =
        Cardinality(Cells(T, f)) + Cardinality(Cells(S \ T, f)) - Cardinality({})
  BY <1>1, <1>2, <1>3, FS_Union, Zenon
<1>5. Cardinality(Cells(T, f)) \in Nat /\ Cardinality(Cells(S \ T, f)) \in Nat
  BY <1>1, FS_CardinalityType
<1>. QED  BY <1>4, <1>5, FS_EmptySet DEF Bytes, Cells

\* Only the sizes of the set's own objects matter.
LEMMA BytesSame ==
  ASSUME NEW S, NEW f, NEW g, \A a \in S : f[a] = g[a]
  PROVE  Bytes(S, f) = Bytes(S, g)
<1>1. Cells(S, f) = Cells(S, g)
  BY DEF Cells
<1>. QED  BY <1>1 DEF Bytes, Cells

\* The bytes of one object are its size.
LEMMA BytesOne ==
  ASSUME NEW a \in Addr, NEW f, f[a] \in 0 .. MaxPayload
  PROVE  Bytes({a}, f) = f[a]
<1>1. IsFiniteSet(1 .. f[a]) /\ Cardinality(1 .. f[a]) = f[a]
  BY FS_Interval
<1>. DEFINE pair == [i \in 1 .. f[a] |-> <<a, i>>]
<1>2. \A i \in 1 .. f[a] : pair[i] \in Cells({a}, f)
  BY SizeAssumption DEF Cells
<1>3. \A i, j \in 1 .. f[a] : pair[i] = pair[j] => i = j
  OBVIOUS
<1>4. \A c \in Cells({a}, f) : \E i \in 1 .. f[a] : pair[i] = c
  <2>1. SUFFICES ASSUME NEW c \in Cells({a}, f) PROVE pair[c[2]] = c /\ c[2] \in 1 .. f[a]
    OBVIOUS
  <2>2. c \in {a} \X (1 .. MaxPayload) /\ c[2] <= f[c[1]]
    BY DEF Cells
  <2>. QED  BY <2>2
<1>5. pair \in Bijection(1 .. f[a], Cells({a}, f))
  <2>1. pair \in [1 .. f[a] -> Cells({a}, f)]
    BY <1>2
  <2>. QED  BY <2>1, <1>3, <1>4, Fun_IsBij, Zenon
<1>. HIDE DEF pair
<1>6. ExistsBijection(1 .. f[a], Cells({a}, f))
  BY <1>5 DEF ExistsBijection
<1>. QED  BY <1>1, <1>6, FS_Bijection DEF Bytes, Cells

-----------------------------------------------------------------------------
(* Facts about the state that several steps use.                           *)

\* The frames that the frame counters count.
FrameCells(fr) == {f \in Thread \X (1 .. MaxFrames) : f[2] <= Len(fr[f[1]])}

\* The set of all frames is finite.
LEMMA FrameCellsFinite ==
  ASSUME NEW fr
  PROVE  IsFiniteSet(FrameCells(fr)) /\ Cardinality(FrameCells(fr)) \in Nat
<1>1. IsFiniteSet(Thread) /\ IsFiniteSet(1 .. MaxFrames)
  BY ThreadAssumption, BoundAssumption, FS_Interval
<1>2. IsFiniteSet(Thread \X (1 .. MaxFrames))
  BY <1>1, FS_Product
<1>3. FrameCells(fr) \in SUBSET (Thread \X (1 .. MaxFrames))
  BY DEF FrameCells
<1>. QED  BY <1>2, <1>3, FS_Subset, FS_CardinalityType

\* A small number is its own remainder.
LEMMA ModSmall ==
  ASSUME NEW n \in Nat, NEW m \in Nat \ {0}, n < m
  PROVE  n % m = n
OBVIOUS

\* The payload size of a request is within the bound, and the header holds it.
LEMMA PayloadFits ==
  ASSUME SizesFit, NEW size \in RequestSize, NEW tag \in TypeTag
  PROVE  /\ ActualPayload(size, tag) \in 0 .. MaxPayload
         /\ ActualPayload(size, tag) % SizeModulus = ActualPayload(size, tag)
<1>1. ActualPayload(size, tag) \in Nat
  BY SizeAssumption DEF ActualPayload, NextMultiple, ALIGN
<1>2. ActualPayload(size, tag) \in PayloadSize
  BY DEF PayloadSize
<1>3. ActualPayload(size, tag) <= MaxPayload
  BY <1>2, SizeAssumption
<1>. QED  BY <1>1, <1>3, ModSmall, SizeAssumption DEF SizesFit

-----------------------------------------------------------------------------
(* A fresh process.                                                        *)

\* No object covers no byte.
LEMMA BytesNone == \A f : Bytes({}, f) = 0
<1>1. \A f : Cells({}, f) = {}
  BY DEF Cells
<1>. QED  BY <1>1, FS_EmptySet DEF Bytes, Cells

\* No frame, no count.
LEMMA NoFrameCells ==
  ASSUME NEW fr, \A t \in Thread : fr[t] = <<>>
  PROVE  Cardinality(FrameCells(fr)) = 0
<1>1. FrameCells(fr) = {}
  BY DEF FrameCells
<1>. QED  BY <1>1, FS_EmptySet

\* The empty heap.
LEMMA EmptyHeap == DOMAIN <<>> = {} /\ <<>> \in [{} -> Object]
OBVIOUS

\* IInv holds when the process starts.
LEMMA InitIInv == Init => IInv
<1>. SUFFICES ASSUME Init PROVE IInv
  OBVIOUS
<1>. USE ThreadAssumption, AddrAssumption, ThresholdAssumption, BoundAssumption
<1>1. headers = {}
  BY EmptyHeap DEF Init, headers
<1>2. TypeOK
  <2>1. HeapTypeOK
    BY <1>1, EmptyHeap DEF Init, HeapTypeOK
  <2>2. (frames \in [Thread -> Seq(Seq(Pointer))])
    BY EmptySeq DEF Init
  <2>3. StackTypeOK
    BY <2>2 DEF Init, StackTypeOK, Pointer
  <2>4. (auto_collect \in BOOLEAN) /\ (aborted \in BOOLEAN)
    BY Zenon DEF Init
  <2>5. (pending \in Request)
    BY DEF Init, Request
  <2>6. ControlTypeOK
    BY <2>4, <2>5 DEF Init, ControlTypeOK
  <2>. QED  BY <2>1, <2>3, <2>6 DEF TypeOK
<1>3. FrameCountsExact
  BY NoFrameCells DEF Init, FrameCountsExact, FrameCells
<1>4. StacksBounded
  BY DEF Init, StacksBounded, OwnFrames
<1>5. ObjectsScannable
  BY <1>1 DEF ObjectsScannable
<1>6. AccountingExact
  BY <1>1, BytesNone DEF Init, AccountingExact
<1>7. PhasesOrdered
  BY <1>1 DEF Init, PhasesOrdered
<1>8. PinsCounted /\ OthersHoldNothing
  BY DEF Init, PinsCounted, OthersHoldNothing
<1>9. MarksCover
  BY DEF Init, MarksCover
<1>10. NoDangling
  BY <1>1 DEF Init, NoDangling, Holds, OwnFrames
<1>. QED
  BY <1>2, <1>3, <1>4, <1>5, <1>6, <1>7, <1>8, <1>9, <1>10 DEF IInv

\* IInv holds when the process has aborted.
LEMMA AbortIInv == Abort => IInv'
<1>. SUFFICES ASSUME Abort PROVE IInv'
  OBVIOUS
<1>. USE ThreadAssumption, AddrAssumption, ThresholdAssumption, BoundAssumption
<1>1. headers' = {}
  BY EmptyHeap DEF Abort, headers
<1>2. TypeOK'
  <2>1. HeapTypeOK'
    BY <1>1, EmptyHeap DEF Abort, HeapTypeOK
  <2>2. (frames \in [Thread -> Seq(Seq(Pointer))])'
    BY EmptySeq DEF Abort
  <2>3. StackTypeOK'
    BY <2>2 DEF Abort, StackTypeOK, Pointer
  <2>4. (auto_collect \in BOOLEAN)' /\ (aborted \in BOOLEAN)'
    BY Zenon DEF Abort
  <2>5. (pending \in Request)'
    BY DEF Abort, Request
  <2>6. ControlTypeOK'
    BY <2>4, <2>5 DEF Abort, ControlTypeOK
  <2>. QED  BY <2>1, <2>3, <2>6 DEF TypeOK
<1>3. FrameCountsExact'
  BY NoFrameCells DEF Abort, FrameCountsExact, FrameCells
<1>4. StacksBounded'
  BY DEF Abort, StacksBounded, OwnFrames
<1>5. ObjectsScannable'
  BY <1>1 DEF ObjectsScannable
<1>6. AccountingExact'
  BY <1>1, BytesNone DEF Abort, AccountingExact
<1>7. PhasesOrdered'
  BY <1>1 DEF Abort, PhasesOrdered
<1>8. PinsCounted' /\ OthersHoldNothing'
  BY DEF Abort, PinsCounted, OthersHoldNothing
<1>9. MarksCover'
  BY DEF Abort, MarksCover
<1>10. NoDangling'
  BY <1>1 DEF Abort, NoDangling, Holds, OwnFrames
<1>. QED
  BY <1>2, <1>3, <1>4, <1>5, <1>6, <1>7, <1>8, <1>9, <1>10 DEF IInv

-----------------------------------------------------------------------------
(* Steps of compiled code that only move values it already holds.          *)

\* A step that changes no more than the stack and the register of t, and
\* leaves t holding allocated objects only, and none during a collection,
\* keeps the conjuncts of IInv that are about values.
LEMMA MutatorStep ==
  ASSUME IInv, NEW t \in Thread, Running(t),
         UNCHANGED <<heap, marked, mark_work, gcThread, gcPhase, pending,
                     PINNED, livePins>>,
         \A u \in Thread \ {t} : /\ frames'[u] = frames[u]
                                 /\ leftover'[u] = leftover[u]
                                 /\ reg'[u] = reg[u],
         Holds(t)' \subseteq headers,
         gcPhase \in {"roots", "pins", "trace", "alloc"} => Holds(t)' = {}
  PROVE  PhasesOrdered' /\ OthersHoldNothing' /\ MarksCover' /\ NoDangling'
<1>1. t # gcThread
  BY DEF Running
<1>2. headers' = headers
  BY DEF headers
<1>3. \A u \in Thread \ {t} : Holds(u)' = Holds(u) /\ OwnFrames(u)' = OwnFrames(u)
  BY DEF Holds, OwnFrames
<1>4. gcPhase # "idle" => gcThread \in Thread \ {t}
  BY <1>1 DEF IInv, TypeOK, ControlTypeOK, PhasesOrdered
<1>5. PhasesOrdered'
  BY <1>2, <1>3, <1>4 DEF IInv, PhasesOrdered
<1>6. OthersHoldNothing'
  BY <1>3, <1>4 DEF IInv, OthersHoldNothing
<1>7. MarksCover'
  <2>1. gcPhase # "idle" => StackRoots(gcThread)' = StackRoots(gcThread)
    BY <1>4 DEF StackRoots
  <2>2. PinnedRoots' = PinnedRoots
    BY DEF PinnedRoots
  <2>. QED  BY <1>2, <2>1, <2>2 DEF IInv, MarksCover
<1>8. NoDangling'
  BY <1>2, <1>3 DEF IInv, NoDangling
<1>. QED  BY <1>5, <1>6, <1>7, <1>8

\* What a thread holds before such a step.
LEMMA HoldsSafe ==
  ASSUME IInv, NEW t \in Thread, Running(t)
  PROVE  /\ Holds(t) \subseteq headers
         /\ gcPhase \in {"roots", "pins", "trace", "alloc"} => Holds(t) = {}
BY DEF IInv, NoDangling, OthersHoldNothing, Running

\* One more frame on one stack is one more frame.
LEMMA OneMoreFrame ==
  ASSUME NEW t \in Thread, NEW fr, NEW gr,
         Len(fr[t]) \in 0 .. MaxFrames - 1, Len(gr[t]) = Len(fr[t]) + 1,
         \A u \in Thread \ {t} : Len(gr[u]) = Len(fr[u])
  PROVE  Cardinality(FrameCells(gr)) = Cardinality(FrameCells(fr)) + 1
<1>. DEFINE new == <<t, Len(fr[t]) + 1>>
<1>1. ASSUME NEW u \in Thread, NEW k \in 1 .. MaxFrames
      PROVE  <<u, k>> \in FrameCells(gr) <=> <<u, k>> \in FrameCells(fr) \/ <<u, k>> = new
  <2>1. <<u, k>> \in FrameCells(gr) <=> k <= Len(gr[u])
    BY DEF FrameCells
  <2>2. <<u, k>> \in FrameCells(fr) <=> k <= Len(fr[u])
    BY DEF FrameCells
  <2>3. CASE u = t
    BY <2>1, <2>2, <2>3, BoundAssumption
  <2>4. CASE u # t
    BY <2>1, <2>2, <2>4
  <2>. QED  BY <2>3, <2>4
<1>2. new \in Thread \X (1 .. MaxFrames)
  BY BoundAssumption
<1>3. FrameCells(gr) = FrameCells(fr) \cup {new}
  <2>1. \A c \in Thread \X (1 .. MaxFrames) :
          c \in FrameCells(gr) <=> c \in FrameCells(fr) \cup {new}
    BY <1>1
  <2>2. FrameCells(gr) \subseteq Thread \X (1 .. MaxFrames)
    BY DEF FrameCells
  <2>3. FrameCells(fr) \subseteq Thread \X (1 .. MaxFrames)
    BY DEF FrameCells
  <2>. QED  BY <1>2, <2>1, <2>2, <2>3
<1>4. new \notin FrameCells(fr)
  BY DEF FrameCells
<1>. QED  BY <1>3, <1>4, FrameCellsFinite, FS_AddElement

\* A new frame of null slots: both counters go up, nobody holds more.
LEMMA PushFrameIInv ==
  ASSUME IInv, NEW t \in Thread, NEW n \in 0 .. MaxSlots, PushFrame(t, n)
  PROVE  IInv'
<1>. USE DEF acctVars, modeVars, pinVars, gcVars
<1>. DEFINE new == [i \in 1 .. n |-> Null]
<1>1. new \in Seq(Pointer) /\ Len(new) = n /\ \A i \in DOMAIN new : new[i] = Null
  BY BoundAssumption DEF Pointer
<1>. HIDE DEF new
<1>2. frames[t] \in Seq(Seq(Pointer)) /\ Len(frames[t]) \in Nat
  BY DEF IInv, TypeOK, StackTypeOK
<1>3. /\ frames'[t] = Append(frames[t], new)
      /\ \A u \in Thread \ {t} : frames'[u] = frames[u]
      /\ frames' \in [Thread -> Seq(Seq(Pointer))]
  <2>1. Append(frames[t], new) \in Seq(Seq(Pointer))
    BY <1>1, <1>2
  <2>. QED  BY <2>1 DEF PushFrame, new, IInv, TypeOK, StackTypeOK
<1>4. /\ Len(frames'[t]) = Len(frames[t]) + 1
      /\ DOMAIN frames'[t] = 1 .. Len(frames[t]) + 1
      /\ frames'[t][Len(frames[t]) + 1] = new
      /\ \A k \in 1 .. Len(frames[t]) : frames'[t][k] = frames[t][k]
  BY <1>1, <1>2, <1>3
<1>5. TypeOK'
  <2>1. HeapTypeOK' /\ ControlTypeOK'
    BY DEF IInv, TypeOK, HeapTypeOK, ControlTypeOK, PushFrame, headers
  <2>2. StackTypeOK'
    BY <1>3 DEF IInv, TypeOK, StackTypeOK, PushFrame
  <2>. QED  BY <2>1, <2>2 DEF TypeOK
<1>6. FrameCountsExact'
  <2>1. Len(frames[t]) \in 0 .. MaxFrames - 1
    BY <1>2, BoundAssumption DEF PushFrame
  <2>3. Cardinality(FrameCells(frames')) = Cardinality(FrameCells(frames)) + 1
    BY <1>3, <1>4, <2>1, OneMoreFrame
  <2>4. LIVE_FRAME_COUNT = Cardinality(FrameCells(frames))
    BY DEF IInv, FrameCountsExact, FrameCells
  <2>5. LIVE_FRAME_COUNT' = Cardinality(FrameCells(frames'))
    BY <2>3, <2>4 DEF PushFrame
  <2>6. \A u \in Thread : THIS_THREAD_FRAME_COUNT'[u] = Len(frames'[u])
    BY <1>3, <1>4 DEF IInv, FrameCountsExact, PushFrame, TypeOK, StackTypeOK
  <2>. QED  BY <2>5, <2>6 DEF FrameCountsExact, FrameCells
<1>7. StacksBounded'
  BY <1>2, <1>3, <1>4, BoundAssumption DEF IInv, StacksBounded, OwnFrames, PushFrame, TypeOK, StackTypeOK
<1>8. ObjectsScannable' /\ AccountingExact' /\ PinsCounted'
  BY DEF IInv, ObjectsScannable, AccountingExact, PinsCounted, PushFrame, headers, Layout
<1>9. Holds(t)' = Holds(t)
  <2>1. reg' = reg /\ leftover' = leftover /\ Null \notin Addr
    BY AddrAssumption DEF PushFrame
  <2>2. leftover[t] \in Nat /\ leftover[t] <= Len(frames[t])
    BY DEF IInv, StacksBounded, TypeOK, StackTypeOK
  <2>3. OwnFrames(t)' = OwnFrames(t) \cup {Len(frames[t]) + 1}
    BY <1>2, <1>4, <2>1, <2>2 DEF OwnFrames
  <2>4. OwnFrames(t) \subseteq 1 .. Len(frames[t])
    BY <1>2, <2>2 DEF OwnFrames
  <2>. QED  BY <1>1, <1>4, <2>1, <2>3, <2>4 DEF Holds
<1>10. PhasesOrdered' /\ OthersHoldNothing' /\ MarksCover' /\ NoDangling'
  BY <1>3, <1>9, HoldsSafe, MutatorStep DEF PushFrame
<1>. QED  BY <1>5, <1>6, <1>7, <1>8, <1>10 DEF IInv

\* The frame counters cannot be at zero when a frame is popped.
LEMMA PopFrameIInv ==
  ASSUME IInv, NEW t \in Thread, PopFrame(t)
  PROVE  IInv'
<1>. USE DEF acctVars, modeVars, pinVars, gcVars
<1>. DEFINE n == Len(frames[t])
<1>1. /\ frames[t] \in Seq(Seq(Pointer))
      /\ n \in Nat \ {0}
      /\ leftover[t] \in 0 .. n
      /\ n <= MaxFrames
  BY EmptySeq DEF PopFrame, IInv, StacksBounded, TypeOK, StackTypeOK
<1>2. /\ frames'[t] = SubSeq(frames[t], 1, n - 1)
      /\ \A u \in Thread \ {t} : frames'[u] = frames[u]
      /\ frames' \in [Thread -> Seq(Seq(Pointer))]
  <2>1. SubSeq(frames[t], 1, n - 1) \in Seq(Seq(Pointer))
    BY <1>1
  <2>. QED  BY <2>1 DEF PopFrame, IInv, TypeOK, StackTypeOK
<1>3. /\ Len(frames'[t]) = n - 1
      /\ \A k \in 1 .. n - 1 : frames'[t][k] = frames[t][k]
  BY <1>1, <1>2
<1>4. /\ leftover'[t] = IF leftover[t] < n THEN leftover[t] ELSE leftover[t] - 1
      /\ \A u \in Thread \ {t} : leftover'[u] = leftover[u]
      /\ leftover' \in [Thread -> Nat]
  BY <1>1 DEF PopFrame, IInv, TypeOK, StackTypeOK
<1>5. /\ reg'[t] = reg[t] \/ reg'[t] = Null
      /\ n - 1 <= leftover[t] => reg'[t] = Null
      /\ \A u \in Thread \ {t} : reg'[u] = reg[u]
      /\ reg' \in [Thread -> Pointer]
  BY <1>1 DEF PopFrame, IInv, TypeOK, StackTypeOK, Pointer
<1>6. FrameCountsExact' /\ LIVE_FRAME_COUNT' \in Nat
  <2>0. /\ Len(frames'[t]) \in 0 .. MaxFrames - 1
        /\ Len(frames[t]) = Len(frames'[t]) + 1
        /\ \A u \in Thread \ {t} : Len(frames[u]) = Len(frames'[u])
    BY <1>1, <1>2, <1>3, BoundAssumption
  <2>1. Cardinality(FrameCells(frames)) = Cardinality(FrameCells(frames')) + 1
    BY <2>0, OneMoreFrame
  <2>2. LIVE_FRAME_COUNT = Cardinality(FrameCells(frames))
    BY DEF IInv, FrameCountsExact, FrameCells
  <2>3. LIVE_FRAME_COUNT' = Cardinality(FrameCells(frames'))
    BY <2>1, <2>2, FrameCellsFinite DEF PopFrame
  <2>4. \A u \in Thread : THIS_THREAD_FRAME_COUNT'[u] = Len(frames'[u])
    BY <1>2, <1>3 DEF IInv, FrameCountsExact, PopFrame, TypeOK, StackTypeOK
  <2>. QED  BY <2>3, <2>4, FrameCellsFinite DEF FrameCountsExact, FrameCells
<1>7. TypeOK'
  <2>1. HeapTypeOK' /\ ControlTypeOK'
    BY DEF IInv, TypeOK, HeapTypeOK, ControlTypeOK, PopFrame, headers
  <2>2. THIS_THREAD_FRAME_COUNT' \in [Thread -> Nat]
    <3>1. THIS_THREAD_FRAME_COUNT[t] = n
      BY DEF IInv, FrameCountsExact
    <3>. QED  BY <1>1, <3>1 DEF PopFrame, IInv, TypeOK, StackTypeOK
  <2>. QED  BY <1>2, <1>4, <1>5, <1>6, <2>1, <2>2 DEF TypeOK, StackTypeOK
<1>8. StacksBounded'
  <2>1. \A u \in Thread \ {t} : /\ Len(frames'[u]) <= MaxFrames
                                /\ leftover'[u] <= Len(frames'[u])
                                /\ reg'[u] # Null => OwnFrames(u)' # {}
    BY <1>2, <1>4, <1>5 DEF IInv, StacksBounded, OwnFrames
  <2>2. Len(frames'[t]) <= MaxFrames /\ leftover'[t] <= Len(frames'[t])
    BY <1>1, <1>3, <1>4, BoundAssumption
  <2>3. ASSUME reg'[t] # Null PROVE OwnFrames(t)' # {}
    <3>1. leftover[t] < n - 1 /\ leftover'[t] = leftover[t]
      BY <1>1, <1>4, <1>5, <2>3
    <3>2. n - 1 \in (leftover'[t] + 1) .. Len(frames'[t])
      BY <1>1, <1>3, <3>1
    <3>. QED  BY <3>2 DEF OwnFrames
  <2>. QED  BY <2>1, <2>2, <2>3 DEF StacksBounded
<1>9. ObjectsScannable' /\ AccountingExact' /\ PinsCounted'
  BY DEF IInv, ObjectsScannable, AccountingExact, PinsCounted, PopFrame, headers, Layout
<1>10. Holds(t)' \subseteq Holds(t)
  <2>1. \A k \in OwnFrames(t)' : k \in OwnFrames(t) /\ frames'[t][k] = frames[t][k]
    BY <1>1, <1>3, <1>4 DEF OwnFrames
  <2>. QED  BY <2>1, <1>5, AddrAssumption DEF Holds
<1>11. PhasesOrdered' /\ OthersHoldNothing' /\ MarksCover' /\ NoDangling'
  BY <1>2, <1>4, <1>5, <1>10, HoldsSafe, MutatorStep DEF PopFrame
<1>. QED  BY <1>6, <1>7, <1>8, <1>9, <1>11 DEF IInv

\* What goes into a slot is the allocated object in hand.
LEMMA SetRootIInv ==
  ASSUME IInv, NEW t \in Thread, NEW k, NEW i, SetRoot(t, k, i)
  PROVE  IInv'
<1>. USE DEF acctVars, modeVars, pinVars, gcVars
<1>1. /\ frames[t] \in Seq(Seq(Pointer))
      /\ leftover[t] \in 0 .. Len(frames[t])
      /\ reg[t] \in Pointer
  BY DEF IInv, StacksBounded, TypeOK, StackTypeOK
<1>2. k \in 1 .. Len(frames[t]) /\ frames[t][k] \in Seq(Pointer)
  BY <1>1 DEF SetRoot, OwnFrames
<1>3. i \in 1 .. Len(frames[t][k])
  BY <1>2 DEF SetRoot
<1>. DEFINE frame == [frames[t][k] EXCEPT ![i] = reg[t]]
            stack == [frames[t] EXCEPT ![k] = frame]
<1>4. /\ frame \in Seq(Pointer)
      /\ DOMAIN frame = DOMAIN frames[t][k]
      /\ \A j \in DOMAIN frame : frame[j] = frames[t][k][j] \/ frame[j] = reg[t]
  BY <1>1, <1>2, <1>3, ExceptSeq
<1>. HIDE DEF frame
<1>5. /\ stack \in Seq(Seq(Pointer))
      /\ Len(stack) = Len(frames[t])
      /\ \A m \in 1 .. Len(frames[t]) : stack[m] = IF m = k THEN frame ELSE frames[t][m]
  BY <1>1, <1>2, <1>4, ExceptSeq
<1>6. /\ frames'[t] = stack
      /\ \A u \in Thread \ {t} : frames'[u] = frames[u]
      /\ frames' \in [Thread -> Seq(Seq(Pointer))]
  BY <1>5 DEF SetRoot, frame, IInv, TypeOK, StackTypeOK
<1>. HIDE DEF stack
<1>7. \A u \in Thread : Len(frames'[u]) = Len(frames[u])
  BY <1>5, <1>6
<1>8. TypeOK'
  <2>1. HeapTypeOK' /\ ControlTypeOK'
    BY DEF IInv, TypeOK, HeapTypeOK, ControlTypeOK, SetRoot, headers
  <2>2. StackTypeOK'
    BY <1>6 DEF IInv, TypeOK, StackTypeOK, SetRoot
  <2>. QED  BY <2>1, <2>2 DEF TypeOK
<1>9. FrameCountsExact'
  <2>1. FrameCells(frames') = FrameCells(frames)
    BY <1>7 DEF FrameCells
  <2>. QED  BY <1>7, <2>1 DEF IInv, FrameCountsExact, FrameCells, SetRoot
<1>10. StacksBounded'
  BY <1>7 DEF IInv, StacksBounded, OwnFrames, SetRoot
<1>11. ObjectsScannable' /\ AccountingExact' /\ PinsCounted'
  BY DEF IInv, ObjectsScannable, AccountingExact, PinsCounted, SetRoot, headers, Layout
<1>12. Holds(t)' \subseteq Holds(t)
  <2>1. reg' = reg /\ OwnFrames(t)' = OwnFrames(t) /\ OwnFrames(t) \subseteq 1 .. Len(frames[t])
    BY <1>1, <1>7 DEF SetRoot, OwnFrames
  <2>2. \A m \in OwnFrames(t) : \A j \in DOMAIN frames'[t][m] :
          \/ j \in DOMAIN frames[t][m] /\ frames'[t][m][j] = frames[t][m][j]
          \/ frames'[t][m][j] = reg[t]
    BY <1>4, <1>5, <1>6, <2>1
  <2>. QED  BY <2>1, <2>2 DEF Holds
<1>13. PhasesOrdered' /\ OthersHoldNothing' /\ MarksCover' /\ NoDangling'
  BY <1>6, <1>12, HoldsSafe, MutatorStep DEF SetRoot
<1>. QED  BY <1>8, <1>9, <1>10, <1>11, <1>13 DEF IInv

\* Taking an allocated object in hand.
LEMMA TakeInHand ==
  ASSUME IInv, NEW t \in Thread, Running(t), OwnFrames(t) # {},
         NEW p \in headers \union {Null},
         gcPhase \in {"roots", "pins", "trace", "alloc"} => p = Null,
         reg' = [reg EXCEPT ![t] = p],
         UNCHANGED <<heap, acctVars, modeVars, stackVars, pinVars, gcVars,
                     aborted, shutdowns>>
  PROVE  IInv'
<1>. USE DEF acctVars, modeVars, stackVars, pinVars, gcVars
<1>1. headers' = headers /\ \A u \in Thread : OwnFrames(u)' = OwnFrames(u)
  BY DEF headers, OwnFrames
<1>2. TypeOK'
  <2>1. p \in Pointer
    BY DEF IInv, TypeOK, HeapTypeOK, Pointer
  <2>. QED  BY <1>1, <2>1 DEF IInv, TypeOK, HeapTypeOK, StackTypeOK, ControlTypeOK
<1>3. FrameCountsExact' /\ ObjectsScannable' /\ AccountingExact' /\ PinsCounted'
  BY <1>1 DEF IInv, FrameCountsExact, ObjectsScannable, AccountingExact, PinsCounted, Layout
<1>4. StacksBounded'
  BY <1>1 DEF IInv, TypeOK, StackTypeOK, StacksBounded
<1>5. Holds(t)' \subseteq Holds(t) \cup ({p} \ {Null})
  BY <1>1, AddrAssumption DEF Holds, IInv, TypeOK, StackTypeOK
<1>6. \A u \in Thread \ {t} : reg'[u] = reg[u]
  BY DEF IInv, TypeOK, StackTypeOK
<1>7. PhasesOrdered' /\ OthersHoldNothing' /\ MarksCover' /\ NoDangling'
  BY <1>5, <1>6, HoldsSafe, MutatorStep
<1>. QED  BY <1>2, <1>3, <1>4, <1>7 DEF IInv

\* A slot of an own frame holds an allocated object to take in hand.
LEMMA ReadRootIInv ==
  ASSUME IInv, NEW t \in Thread, NEW k, NEW i, ReadRoot(t, k, i)
  PROVE  IInv'
<1>. DEFINE p == frames[t][k][i]
<1>1. p \in Pointer
  <2>1. frames[t] \in Seq(Seq(Pointer)) /\ leftover[t] \in Nat
    BY DEF IInv, TypeOK, StackTypeOK
  <2>2. k \in 1 .. Len(frames[t])
    BY <2>1 DEF ReadRoot, OwnFrames
  <2>3. frames[t][k] \in Seq(Pointer)
    BY <2>1, <2>2
  <2>. QED  BY <2>3 DEF ReadRoot
<1>2. p # Null => p \in Holds(t)
  BY <1>1 DEF ReadRoot, Holds, Pointer
<1>3. p \in headers \union {Null}
  BY <1>2, HoldsSafe DEF ReadRoot
<1>4. gcPhase \in {"roots", "pins", "trace", "alloc"} => p = Null
  BY <1>2, HoldsSafe DEF ReadRoot
<1>. HIDE DEF p
<1>5. Running(t) /\ OwnFrames(t) # {} /\ reg' = [reg EXCEPT ![t] = p]
  BY DEF ReadRoot, p
<1>. QED  BY <1>3, <1>4, <1>5, TakeInHand DEF ReadRoot

\* A reference field of an allocated object leads to an allocated object.
LEMMA LoadFieldIInv ==
  ASSUME IInv, NEW t \in Thread, NEW w, LoadField(t, w)
  PROVE  IInv'
<1>. DEFINE p == heap[reg[t]].words[w]
<1>1. reg[t] \in Holds(t) /\ OwnFrames(t) # {}
  BY DEF LoadField, Holds, IInv, TypeOK, StackTypeOK, Pointer, StacksBounded
<1>2. reg[t] \in headers
  BY <1>1, HoldsSafe DEF LoadField
<1>3. p \in headers \union {Null}
  BY <1>2 DEF LoadField, IInv, NoDangling
<1>4. gcPhase \notin {"roots", "pins", "trace", "alloc"}
  BY <1>1, HoldsSafe DEF LoadField
<1>. HIDE DEF p
<1>5. Running(t) /\ reg' = [reg EXCEPT ![t] = p]
  BY DEF LoadField, p
<1>. QED  BY <1>1, <1>3, <1>4, <1>5, TakeInHand DEF LoadField

-----------------------------------------------------------------------------
(* Writes to objects.                                                      *)

\* Writing a word of an object: a reference to an allocated object into a
\* scanned word, or bits that are no reference.
LEMMA WriteWord ==
  ASSUME IInv, NEW t \in Thread, Running(t),
         NEW a \in headers, NEW w \in Word, NEW p \in Pointer, NEW refs,
         gcPhase \notin {"roots", "pins", "trace", "alloc"},
         refs \subseteq heap[a].refs \union {w},
         w \in refs => /\ p \in headers \union {Null}
                       /\ ScansInterior(heap[a].tag)
                       /\ w * WordSize <= heap[a].layout,
         heap' = [heap EXCEPT ![a].words[w] = p, ![a].refs = refs],
         UNCHANGED <<acctVars, modeVars, stackVars, pinVars, gcVars, aborted,
                     reg, shutdowns>>
  PROVE  IInv'
<1>. USE DEF acctVars, modeVars, stackVars, pinVars, gcVars
<1>1. heap \in [headers -> Object] /\ heap[a] \in Object
  BY DEF IInv, TypeOK, HeapTypeOK
<1>2. /\ headers' = headers
      /\ \A b \in headers \ {a} : heap'[b] = heap[b]
      /\ heap'[a] = [heap[a] EXCEPT !.words[w] = p, !.refs = refs]
  BY <1>1 DEF headers
<1>3. /\ heap'[a].size = heap[a].size
      /\ heap'[a].tag = heap[a].tag
      /\ heap'[a].layout = heap[a].layout
      /\ heap'[a].refs = refs
      /\ heap'[a].words = [heap[a].words EXCEPT ![w] = p]
      /\ heap'[a] \in Object
  BY <1>1, <1>2 DEF Object
<1>4. \A v \in Word : heap'[a].words[v] = IF v = w THEN p ELSE heap[a].words[v]
  BY <1>1, <1>3 DEF Object
<1>5. TypeOK'
  <2>1. heap' \in [headers' -> Object]
    BY <1>1, <1>2, <1>3
  <2>. QED  BY <1>2, <2>1 DEF IInv, TypeOK, HeapTypeOK, StackTypeOK, ControlTypeOK
<1>6. FrameCountsExact' /\ StacksBounded' /\ PinsCounted'
  BY DEF IInv, FrameCountsExact, StacksBounded, PinsCounted, OwnFrames
<1>7. ObjectsScannable'
  <2>1. /\ heap[a].layout \in 0 .. MaxPayload
        /\ heap[a].size = heap[a].layout
        /\ \A v \in heap[a].refs : ScansInterior(heap[a].tag) /\ v * WordSize <= heap[a].layout
    BY DEF IInv, ObjectsScannable
  <2>2. \A v \in refs : ScansInterior(heap[a].tag) /\ v * WordSize <= heap[a].layout
    BY <2>1
  <2>3. SUFFICES ASSUME NEW b \in headers
        PROVE /\ heap'[b].layout \in 0 .. MaxPayload
              /\ heap'[b].size = heap'[b].layout
              /\ \A v \in heap'[b].refs :
                   ScansInterior(heap'[b].tag) /\ v * WordSize <= heap'[b].layout
    BY <1>2 DEF ObjectsScannable
  <2>4. CASE b = a
    BY <1>3, <2>1, <2>2, <2>4
  <2>5. CASE b # a
    BY <1>2, <2>5 DEF IInv, ObjectsScannable
  <2>. QED  BY <2>4, <2>5
<1>8. AccountingExact'
  <2>0. \A b \in headers : heap'[b].layout = heap[b].layout
    BY <1>2, <1>3
  <2>1. Layout' = Layout
    BY <1>2, <2>0 DEF Layout
  <2>. QED  BY <1>2, <2>1 DEF IInv, AccountingExact
<1>9. marked = {}
  BY DEF IInv, TypeOK, ControlTypeOK, PhasesOrdered
<1>10. PhasesOrdered' /\ OthersHoldNothing' /\ MarksCover'
  BY <1>2, <1>9 DEF IInv, PhasesOrdered, OthersHoldNothing, MarksCover, OwnFrames
<1>11. NoDangling'
  <2>1. \A u \in Thread : Holds(u)' = Holds(u)
    BY DEF Holds, OwnFrames
  <2>2. ASSUME NEW v \in refs
        PROVE  heap'[a].words[v] \in headers \union {Null}
    <3>1. v \in Word
      BY <1>1 DEF Object
    <3>2. CASE v = w
      BY <1>4, <3>1, <3>2
    <3>3. CASE v # w
      BY <1>4, <3>1, <3>3 DEF IInv, NoDangling
    <3>. QED  BY <3>2, <3>3
  <2>3. \A b \in headers : \A v \in heap'[b].refs : heap'[b].words[v] \in headers \union {Null}
    <3>1. SUFFICES ASSUME NEW b \in headers, NEW v \in heap'[b].refs
          PROVE  heap'[b].words[v] \in headers \union {Null}
      OBVIOUS
    <3>2. CASE b = a
      BY <1>3, <2>2, <3>2
    <3>3. CASE b # a
      BY <1>2, <3>3 DEF IInv, NoDangling
    <3>. QED  BY <3>2, <3>3
  <2>. QED  BY <1>2, <2>1, <2>3 DEF IInv, NoDangling
<1>. QED  BY <1>5, <1>6, <1>7, <1>8, <1>10, <1>11 DEF IInv

\* The object a slot of a running thread refers to.
LEMMA SlotHolds ==
  ASSUME IInv, NEW t \in Thread, Running(t), NEW k \in OwnFrames(t),
         NEW i \in DOMAIN frames[t][k], frames[t][k][i] # Null
  PROVE  /\ frames[t][k][i] \in headers
         /\ gcPhase \notin {"roots", "pins", "trace", "alloc"}
<1>1. frames[t] \in Seq(Seq(Pointer)) /\ leftover[t] \in Nat
  BY DEF IInv, TypeOK, StackTypeOK
<1>2. k \in 1 .. Len(frames[t])
  BY <1>1 DEF OwnFrames
<1>3. frames[t][k] \in Seq(Pointer)
  BY <1>1, <1>2
<1>4. frames[t][k][i] \in Addr
  BY <1>3 DEF Pointer
<1>5. frames[t][k][i] \in Holds(t)
  BY <1>4 DEF Holds
<1>. QED  BY <1>5, HoldsSafe

\* A reference is stored into a scanned word of an allocated object.
LEMMA StoreFieldIInv ==
  ASSUME IInv, NEW t \in Thread, NEW k, NEW i, NEW w \in Word, StoreField(t, k, i, w)
  PROVE  IInv'
<1>. DEFINE a == frames[t][k][i]
            refs == IF reg[t] = Null THEN heap[a].refs \ {w} ELSE heap[a].refs \union {w}
<1>1. /\ Running(t) /\ k \in OwnFrames(t) /\ i \in DOMAIN frames[t][k]
      /\ a # Null /\ ScansInterior(heap[a].tag) /\ w * WordSize <= heap[a].layout
  BY DEF StoreField
<1>2. a \in headers /\ gcPhase \notin {"roots", "pins", "trace", "alloc"}
  BY <1>1, SlotHolds
<1>3. reg[t] \in Pointer /\ reg[t] \in headers \union {Null}
  BY <1>1, HoldsSafe DEF Holds, IInv, TypeOK, StackTypeOK, Pointer
<1>4. heap' = [heap EXCEPT ![a].words[w] = reg[t], ![a].refs = refs]
  BY <1>2 DEF StoreField, IInv, TypeOK, HeapTypeOK
<1>5. refs \subseteq heap[a].refs \union {w}
  OBVIOUS
<1>. HIDE DEF a, refs
<1>. QED  BY <1>1, <1>2, <1>3, <1>4, <1>5, WriteWord DEF StoreField

\* Bits that look like a pointer are no reference, so they may dangle.
LEMMA StoreBitsIInv ==
  ASSUME IInv, NEW t \in Thread, NEW k, NEW i, NEW w \in Word, NEW p \in Addr,
         StoreBits(t, k, i, w, p)
  PROVE  IInv'
<1>. DEFINE a == frames[t][k][i]
            refs == heap[a].refs \ {w}
<1>1. /\ Running(t) /\ k \in OwnFrames(t) /\ i \in DOMAIN frames[t][k]
      /\ a # Null
  BY DEF StoreBits
<1>2. a \in headers /\ gcPhase \notin {"roots", "pins", "trace", "alloc"}
  BY <1>1, SlotHolds
<1>3. heap' = [heap EXCEPT ![a].words[w] = p, ![a].refs = refs]
  BY <1>2 DEF StoreBits, IInv, TypeOK, HeapTypeOK
<1>4. refs \subseteq heap[a].refs \union {w} /\ w \notin refs /\ p \in Pointer
  BY DEF Pointer
<1>. HIDE DEF a, refs
<1>. QED  BY <1>1, <1>2, <1>3, <1>4, WriteWord DEF StoreBits

-----------------------------------------------------------------------------
(* Pins and modes.                                                         *)

\* A step that changes only pins, or what decides when to collect.
LEMMA PinStep ==
  ASSUME IInv,
         UNCHANGED <<heap, acctVars, stackVars, gcVars, reg, shutdowns>>,
         ControlTypeOK',
         livePins' \subseteq headers,
         PinsCounted',
         gcPhase = "trace" => PinnedRoots' \subseteq PinnedRoots
  PROVE  IInv'
<1>. USE DEF acctVars, stackVars, gcVars
<1>1. headers' = headers /\ Layout' = Layout
  BY DEF headers, Layout
<1>2. TypeOK'
  BY <1>1 DEF IInv, TypeOK, HeapTypeOK, StackTypeOK
<1>3. FrameCountsExact' /\ StacksBounded' /\ ObjectsScannable' /\ AccountingExact'
  BY <1>1 DEF IInv, FrameCountsExact, StacksBounded, ObjectsScannable, AccountingExact, OwnFrames
<1>4. \A u \in Thread : Holds(u)' = Holds(u) /\ OwnFrames(u)' = OwnFrames(u)
  BY DEF Holds, OwnFrames
<1>5. PhasesOrdered' /\ OthersHoldNothing' /\ NoDangling'
  BY <1>1, <1>4 DEF IInv, PhasesOrdered, OthersHoldNothing, NoDangling, OwnFrames
<1>6. MarksCover'
  BY <1>1 DEF IInv, MarksCover, StackRoots
<1>. QED  BY <1>2, <1>3, <1>5, <1>6 DEF IInv

\* The value in hand, which gets pinned, is an allocated object.
LEMMA PinIInv ==
  ASSUME IInv, NEW t \in Thread, Pin(t)
  PROVE  IInv'
<1>. USE DEF acctVars, modeVars, stackVars, gcVars
<1>1. reg[t] \in Holds(t)
  BY DEF Pin, Holds, IInv, TypeOK, StackTypeOK, Pointer
<1>2. reg[t] \in headers /\ reg[t] \in Addr /\ gcPhase # "trace"
  BY <1>1, HoldsSafe DEF Pin, IInv, TypeOK, HeapTypeOK
<1>3. PINNED \in [Addr -> Nat] /\ livePins \subseteq headers
  BY DEF IInv, TypeOK, ControlTypeOK, NoDangling
<1>4. ControlTypeOK'
  BY <1>2, <1>3 DEF Pin, IInv, TypeOK, ControlTypeOK
<1>5. PinsCounted'
  BY <1>2, <1>3 DEF Pin, IInv, PinsCounted, TypeOK, ControlTypeOK
<1>. QED  BY <1>2, <1>3, <1>4, <1>5, PinStep DEF Pin

\* A payload stays a live pin for as long as its count is positive.
LEMMA UnpinIInv ==
  ASSUME IInv, NEW t \in Thread, NEW p \in Addr, Unpin(t, p)
  PROVE  IInv'
<1>. USE DEF acctVars, modeVars, stackVars, gcVars
<1>1. PINNED \in [Addr -> Nat] /\ livePins \subseteq headers /\ livePins \subseteq Addr
  BY DEF IInv, TypeOK, ControlTypeOK, NoDangling
<1>2. livePins' \subseteq livePins /\ \A q \in livePins' : q # p \/ PINNED[p] # 1
  BY DEF Unpin
<1>3. ControlTypeOK'
  BY <1>1, <1>2 DEF Unpin, IInv, TypeOK, ControlTypeOK
<1>4. \A q \in Addr : PINNED'[q] = IF q = p THEN PINNED[p] - 1 ELSE PINNED[q]
  BY <1>1 DEF Unpin
<1>5. PinsCounted'
  BY <1>1, <1>2, <1>4 DEF IInv, PinsCounted
<1>6. PinnedRoots' \subseteq PinnedRoots
  BY <1>1, <1>4 DEF PinnedRoots, Unpin
<1>. QED  BY <1>1, <1>2, <1>3, <1>5, <1>6, PinStep DEF Unpin

\* phx_gc_enable, phx_gc_disable and set_collection_threshold touch no object.
LEMMA SetModeIInv ==
  ASSUME IInv, NEW t \in Thread,
         \/ \E enable \in BOOLEAN : SetAutoCollect(t, enable)
         \/ \E n \in Threshold : SetThreshold(t, n)
  PROVE  IInv'
<1>. USE DEF acctVars, stackVars, pinVars, gcVars
<1>1. /\ UNCHANGED <<heap, acctVars, stackVars, pinVars, gcVars, aborted, reg, shutdowns>>
      /\ auto_collect' \in BOOLEAN
      /\ threshold' \in Nat
  BY ThresholdAssumption DEF SetAutoCollect, SetThreshold, IInv, TypeOK, ControlTypeOK
<1>2. ControlTypeOK'
  BY <1>1 DEF IInv, TypeOK, ControlTypeOK
<1>3. PinsCounted' /\ PinnedRoots' = PinnedRoots /\ livePins' \subseteq headers
  BY <1>1 DEF IInv, PinsCounted, PinnedRoots, NoDangling
<1>. QED  BY <1>1, <1>2, <1>3, PinStep

-----------------------------------------------------------------------------
(* Allocation.                                                             *)

\* Registering a new object, at the end of which nobody collects.
LEMMA AllocateIInv ==
  ASSUME SizesFit, IInv, NEW t \in Thread, OwnFrames(t) # {},
         NEW size \in RequestSize, NEW tag \in TypeTag, Allocate(t, size, tag),
         marked = {}, mark_work = {},
         gcThread' = NoThread, gcPhase' = "idle", pending' = NoRequest,
         UNCHANGED <<modeVars, stackVars, pinVars, mark_work, pinsRead, aborted,
                     shutdowns>>
  PROVE  IInv'
<1>. USE DEF modeVars, stackVars, pinVars
<1>. DEFINE actual == ActualPayload(size, tag)
            New(a) == [size |-> actual % SizeModulus, tag |-> tag,
                       layout |-> actual, words |-> [w \in Word |-> Null],
                       refs |-> {}]
<1>1. PICK a \in Addr \ headers :
        /\ heap' = [b \in headers \union {a} |-> IF b = a THEN New(a) ELSE heap[b]]
        /\ marked' = marked \ {a}
        /\ live_bytes' = live_bytes + actual
        /\ bytes_since_collect' = bytes_since_collect + actual
        /\ reg' = [reg EXCEPT ![t] = a]
  BY DEF Allocate
<1>2. actual \in 0 .. MaxPayload /\ actual % SizeModulus = actual
  BY PayloadFits
<1>3. New(a) \in Object
  BY <1>2 DEF Object, Pointer
<1>. HIDE DEF actual
<1>4. /\ headers' = headers \union {a}
      /\ \A b \in headers : heap'[b] = heap[b]
      /\ heap'[a] = New(a)
  BY <1>1 DEF headers
<1>5. /\ heap'[a].size = actual /\ heap'[a].layout = actual
      /\ heap'[a].refs = {} /\ heap'[a] \in Object
  BY <1>2, <1>3, <1>4
<1>6. reg' \in [Thread -> Pointer] /\ reg'[t] = a /\ \A u \in Thread \ {t} : reg'[u] = reg[u]
  BY <1>1 DEF IInv, TypeOK, StackTypeOK, Pointer
<1>7. TypeOK'
  <2>1. HeapTypeOK'
    <3>1. \A b \in headers' : heap'[b] \in Object
      BY <1>4, <1>5 DEF IInv, TypeOK, HeapTypeOK
    <3>2. heap' \in [headers' -> Object]
      BY <1>1, <1>4, <3>1
    <3>. QED  BY <1>1, <1>4, <3>2 DEF IInv, TypeOK, HeapTypeOK
  <2>2. StackTypeOK'
    BY <1>6 DEF IInv, TypeOK, StackTypeOK
  <2>3. (pending \in Request)' /\ live_bytes' \in Nat /\ bytes_since_collect' \in Nat
    BY <1>1, <1>2, SizeAssumption DEF Request, IInv, TypeOK, ControlTypeOK
  <2>4. ControlTypeOK'
    BY <2>3 DEF IInv, TypeOK, ControlTypeOK
  <2>. QED  BY <2>1, <2>2, <2>4 DEF TypeOK
<1>8. FrameCountsExact' /\ PinsCounted'
  BY DEF IInv, FrameCountsExact, PinsCounted
<1>9. StacksBounded'
  BY <1>6 DEF IInv, StacksBounded, OwnFrames
<1>10. ObjectsScannable'
  <2>1. SUFFICES ASSUME NEW b \in headers'
        PROVE /\ heap'[b].layout \in 0 .. MaxPayload
              /\ heap'[b].size = heap'[b].layout
              /\ \A v \in heap'[b].refs :
                   ScansInterior(heap'[b].tag) /\ v * WordSize <= heap'[b].layout
    BY DEF ObjectsScannable
  <2>2. CASE b = a
    BY <1>2, <1>5, <2>2
  <2>3. CASE b \in headers
    BY <1>4, <2>3 DEF IInv, ObjectsScannable
  <2>. QED  BY <1>4, <2>2, <2>3
<1>11. AccountingExact'
  <2>1. headers' \in SUBSET Addr /\ headers \subseteq headers' /\ headers' \ headers = {a}
    BY <1>4, <1>7 DEF TypeOK, HeapTypeOK
  <2>2. Layout'[a] = actual /\ \A b \in headers : Layout'[b] = Layout[b]
    BY <1>4, <1>5 DEF Layout
  <2>3. Bytes(headers', Layout') = Bytes(headers, Layout') + Bytes({a}, Layout')
    BY <2>1, BytesSplit
  <2>4. Bytes(headers, Layout') = Bytes(headers, Layout)
    BY <2>2, BytesSame
  <2>5. Bytes({a}, Layout') = actual
    BY <1>2, <2>2, BytesOne
  <2>. QED
    BY <1>1, <1>2, <2>3, <2>4, <2>5 DEF IInv, AccountingExact, TypeOK, ControlTypeOK
<1>12. PhasesOrdered' /\ OthersHoldNothing' /\ MarksCover'
  BY <1>1 DEF PhasesOrdered, OthersHoldNothing, MarksCover
<1>13. NoDangling'
  <2>1. \A u \in Thread : Holds(u)' \subseteq Holds(u) \union {a}
    BY <1>6 DEF Holds, OwnFrames
  <2>2. ASSUME NEW b \in headers', NEW v \in heap'[b].refs
        PROVE  heap'[b].words[v] \in headers' \union {Null}
    <3>1. b \in headers /\ heap'[b] = heap[b]
      BY <1>4, <1>5, <2>2
    <3>. QED  BY <1>4, <3>1 DEF IInv, NoDangling
  <2>. QED  BY <1>4, <2>1, <2>2 DEF IInv, NoDangling
<1>. QED  BY <1>7, <1>8, <1>9, <1>10, <1>11, <1>12, <1>13 DEF IInv

\* An allocation without a collection.
LEMMA AllocIInv ==
  ASSUME SizesFit, IInv, NEW t \in Thread, NEW size \in RequestSize,
         NEW tag \in TypeTag, Alloc(t, size, tag)
  PROVE  IInv'
<1>1. CASE Abort
  BY <1>1, AbortIInv
<1>2. CASE /\ Allocate(t, size, tag)
           /\ UNCHANGED <<modeVars, stackVars, pinVars, gcThread, gcPhase,
                          mark_work, pending, pinsRead, aborted, shutdowns>>
  <2>1. gcThread = NoThread /\ OwnFrames(t) # {}
    BY DEF Alloc, HeapFree
  <2>2. gcPhase = "idle" /\ pending = NoRequest /\ marked = {} /\ mark_work = {}
    BY <2>1 DEF IInv, PhasesOrdered
  <2>. QED  BY <1>2, <2>1, <2>2, AllocateIInv
<1>. QED  BY <1>1, <1>2 DEF Alloc

\* The allocation that a collection ran for, and the end of that collection.
LEMMA AllocAfterCollectionIInv ==
  ASSUME SizesFit, IInv, NEW t \in Thread, AllocAfterCollection(t)
  PROVE  IInv'
<1>1. CASE Abort
  BY <1>1, AbortIInv
<1>2. CASE /\ Allocate(t, pending.size, pending.tag)
           /\ gcPhase' = "idle" /\ gcThread' = NoThread /\ pending' = NoRequest
           /\ UNCHANGED <<modeVars, stackVars, pinVars, mark_work, pinsRead,
                          aborted, shutdowns>>
  <2>1. gcThread = t /\ gcPhase = "alloc"
    BY DEF AllocAfterCollection
  <2>2. /\ pending # NoRequest /\ OwnFrames(t) # {}
        /\ marked = {} /\ mark_work = {}
    BY <2>1 DEF IInv, PhasesOrdered
  <2>3. pending.size \in RequestSize /\ pending.tag \in TypeTag
    BY <2>2 DEF IInv, TypeOK, ControlTypeOK, Request
  <2>. QED  BY <1>2, <2>2, <2>3, AllocateIInv
<1>. QED  BY <1>1, <1>2 DEF AllocAfterCollection

-----------------------------------------------------------------------------
(* The steps of a collection.                                              *)

\* Marking more does not touch what the other conjuncts of IInv are about.
LEMMA CollectorStep ==
  ASSUME IInv,
         UNCHANGED <<heap, acctVars, modeVars, stackVars, pinVars, aborted,
                     shutdowns>>,
         (reg \in [Thread -> Pointer])',
         \A u \in Thread : reg'[u] = reg[u] \/ reg'[u] = Null,
         (gcThread \in Thread \union {NoThread})',
         (gcPhase \in {"idle", "gate", "roots", "pins", "trace", "alloc"})',
         (pending \in Request)',
         (pinsRead \subseteq Addr)',
         PhasesOrdered', OthersHoldNothing', MarksCover'
  PROVE  IInv'
<1>. USE DEF acctVars, modeVars, stackVars, pinVars
<1>1. headers' = headers /\ Layout' = Layout
  BY DEF headers, Layout
<1>2. marked' \subseteq Addr /\ mark_work' \subseteq Addr
  BY <1>1 DEF PhasesOrdered, IInv, TypeOK, HeapTypeOK
<1>3. TypeOK'
  BY <1>1, <1>2 DEF IInv, TypeOK, HeapTypeOK, StackTypeOK, ControlTypeOK
<1>4. FrameCountsExact' /\ ObjectsScannable' /\ AccountingExact' /\ PinsCounted'
  BY <1>1 DEF IInv, FrameCountsExact, ObjectsScannable, AccountingExact, PinsCounted
<1>5. StacksBounded'
  BY DEF IInv, StacksBounded, OwnFrames
<1>6. \A u \in Thread : Holds(u)' \subseteq Holds(u)
  BY AddrAssumption DEF Holds, OwnFrames
<1>7. NoDangling'
  BY <1>1, <1>6 DEF IInv, NoDangling
<1>. QED  BY <1>3, <1>4, <1>5, <1>7 DEF IInv

\* The thread that starts a collection has nothing in hand.
LEMMA BeginCollectionIInv ==
  ASSUME IInv, NEW t \in Thread, NEW request \in Request,
         BeginCollection(t, request),
         request # NoRequest => OwnFrames(t) # {}
  PROVE  IInv'
<1>1. gcThread = NoThread /\ gcPhase = "idle" /\ marked = {} /\ mark_work = {}
  BY DEF BeginCollection, HeapFree, IInv, PhasesOrdered
<1>2. /\ (reg \in [Thread -> Pointer])'
      /\ reg'[t] = Null
      /\ \A u \in Thread : reg'[u] = reg[u] \/ reg'[u] = Null
  BY DEF BeginCollection, IInv, TypeOK, StackTypeOK, Pointer
<1>3. PhasesOrdered'
  BY <1>1, <1>2, ThreadAssumption DEF BeginCollection, PhasesOrdered, OwnFrames, stackVars
<1>4. OthersHoldNothing' /\ MarksCover'
  BY <1>1 DEF BeginCollection, OthersHoldNothing, MarksCover
<1>5. (pinsRead \subseteq Addr)'
  BY DEF BeginCollection, IInv, TypeOK, ControlTypeOK
<1>. QED  BY <1>2, <1>3, <1>4, <1>5, CollectorStep DEF BeginCollection

\* When no more frames are counted than thread t has, the others have none.
LEMMA OnlyOwnFrames ==
  ASSUME IInv, NEW t \in Thread, LIVE_FRAME_COUNT <= THIS_THREAD_FRAME_COUNT[t]
  PROVE  \A u \in Thread \ {t} : Len(frames[u]) = 0
<1>. DEFINE n == Len(frames[t])
            own == {t} \X (1 .. n)
<1>1. \A u \in Thread : Len(frames[u]) \in 0 .. MaxFrames
  BY BoundAssumption DEF IInv, TypeOK, StackTypeOK, StacksBounded
<1>2. IsFiniteSet(own) /\ Cardinality(own) = n
  <2>1. IsFiniteSet({t}) /\ Cardinality({t}) = 1
    BY FS_Singleton
  <2>2. IsFiniteSet(1 .. n) /\ Cardinality(1 .. n) = n
    BY <1>1, FS_Interval
  <2>3. /\ IsFiniteSet(own)
        /\ Cardinality(own) = Cardinality({t}) * Cardinality(1 .. n)
    BY <2>1, <2>2, FS_Product, Zenon
  <2>4. Cardinality(own) = 1 * n
    BY <2>1, <2>2, <2>3, Zenon
  <2>. QED  BY <1>1, <2>3, <2>4
<1>3. own \in SUBSET FrameCells(frames)
  BY <1>1, BoundAssumption DEF FrameCells
<1>4. Cardinality(FrameCells(frames)) <= n
  BY DEF IInv, FrameCountsExact, FrameCells
<1>5. own = FrameCells(frames)
  <2>1. Cardinality(own) <= Cardinality(FrameCells(frames))
    BY <1>3, FrameCellsFinite, FS_Subset
  <2>2. Cardinality(FrameCells(frames)) = Cardinality(own)
    BY <1>1, <1>2, <1>4, <2>1, FrameCellsFinite
  <2>. QED  BY <1>3, <2>2, FrameCellsFinite, FS_Subset
<1>. SUFFICES ASSUME NEW u \in Thread \ {t}, Len(frames[u]) # 0 PROVE FALSE
  OBVIOUS
<1>6. <<u, 1>> \in FrameCells(frames)
  BY <1>1, BoundAssumption DEF FrameCells
<1>. QED  BY <1>5, <1>6

\* Past the gate the other threads have no frames, hence hold nothing.
LEMMA GateIInv ==
  ASSUME IInv, NEW t \in Thread, Gate(t)
  PROVE  IInv'
<1>1. CASE Abort
  BY <1>1, AbortIInv
<1>2. CASE /\ LIVE_FRAME_COUNT <= THIS_THREAD_FRAME_COUNT[t]
           /\ gcPhase' = "roots"
           /\ UNCHANGED <<heap, acctVars, modeVars, stackVars, pinVars, gcThread,
                          mark_work, pending, pinsRead, marked, aborted, reg,
                          shutdowns>>
  <2>1. gcThread = t /\ gcPhase = "gate" /\ marked = {} /\ mark_work = {}
    BY DEF Gate, IInv, PhasesOrdered
  <2>2. PhasesOrdered' /\ MarksCover'
    BY <1>2, <2>1, ThreadAssumption DEF IInv, PhasesOrdered, MarksCover, OwnFrames, stackVars
  <2>3. ASSUME NEW u \in Thread \ {t} PROVE Holds(u)' = {}
    <3>1. Len(frames[u]) = 0 /\ leftover[u] \in Nat
      BY <1>2, OnlyOwnFrames DEF IInv, TypeOK, StackTypeOK
    <3>2. OwnFrames(u) = {} /\ reg[u] = Null
      BY <3>1 DEF OwnFrames, IInv, StacksBounded
    <3>3. Holds(u) = {}
      BY <3>2, AddrAssumption DEF Holds
    <3>. QED  BY <1>2, <3>3 DEF Holds, OwnFrames, stackVars
  <2>4. OthersHoldNothing'
    BY <1>2, <2>1, <2>3 DEF OthersHoldNothing
  <2>5. /\ (reg \in [Thread -> Pointer])'
        /\ (pending \in Request)'
        /\ (pinsRead \subseteq Addr)'
        /\ (gcThread \in Thread \union {NoThread})'
    BY <1>2 DEF IInv, TypeOK, StackTypeOK, ControlTypeOK
  <2>. QED  BY <1>2, <2>2, <2>4, <2>5, CollectorStep
<1>. QED  BY <1>1, <1>2 DEF Gate

\* The type facts CollectorStep asks for, when the step sets none of them.
LEMMA MarkingTypes ==
  ASSUME IInv, UNCHANGED <<reg, gcThread, pending>>,
         pinsRead' = pinsRead \/ pinsRead' = PinnedRoots
  PROVE  /\ (reg \in [Thread -> Pointer])'
         /\ (pending \in Request)'
         /\ (pinsRead \subseteq Addr)'
         /\ (gcThread \in Thread \union {NoThread})'
BY DEF IInv, TypeOK, StackTypeOK, ControlTypeOK, PinnedRoots

\* After the first loop of mark_phase the marks cover the stack roots.
LEMMA MarkStackRootsIInv ==
  ASSUME IInv, NEW t \in Thread, MarkStackRoots(t)
  PROVE  IInv'
<1>. DEFINE found == (StackRoots(t) \intersect headers) \ marked
<1>1. /\ gcThread = t /\ gcPhase = "roots" /\ gcPhase' = "pins"
      /\ marked' = marked \union found /\ mark_work' = found
      /\ UNCHANGED <<heap, acctVars, modeVars, stackVars, pinVars, gcThread,
                     pending, pinsRead, aborted, reg, shutdowns>>
  BY DEF MarkStackRoots
<1>2. marked = {} /\ mark_work = {}
  BY <1>1 DEF IInv, PhasesOrdered
<1>3. headers' = headers /\ StackRoots(t)' = StackRoots(t)
  BY <1>1 DEF headers, StackRoots, stackVars
<1>4. PhasesOrdered'
  BY <1>1, <1>2, <1>3, ThreadAssumption DEF IInv, PhasesOrdered, OwnFrames, stackVars
<1>5. OthersHoldNothing'
  BY <1>1 DEF IInv, OthersHoldNothing, Holds, OwnFrames, stackVars
<1>6. MarksCover'
  BY <1>1, <1>2, <1>3 DEF MarksCover
<1>. QED  BY <1>1, <1>4, <1>5, <1>6, MarkingTypes, CollectorStep

\* After the second loop they cover the pins as well.
LEMMA MarkPinnedRootsIInv ==
  ASSUME IInv, NEW t \in Thread, MarkPinnedRoots(t)
  PROVE  IInv'
<1>. DEFINE found == (PinnedRoots \intersect headers) \ marked
<1>1. /\ gcThread = t /\ gcPhase = "pins" /\ gcPhase' = "trace"
      /\ marked' = marked \union found /\ mark_work' = mark_work \union found
      /\ UNCHANGED <<heap, acctVars, modeVars, stackVars, pinVars, gcThread,
                     pending, aborted, reg, shutdowns>>
      /\ pinsRead' = PinnedRoots
  BY DEF MarkPinnedRoots
<1>2. headers' = headers /\ StackRoots(t)' = StackRoots(t) /\ PinnedRoots' = PinnedRoots
  BY <1>1 DEF headers, StackRoots, PinnedRoots, stackVars, pinVars
<1>3. PhasesOrdered'
  BY <1>1, <1>2, ThreadAssumption DEF IInv, PhasesOrdered, OwnFrames, stackVars
<1>4. OthersHoldNothing'
  BY <1>1 DEF IInv, OthersHoldNothing, Holds, OwnFrames, stackVars
<1>5. MarksCover'
  <2>1. \A a \in marked' \ mark_work' : a \in marked \ mark_work
    BY <1>1
  <2>2. StackRoots(t) \intersect headers \subseteq marked
    BY <1>1 DEF IInv, MarksCover
  <2>3. \A a \in marked \ mark_work :
          \A w \in heap[a].refs : heap[a].words[w] \in marked \union {Null}
    BY DEF IInv, MarksCover
  <2>. QED  BY <1>1, <1>2, <2>1, <2>2, <2>3 DEF MarksCover
<1>. QED  BY <1>1, <1>3, <1>4, <1>5, MarkingTypes, CollectorStep

\* Scanning an object finds all of its references.
LEMMA ScanFindsReferences ==
  ASSUME IInv, NEW a \in headers, NEW w \in heap[a].refs, heap[a].words[w] # Null
  PROVE  heap[a].words[w] \in marked \union UnmarkedChildren(a)
<1>1. heap[a] \in Object
  BY DEF IInv, TypeOK, HeapTypeOK
<1>2. w \in Word
  BY <1>1 DEF Object
<1>3. w \in ScannedWords(a) /\ ScansInterior(heap[a].tag)
  BY <1>2 DEF IInv, ObjectsScannable, ScannedWords
<1>4. heap[a].words[w] \in headers
  BY DEF IInv, NoDangling
<1>. QED  BY <1>3, <1>4 DEF UnmarkedChildren

\* After one object is traced, all it refers to is marked.
LEMMA TraceIInv ==
  ASSUME IInv, NEW t \in Thread, Trace(t)
  PROVE  IInv'
<1>1. PICK a \in mark_work :
        /\ mark_work' = (mark_work \ {a}) \union UnmarkedChildren(a)
        /\ marked' = marked \union UnmarkedChildren(a)
  BY DEF Trace
<1>2. /\ gcThread = t /\ gcPhase = "trace"
      /\ UNCHANGED <<heap, acctVars, modeVars, stackVars, pinVars, gcThread,
                     gcPhase, pending, pinsRead, aborted, reg, shutdowns>>
  BY DEF Trace
<1>3. headers' = headers /\ StackRoots(t)' = StackRoots(t) /\ PinnedRoots' = PinnedRoots
  BY <1>2 DEF headers, StackRoots, PinnedRoots, stackVars, pinVars
<1>4. a \in marked /\ a \in headers
  BY DEF IInv, PhasesOrdered
<1>5. UnmarkedChildren(a) \subseteq headers
  BY DEF UnmarkedChildren
<1>6. PhasesOrdered'
  BY <1>1, <1>2, <1>3, <1>5, ThreadAssumption DEF IInv, PhasesOrdered, OwnFrames, stackVars
<1>7. OthersHoldNothing'
  BY <1>2 DEF IInv, OthersHoldNothing, Holds, OwnFrames, stackVars
<1>8. MarksCover'
  <2>1. ASSUME NEW b \in marked' \ mark_work', NEW w \in heap[b].refs
        PROVE  heap[b].words[w] \in marked' \union {Null}
    <3>1. CASE b = a
      BY <1>1, <1>4, <3>1, ScanFindsReferences
    <3>2. CASE b # a
      <4>1. b \in marked \ mark_work
        BY <1>1, <2>1, <3>2
      <4>. QED  BY <1>1, <4>1 DEF IInv, MarksCover
    <3>. QED  BY <3>1, <3>2
  <2>2. /\ StackRoots(t) \intersect headers \subseteq marked
        /\ PinnedRoots \intersect headers \subseteq marked
    BY <1>2 DEF IInv, MarksCover
  <2>. QED  BY <1>1, <1>2, <1>3, <2>1, <2>2 DEF MarksCover
<1>9. (gcPhase \in {"idle", "gate", "roots", "pins", "trace", "alloc"})'
  BY <1>2
<1>. QED  BY <1>2, <1>6, <1>7, <1>8, <1>9, MarkingTypes, CollectorStep

\* Nothing marked refers to anything unmarked, so a sweep leaves no dangling reference.
LEMMA SweepIInv ==
  ASSUME IInv, NEW t \in Thread, Sweep(t)
  PROVE  IInv'
<1>. USE DEF modeVars, stackVars, pinVars
<1>1. /\ gcThread = t /\ gcPhase = "trace" /\ mark_work = {}
      /\ UNCHANGED <<modeVars, stackVars, pinVars, mark_work, pending, aborted,
                     reg, shutdowns>>
  BY DEF Sweep
<1>2. marked \subseteq headers
  BY DEF IInv, PhasesOrdered
<1>3. headers' = marked /\ \A a \in marked : heap'[a] = heap[a]
  BY <1>2 DEF Sweep, headers
<1>4. \A u \in Thread : Holds(u)' = Holds(u)
  BY <1>1 DEF Holds, OwnFrames
<1>5. AccountingExact' /\ live_bytes' \in Nat
  <2>1. \A a \in headers : Size[a] = Layout[a]
    BY DEF Size, Layout, IInv, ObjectsScannable
  <2>2. Bytes(headers \ marked, Size) = Bytes(headers \ marked, Layout)
    BY <2>1, BytesSame
  <2>3. headers \in SUBSET Addr /\ marked \in SUBSET headers /\ marked \in SUBSET Addr
    BY <1>2 DEF IInv, TypeOK, HeapTypeOK
  <2>4. Bytes(headers, Layout) = Bytes(marked, Layout) + Bytes(headers \ marked, Layout)
    BY <2>3, BytesSplit
  <2>5. \A a \in marked : Layout'[a] = Layout[a]
    BY <1>2, <1>3 DEF Layout
  <2>6. Bytes(marked, Layout') = Bytes(marked, Layout)
    BY <2>5, BytesSame
  <2>7. Bytes(marked, Layout) \in Nat /\ Bytes(headers \ marked, Layout) \in Nat
    BY <2>3, BytesFinite
  <2>8. live_bytes' = Bytes(marked, Layout)
    BY <2>2, <2>4, <2>7 DEF Sweep, IInv, AccountingExact
  <2>. QED  BY <1>3, <2>6, <2>7, <2>8 DEF Sweep, AccountingExact
<1>6. TypeOK'
  <2>1. HeapTypeOK'
    <3>1. marked \subseteq Addr /\ \A a \in marked : heap'[a] \in Object
      BY <1>2, <1>3 DEF IInv, TypeOK, HeapTypeOK
    <3>2. heap' \in [headers' -> Object]
      BY <1>2, <1>3, <3>1 DEF Sweep
    <3>. QED  BY <1>1, <1>3, <3>1, <3>2 DEF Sweep, HeapTypeOK
  <2>2. StackTypeOK'
    BY <1>1 DEF IInv, TypeOK, StackTypeOK
  <2>3. /\ bytes_since_collect' = 0 /\ pinsRead' = {}
        /\ gcPhase' \in {"idle", "alloc"} /\ gcThread' \in Thread \union {NoThread}
    BY DEF Sweep
  <2>4. ControlTypeOK'
    BY <1>1, <1>5, <2>3 DEF IInv, TypeOK, ControlTypeOK
  <2>. QED  BY <2>1, <2>2, <2>4 DEF TypeOK
<1>7. FrameCountsExact' /\ StacksBounded' /\ PinsCounted'
  BY <1>1 DEF IInv, FrameCountsExact, StacksBounded, PinsCounted, OwnFrames
<1>8. ObjectsScannable'
  BY <1>2, <1>3 DEF IInv, ObjectsScannable
<1>9. PhasesOrdered'
  BY <1>1, ThreadAssumption DEF Sweep, IInv, PhasesOrdered, OwnFrames
<1>10. OthersHoldNothing'
  BY <1>1, <1>4 DEF Sweep, IInv, OthersHoldNothing
<1>11. MarksCover'
  BY DEF Sweep, MarksCover
<1>12. NoDangling'
  <2>1. ASSUME NEW u \in Thread PROVE Holds(u) \subseteq marked
    <3>1. CASE u # t
      BY <1>1, <3>1 DEF IInv, OthersHoldNothing
    <3>2. CASE u = t
      <4>1. reg[t] = Null
        BY <1>1 DEF IInv, PhasesOrdered
      <4>2. OwnFrames(t) \subseteq DOMAIN frames[t]
        BY DEF OwnFrames, IInv, TypeOK, StackTypeOK
      <4>3. Holds(t) \subseteq StackRoots(t)
        BY <4>1, <4>2, AddrAssumption DEF Holds, StackRoots
      <4>4. Holds(t) \subseteq headers
        BY DEF IInv, NoDangling
      <4>. QED  BY <1>1, <3>2, <4>3, <4>4 DEF IInv, MarksCover
    <3>. QED  BY <3>1, <3>2
  <2>2. livePins \subseteq marked
    BY <1>1 DEF PinnedRoots, IInv, PinsCounted, MarksCover, NoDangling, TypeOK, ControlTypeOK
  <2>3. \A a \in marked : \A w \in heap[a].refs : heap[a].words[w] \in marked \union {Null}
    BY <1>1 DEF IInv, MarksCover
  <2>. QED  BY <1>1, <1>3, <1>4, <2>1, <2>2, <2>3 DEF NoDangling
<1>. QED
  BY <1>5, <1>6, <1>7, <1>8, <1>9, <1>10, <1>11, <1>12 DEF IInv

\* After a shutdown nobody holds anything: leftover frames are never read.
LEMMA ShutdownIInv ==
  ASSUME IInv, NEW t \in Thread, Shutdown(t)
  PROVE  IInv'
<1>1. gcThread = NoThread /\ gcPhase = "idle" /\ pending = NoRequest
  BY DEF Shutdown, HeapFree, IInv, PhasesOrdered
<1>2. headers' = {}
  BY EmptyHeap DEF Shutdown, headers
<1>3. TypeOK'
  <2>1. HeapTypeOK'
    BY <1>2, EmptyHeap DEF Shutdown, HeapTypeOK
  <2>2. StackTypeOK'
    BY DEF Shutdown, IInv, TypeOK, StackTypeOK, Pointer
  <2>3. (auto_collect \in BOOLEAN)'
    BY Zenon DEF Shutdown
  <2>4. shutdowns' \in 0 .. MaxShutdowns
    BY BoundAssumption DEF Shutdown, IInv, TypeOK, ControlTypeOK
  <2>5. ControlTypeOK'
    BY <2>3, <2>4, ThresholdAssumption DEF Shutdown, IInv, TypeOK, ControlTypeOK
  <2>. QED  BY <2>1, <2>2, <2>5 DEF TypeOK
<1>4. \A u \in Thread : OwnFrames(u)' = {} /\ reg'[u] = Null
  BY DEF Shutdown, OwnFrames, IInv, TypeOK, StackTypeOK
<1>5. FrameCountsExact'
  BY DEF Shutdown, IInv, FrameCountsExact
<1>6. StacksBounded'
  BY <1>4 DEF Shutdown, IInv, StacksBounded, TypeOK, StackTypeOK
<1>7. ObjectsScannable' /\ AccountingExact' /\ PinsCounted'
  BY <1>2, BytesNone DEF Shutdown, ObjectsScannable, AccountingExact, PinsCounted
<1>8. PhasesOrdered' /\ OthersHoldNothing' /\ MarksCover'
  BY <1>1, <1>2 DEF Shutdown, PhasesOrdered, OthersHoldNothing, MarksCover
<1>9. NoDangling'
  <2>1. \A u \in Thread : Holds(u)' = {}
    BY <1>4, AddrAssumption DEF Holds
  <2>. QED  BY <1>2, <2>1 DEF Shutdown, NoDangling
<1>. QED  BY <1>3, <1>5, <1>6, <1>7, <1>8, <1>9 DEF IInv

-----------------------------------------------------------------------------
(* The theorems.                                                           *)

\* Every step of the runtime and of the code that uses it preserves IInv.
LEMMA NextIInv ==
  ASSUME SizesFit, IInv, [Next]_vars
  PROVE  IInv'
<1>1. CASE UNCHANGED vars
  <2>. USE <1>1 DEF vars, acctVars, modeVars, stackVars, pinVars, gcVars
  <2>1. headers' = headers /\ Layout' = Layout
    BY DEF headers, Layout
  <2>2. \A u \in Thread : /\ Holds(u)' = Holds(u)
                          /\ OwnFrames(u)' = OwnFrames(u)
    BY DEF Holds, OwnFrames
  <2>3. TypeOK'
    BY <2>1 DEF IInv, TypeOK, HeapTypeOK, StackTypeOK, ControlTypeOK
  <2>4. FrameCountsExact' /\ StacksBounded' /\ ObjectsScannable' /\ AccountingExact' /\ PinsCounted'
    BY <2>1 DEF IInv, FrameCountsExact, StacksBounded, ObjectsScannable,
         AccountingExact, PinsCounted, OwnFrames
  <2>5. PhasesOrdered' /\ OthersHoldNothing' /\ NoDangling'
    BY <2>1, <2>2 DEF IInv, PhasesOrdered, OthersHoldNothing, NoDangling, OwnFrames
  <2>6. MarksCover'
    BY <2>1 DEF IInv, MarksCover, StackRoots, PinnedRoots
  <2>. QED  BY <2>3, <2>4, <2>5, <2>6 DEF IInv
<1>2. ASSUME NEW t \in Thread, Collector(t) PROVE IInv'
  BY <1>2, GateIInv, MarkStackRootsIInv, MarkPinnedRootsIInv, TraceIInv,
     SweepIInv, AllocAfterCollectionIInv DEF Collector
<1>3. ASSUME NEW t \in Thread, ShadowStack(t) PROVE IInv'
  <2>1. CASE ShadowStackMisuse(t)
    BY <2>1, AbortIInv DEF ShadowStackMisuse
  <2>. QED  BY <1>3, <2>1, PushFrameIInv, PopFrameIInv, SetRootIInv DEF ShadowStack
<1>4. ASSUME NEW t \in Thread, Mutator(t) PROVE IInv'
  BY <1>4, ReadRootIInv, LoadFieldIInv, StoreFieldIInv, StoreBitsIInv,
     PinIInv, UnpinIInv DEF Mutator
<1>5. ASSUME NEW t \in Thread, Runtime(t) PROVE IInv'
  <2>1. ASSUME NEW size \in RequestSize, NEW tag \in TypeTag, AllocCollects(t, size, tag)
        PROVE  IInv'
    <3>1. [size |-> size, tag |-> tag] \in Request
      BY DEF Request
    <3>. QED  BY <2>1, <3>1, BeginCollectionIInv DEF AllocCollects
  <2>2. CASE Collect(t)
    <3>1. NoRequest \in Request
      BY DEF Request
    <3>. QED  BY <2>2, <3>1, BeginCollectionIInv DEF Collect
  <2>. QED
    BY <1>5, <2>1, <2>2, AllocIInv, SetModeIInv, ShutdownIInv DEF Runtime
<1>. QED  BY <1>1, <1>2, <1>3, <1>4, <1>5 DEF Next, Halted

\* IInv is an invariant.
LEMMA IInvHolds ==
  ASSUME SizesFit
  PROVE  Spec => []IInv
<1>1. IInv /\ [Next]_vars => IInv'
  BY NextIInv
<1>. QED  BY InitIInv, <1>1, PTL DEF Spec

\* The variables keep their types; in particular neither the byte counters
\* nor the frame counters ever wrap below zero.
THEOREM TypeCorrect ==
  ASSUME SizesFit
  PROVE  Spec => []TypeOK
<1>1. IInv => TypeOK
  BY DEF IInv
<1>. QED  BY IInvHolds, <1>1, PTL

\* No slot, register, pin or reference field ever refers to memory that a
\* collection, or a shutdown, has freed.
THEOREM NothingDangles ==
  ASSUME SizesFit
  PROVE  Spec => []NoDangling
<1>1. IInv => NoDangling
  BY DEF IInv
<1>. QED  BY IInvHolds, <1>1, PTL

\* live_bytes is exact, and what is counted towards the next collection is
\* alive.
THEOREM BytesAccounted ==
  ASSUME SizesFit
  PROVE  Spec => []AccountingExact
<1>1. IInv => AccountingExact
  BY DEF IInv
<1>. QED  BY IInvHolds, <1>1, PTL

\* The counters that the gate of a collection compares count the frames.
THEOREM FramesCounted ==
  ASSUME SizesFit
  PROVE  Spec => []FrameCountsExact
<1>1. IInv => FrameCountsExact
  BY DEF IInv
<1>. QED  BY IInvHolds, <1>1, PTL

\* A collection that passed its gate sees every reference there is, although
\* other threads run on: none of them holds one.
THEOREM GateSuffices ==
  ASSUME SizesFit
  PROVE  Spec => []OthersHoldNothing
<1>1. IInv => OthersHoldNothing
  BY DEF IInv
<1>. QED  BY IInvHolds, <1>1, PTL

\* No mark bit survives a collection.
THEOREM MarksCleared ==
  ASSUME SizesFit
  PROVE  Spec => []MarksClearBetweenCollections
<1>1. IInv => MarksClearBetweenCollections
  BY DEF IInv, PhasesOrdered, MarksClearBetweenCollections
<1>. QED  BY IInvHolds, <1>1, PTL

-----------------------------------------------------------------------------
(* What a collection frees.                                                *)

\* A set of objects that has the roots of thread t and is closed under the
\* scan: ConservativeReach is what all of these have in common.
Closure(t, S) ==
  /\ S \subseteq headers
  /\ (StackRoots(t) \union pinsRead) \intersect headers \subseteq S
  /\ ClosedUnderScan(S)

\* The objects that are reached, in terms of such sets.
LEMMA ReachIsLeast ==
  ASSUME NEW t, NEW M
  PROVE  /\ M \subseteq ConservativeReach(t) <=>
              M \subseteq headers /\ \A S : Closure(t, S) => M \subseteq S
         /\ Closure(t, M) => ConservativeReach(t) \subseteq M
BY DEF ConservativeReach, Closure

\* The conjuncts of SweepInv that IInv does not have.
Exact == PinsReadInTime /\ MarksAreReached

\* Outside the two phases that mark there is nothing to say but that no pins
\* are kept.
LEMMA NotMarking ==
  ASSUME IInv', gcPhase' \notin {"pins", "trace"}, pinsRead' = {}
  PROVE  Exact'
BY DEF Exact, IInv, PhasesOrdered, PinsReadInTime, MarksAreReached

\* A step of another thread during a collection: it has nothing to write to
\* the heap or to pin, so that only pins can go.
LEMMA OthersStep ==
  ASSUME SweepInv, IInv',
         UNCHANGED <<heap, gcVars>>,
         gcPhase \in {"pins", "trace"} => frames'[gcThread] = frames[gcThread],
         gcPhase = "trace" => PinnedRoots' \subseteq PinnedRoots
  PROVE  Exact'
<1>. USE DEF gcVars
<1>1. headers' = headers /\ \A a \in headers : ScannedWords(a)' = ScannedWords(a)
  BY DEF headers, ScannedWords
<1>2. PinsReadInTime'
  BY <1>1 DEF SweepInv, PinsReadInTime
<1>3. marked \subseteq headers
  BY DEF SweepInv, IInv, PhasesOrdered
<1>4. gcPhase \in {"pins", "trace"} => ConservativeReach(gcThread)' = ConservativeReach(gcThread)
  BY <1>1 DEF ConservativeReach, StackRoots, ClosedUnderScan, ScannedWords
<1>5. MarksAreReached'
  BY <1>1, <1>3, <1>4 DEF SweepInv, MarksAreReached, ScannedWords
<1>. QED  BY <1>2, <1>5 DEF Exact

\* What the stack roots are is reached from them.
LEMMA MarkStackRootsExact ==
  ASSUME SweepInv, IInv', NEW t \in Thread, MarkStackRoots(t)
  PROVE  Exact'
<1>1. /\ gcThread = t /\ gcThread' = t /\ gcPhase = "roots" /\ gcPhase' = "pins"
      /\ marked' = marked \union ((StackRoots(t) \intersect headers) \ marked)
      /\ mark_work' = (StackRoots(t) \intersect headers) \ marked
      /\ UNCHANGED <<heap, frames, pinsRead>>
  BY DEF MarkStackRoots, stackVars
<1>2. marked = {} /\ mark_work = {} /\ pinsRead = {}
  BY <1>1 DEF SweepInv, IInv, PhasesOrdered, PinsReadInTime
<1>3. headers' = headers /\ StackRoots(t)' = StackRoots(t)
  BY <1>1 DEF headers, StackRoots
<1>4. PinsReadInTime'
  BY <1>1, <1>2 DEF PinsReadInTime
<1>5. marked' \subseteq ConservativeReach(t)'
  BY <1>1, <1>2, <1>3 DEF ConservativeReach
<1>6. MarksAreReached'
  BY <1>1, <1>2, <1>5 DEF MarksAreReached
<1>. QED  BY <1>4, <1>6 DEF Exact

\* What the pins are is reached from them, and what the stack roots reach
\* still is reached.
LEMMA MarkPinnedRootsExact ==
  ASSUME SweepInv, IInv', NEW t \in Thread, MarkPinnedRoots(t)
  PROVE  Exact'
<1>. DEFINE found == (PinnedRoots \intersect headers) \ marked
<1>1. /\ gcThread = t /\ gcThread' = t /\ gcPhase = "pins" /\ gcPhase' = "trace"
      /\ marked' = marked \union found /\ mark_work' = mark_work \union found
      /\ pinsRead' = PinnedRoots
      /\ UNCHANGED <<heap, frames, PINNED>>
  BY DEF MarkPinnedRoots, stackVars, pinVars
<1>2. pinsRead = {} /\ marked \subseteq ConservativeReach(t) /\ marked \subseteq headers
  BY <1>1 DEF SweepInv, IInv, PhasesOrdered, PinsReadInTime, MarksAreReached
<1>3. headers' = headers /\ StackRoots(t)' = StackRoots(t) /\ PinnedRoots' = PinnedRoots
  BY <1>1 DEF headers, StackRoots, PinnedRoots
<1>4. PinsReadInTime'
  BY <1>1, <1>3 DEF PinsReadInTime
<1>5. \A S : ClosedUnderScan(S)' <=> ClosedUnderScan(S)
  BY <1>1, <1>3 DEF ClosedUnderScan, ScannedWords
<1>6. \A S : Closure(t, S)' => Closure(t, S) /\ found \subseteq S
  BY <1>1, <1>2, <1>3, <1>5 DEF Closure
<1>7. marked' \subseteq ConservativeReach(t)'
  BY <1>1, <1>2, <1>3, <1>6 DEF ConservativeReach, Closure
<1>8. \A a \in marked' \ mark_work' : a \in marked \ mark_work
  BY <1>1
<1>9. MarksAreReached'
  BY <1>1, <1>3, <1>7, <1>8 DEF SweepInv, MarksAreReached, ScannedWords
<1>. QED  BY <1>4, <1>9 DEF Exact

\* What a reached object's words point at is reached.
LEMMA TraceExact ==
  ASSUME SweepInv, IInv', NEW t \in Thread, Trace(t)
  PROVE  Exact'
<1>1. PICK a \in mark_work :
        /\ mark_work' = (mark_work \ {a}) \union UnmarkedChildren(a)
        /\ marked' = marked \union UnmarkedChildren(a)
  BY DEF Trace
<1>2. /\ gcThread = t /\ gcPhase = "trace"
      /\ UNCHANGED <<heap, frames, gcThread, gcPhase, PINNED, pinsRead>>
  BY DEF Trace, stackVars, pinVars
<1>3. headers' = headers /\ StackRoots(t)' = StackRoots(t) /\ PinnedRoots' = PinnedRoots
  BY <1>2 DEF headers, StackRoots, PinnedRoots
<1>4. a \in marked /\ marked \subseteq ConservativeReach(t) /\ marked \subseteq headers
  BY <1>2 DEF SweepInv, IInv, PhasesOrdered, MarksAreReached
<1>5. PinsReadInTime'
  BY <1>1, <1>2, <1>3 DEF SweepInv, PinsReadInTime
<1>6. UnmarkedChildren(a) \subseteq headers
  BY DEF UnmarkedChildren
<1>7. \A S : Closure(t, S) /\ a \in S => UnmarkedChildren(a) \subseteq S
  BY DEF Closure, ClosedUnderScan, UnmarkedChildren
<1>8. ConservativeReach(t)' = ConservativeReach(t)
  BY <1>2, <1>3 DEF ConservativeReach, ClosedUnderScan, ScannedWords
<1>9. marked' \subseteq ConservativeReach(t)'
  BY <1>1, <1>4, <1>6, <1>7, <1>8, ReachIsLeast
<1>10. ASSUME NEW b \in marked' \ mark_work', ScansInterior(heap[b].tag),
              NEW w \in ScannedWords(b), heap[b].words[w] \in headers
       PROVE  heap[b].words[w] \in marked'
  <2>1. CASE b = a
    BY <1>1, <1>10, <2>1 DEF UnmarkedChildren
  <2>2. CASE b # a
    BY <1>1, <1>10, <2>2 DEF SweepInv, MarksAreReached
  <2>. QED  BY <2>1, <2>2
<1>11. MarksAreReached'
  BY <1>2, <1>3, <1>9, <1>10 DEF MarksAreReached, ScannedWords
<1>. QED  BY <1>5, <1>11 DEF Exact

\* At the end of a trace the marks are exactly what is reached.
LEMMA MarksAreExact ==
  ASSUME SweepInv, NEW t \in Thread, gcThread = t, gcPhase = "trace", mark_work = {}
  PROVE  PinnedRoots \subseteq pinsRead /\ marked = ConservativeReach(t)
<1>1. /\ PinnedRoots \subseteq pinsRead
      /\ pinsRead \intersect headers \subseteq marked
      /\ marked \subseteq ConservativeReach(t)
  BY DEF SweepInv, PinsReadInTime, MarksAreReached
<1>2. marked \subseteq headers /\ StackRoots(t) \intersect headers \subseteq marked
  BY DEF SweepInv, IInv, PhasesOrdered, MarksCover
<1>3. ClosedUnderScan(marked)
  BY DEF SweepInv, MarksAreReached, ClosedUnderScan
<1>4. Closure(t, marked)
  BY <1>1, <1>2, <1>3 DEF Closure
<1>. QED  BY <1>1, <1>4, ReachIsLeast

\* Every step keeps what the two conjuncts say.
LEMMA NextExact ==
  ASSUME SizesFit, SweepInv, [Next]_vars
  PROVE  SweepInv'
<1>1. IInv'
  BY NextIInv DEF SweepInv
<1>. SUFFICES Exact'
  BY <1>1 DEF Exact, SweepInv
<1>2. gcPhase \notin {"trace"} => pinsRead = {}
  BY DEF SweepInv, PinsReadInTime
<1>3. ASSUME Abort PROVE Exact'
  BY <1>1, <1>3, NotMarking DEF Abort
<1>4. ASSUME UNCHANGED vars PROVE Exact'
  BY <1>1, <1>4, OthersStep DEF vars, gcVars, stackVars, pinVars, PinnedRoots
<1>5. ASSUME NEW t \in Thread, Collector(t) PROVE Exact'
  <2>1. CASE Gate(t)
    <3>1. CASE gcPhase' = "roots" /\ pinsRead' = pinsRead
      BY <1>1, <1>2, <2>1, <3>1, NotMarking DEF Gate
    <3>. QED  BY <1>3, <2>1, <3>1 DEF Gate
  <2>2. CASE Sweep(t)
    BY <1>1, <2>2, NotMarking DEF Sweep
  <2>3. CASE AllocAfterCollection(t)
    <3>1. CASE gcPhase' = "idle" /\ pinsRead' = pinsRead
      BY <1>1, <1>2, <2>3, <3>1, NotMarking DEF AllocAfterCollection
    <3>. QED  BY <1>3, <2>3, <3>1 DEF AllocAfterCollection
  <2>. QED
    BY <1>1, <1>5, <2>1, <2>2, <2>3, MarkStackRootsExact, MarkPinnedRootsExact,
       TraceExact DEF Collector
<1>6. ASSUME NEW t \in Thread, Running(t), UNCHANGED <<heap, gcVars, PINNED>>,
             \A u \in Thread \ {t} : frames'[u] = frames[u]
      PROVE  Exact'
  <2>1. gcPhase \in {"pins", "trace"} => gcThread \in Thread \ {t}
    BY <1>6 DEF Running, SweepInv, IInv, TypeOK, ControlTypeOK, PhasesOrdered
  <2>. QED  BY <1>1, <1>6, <2>1, OthersStep DEF PinnedRoots
<1>7. ASSUME NEW t \in Thread, ShadowStack(t) PROVE Exact'
  <2>1. frames \in [Thread -> Seq(Seq(Pointer))]
    BY DEF SweepInv, IInv, TypeOK, StackTypeOK
  <2>2. CASE ShadowStackMisuse(t)
    BY <1>3, <2>2 DEF ShadowStackMisuse
  <2>3. CASE \E n \in 0 .. MaxSlots : PushFrame(t, n)
    BY <1>6, <2>1, <2>3 DEF PushFrame, pinVars
  <2>4. CASE PopFrame(t)
    BY <1>6, <2>1, <2>4 DEF PopFrame, pinVars
  <2>5. CASE \E k \in 1 .. MaxFrames, i \in 1 .. MaxSlots : SetRoot(t, k, i)
    BY <1>6, <2>1, <2>5 DEF SetRoot, pinVars
  <2>. QED  BY <1>7, <2>2, <2>3, <2>4, <2>5 DEF ShadowStack
<1>8. ASSUME NEW t \in Thread, Mutator(t) PROVE Exact'
  <2>1. ASSUME NEW k \in 1 .. MaxFrames, NEW i \in 1 .. MaxSlots, ReadRoot(t, k, i) PROVE Exact'
    BY <1>6, <2>1 DEF ReadRoot, stackVars, pinVars
  <2>2. ASSUME NEW w \in Word, LoadField(t, w) PROVE Exact'
    BY <1>6, <2>2 DEF LoadField, stackVars, pinVars
  <2>3. ASSUME gcPhase \notin {"roots", "pins", "trace", "alloc"}, UNCHANGED gcVars PROVE Exact'
    BY <1>1, <1>2, <2>3, NotMarking DEF gcVars
  <2>4. ASSUME NEW k \in 1 .. MaxFrames, NEW i \in 1 .. MaxSlots, NEW w \in Word,
               \/ StoreField(t, k, i, w)
               \/ \E p \in Addr : StoreBits(t, k, i, w, p)
        PROVE  Exact'
    <3>1. /\ Running(t) /\ UNCHANGED gcVars /\ k \in OwnFrames(t)
          /\ i \in DOMAIN frames[t][k] /\ frames[t][k][i] # Null
      BY <2>4 DEF StoreField, StoreBits
    <3>2. gcPhase \notin {"roots", "pins", "trace", "alloc"}
      BY <3>1, SlotHolds DEF SweepInv
    <3>. QED  BY <2>3, <3>1, <3>2
  <2>5. CASE Pin(t)
    <3>1. reg[t] \in Holds(t) /\ Running(t)
      BY <2>5 DEF Pin, Holds, SweepInv, IInv, TypeOK, StackTypeOK, Pointer
    <3>2. gcPhase \notin {"roots", "pins", "trace", "alloc"}
      BY <3>1, HoldsSafe DEF SweepInv
    <3>. QED  BY <2>3, <2>5, <3>2 DEF Pin
  <2>6. ASSUME NEW p \in Addr, Unpin(t, p) PROVE Exact'
    <3>1. PINNED \in [Addr -> Nat]
      BY DEF SweepInv, IInv, TypeOK, ControlTypeOK
    <3>2. PinnedRoots' \subseteq PinnedRoots
      BY <2>6, <3>1 DEF Unpin, PinnedRoots
    <3>. QED  BY <1>1, <2>6, <3>2, OthersStep DEF Unpin, stackVars
  <2>. QED  BY <1>8, <2>1, <2>2, <2>4, <2>5, <2>6 DEF Mutator
<1>9. ASSUME NEW t \in Thread, Runtime(t) PROVE Exact'
  <2>1. ASSUME HeapFree PROVE gcPhase = "idle" /\ pinsRead = {}
    BY <1>2, <2>1 DEF HeapFree, SweepInv, IInv, PhasesOrdered
  <2>2. ASSUME NEW size \in RequestSize, NEW tag \in TypeTag, Alloc(t, size, tag) PROVE Exact'
    <3>1. CASE UNCHANGED <<gcPhase, pinsRead>>
      BY <1>1, <2>1, <2>2, <3>1, NotMarking DEF Alloc
    <3>. QED  BY <1>3, <2>2, <3>1 DEF Alloc
  <2>3. ASSUME NEW request, BeginCollection(t, request) PROVE Exact'
    BY <1>1, <2>1, <2>3, NotMarking DEF BeginCollection
  <2>4. ASSUME HeapFree, UNCHANGED <<gcPhase, pinsRead>> PROVE Exact'
    BY <1>1, <2>1, <2>4, NotMarking
  <2>5. CASE \/ \E enable \in BOOLEAN : SetAutoCollect(t, enable)
             \/ \E n \in Threshold : SetThreshold(t, n)
             \/ Shutdown(t)
    BY <2>4, <2>5 DEF SetAutoCollect, SetThreshold, Shutdown, gcVars
  <2>. QED  BY <1>9, <2>2, <2>3, <2>5 DEF Runtime, AllocCollects, Collect
<1>. QED  BY <1>4, <1>5, <1>7, <1>8, <1>9 DEF Next, Halted

\* The inductive invariant of the collector, with what it knows about its
\* marks and the pins it has read.
THEOREM SweepInvHolds ==
  ASSUME SizesFit
  PROVE  Spec => []SweepInv
<1>1. Init => SweepInv
  BY InitIInv DEF Init, SweepInv, PinsReadInTime, MarksAreReached
<1>2. SweepInv /\ [Next]_vars => SweepInv'
  BY NextExact
<1>. QED  BY <1>1, <1>2, PTL DEF Spec

\* A sweep keeps exactly what a conservative scan reaches from the frames of
\* the collecting thread and the pins, whatever other threads do meanwhile:
\* nothing that is reachable is freed, and no garbage but what was unpinned
\* during the collection is left.
THEOREM SweepsExactly ==
  ASSUME SizesFit
  PROVE  Spec => SweepExact
<1>1. SweepInv => [\A t \in Thread : Sweep(t) =>
                     /\ PinnedRoots \subseteq pinsRead
                     /\ headers' = ConservativeReach(t)]_vars
  <2>1. SUFFICES ASSUME SweepInv, NEW t \in Thread, Sweep(t)
                 PROVE  PinnedRoots \subseteq pinsRead /\ headers' = ConservativeReach(t)
    OBVIOUS
  <2>2. marked \subseteq headers
    BY <2>1 DEF SweepInv, IInv, PhasesOrdered
  <2>3. headers' = marked
    BY <2>1, <2>2 DEF Sweep, headers
  <2>. QED  BY <2>1, <2>3, MarksAreExact DEF Sweep
<1>. QED  BY SweepInvHolds, <1>1, PTL DEF SweepExact

=============================================================================
