----------------------------- MODULE PhoenixGC -----------------------------
(***************************************************************************)
(* The tracing collector of compiled Phoenix programs                      *)
(* (crates/phoenix-runtime/src/gc): the process-wide mark-and-sweep heap   *)
(* behind its mutex, the per-thread shadow stacks of root frames, the      *)
(* process-wide set of pins, and the code that drives them.                *)
(*                                                                         *)
(* The driver is compiled code, which follows one discipline: a value      *)
(* produced by an allocation or a field read sits in a register (reg) and  *)
(* is written to a root slot before the next allocation (gc_roots.rs).     *)
(* Registers are not roots, so a register does not survive an allocation.  *)
(***************************************************************************)
EXTENDS Naturals, Sequences, FiniteSets

CONSTANTS
  Thread,        \* the threads that call the runtime
  Addr,          \* payload addresses the allocator can hand out
  Null,          \* the null pointer
  NoThread,      \* nobody holds the heap mutex
  RequestSize,   \* payload sizes callers ask for, in bytes
  WordSize,      \* bytes of a pointer: 8, and 4 on wasm32
  MaxPayload,    \* bound: the largest payload such a request leads to
  SizeModulus,   \* 2^(width of the header's size field); 2^32 in the code
  DefaultThreshold, \* DEFAULT_COLLECTION_THRESHOLD
  Threshold,     \* values set_collection_threshold is called with
  MaxFrames,     \* bound: frames per thread
  MaxSlots,      \* bound: root slots per frame
  MaxPins,       \* bound: pins of one payload
  MaxShutdowns   \* bound: calls of phx_gc_shutdown

ALIGN == 8

ASSUME ThreadAssumption == IsFiniteSet(Thread) /\ NoThread \notin Thread
ASSUME AddrAssumption == IsFiniteSet(Addr) /\ Null \notin Addr
ASSUME ThresholdAssumption == DefaultThreshold \in Nat /\ Threshold \subseteq Nat
ASSUME BoundAssumption ==
  /\ MaxFrames \in Nat
  /\ MaxSlots \in Nat
  /\ MaxPins \in Nat
  /\ MaxShutdowns \in Nat

VARIABLES
  heap,                \* the registered objects, by payload address
  marked,              \* addresses whose mark bit is set
  live_bytes,
  bytes_since_collect,
  auto_collect,
  threshold,
  frames,              \* per thread, the shadow stack, top frame last
  LIVE_FRAME_COUNT,
  THIS_THREAD_FRAME_COUNT,
  PINNED,              \* per address, how often it is pinned
  gcThread,            \* who holds the heap mutex across a collection
  gcPhase,             \* where that thread is in collect()
  mark_work,           \* gray objects
  pending,             \* the allocation the collection runs for, if any
  pinsRead,            \* history: the pins the mark phase has read
  aborted,             \* runtime_abort was called
  reg,                 \* per thread, the value in hand that no slot roots yet
  leftover,            \* history: frames pushed before the last shutdown
  livePins,            \* history: addresses pinned since the last shutdown
  shutdowns            \* bound: calls of phx_gc_shutdown so far

acctVars == <<live_bytes, bytes_since_collect>>
modeVars == <<auto_collect, threshold>>
stackVars == <<frames, LIVE_FRAME_COUNT, THIS_THREAD_FRAME_COUNT, leftover>>
pinVars == <<PINNED, livePins>>
gcVars == <<gcThread, gcPhase, mark_work, pending, marked, pinsRead>>
vars == <<heap, acctVars, modeVars, stackVars, pinVars, gcVars, aborted,
          reg, shutdowns>>

-----------------------------------------------------------------------------
TypeTag == {"String", "Closure"}
ScansInterior(tag) == tag # "String"

NextMultiple(n) == ((n + ALIGN - 1) \div ALIGN) * ALIGN

\* The payload size of a request: never empty, and whole words when the
\* payload will be scanned.
ActualPayload(size, tag) ==
  IF size = 0 THEN ALIGN
  ELSE IF ScansInterior(tag) THEN NextMultiple(size)
  ELSE size

PayloadSize == {ActualPayload(s, tag) : s \in RequestSize, tag \in TypeTag}

ASSUME SizeAssumption ==
  /\ RequestSize \subseteq Nat
  /\ SizeModulus \in Nat \ {0}
  /\ WordSize \in {4, 8}
  /\ MaxPayload \in Nat
  /\ \A n \in PayloadSize : n <= MaxPayload

Word == 1 .. (MaxPayload \div WordSize)
Pointer == Addr \union {Null}
NoRequest == [size |-> 0, tag |-> "none"]
Request == [size : RequestSize, tag : TypeTag] \union {NoRequest}

\* The sum of f over S, as the number of bytes the objects of S cover.
Bytes(S, f) == Cardinality({c \in S \X (1 .. MaxPayload) : c[2] <= f[c[1]]})

\* An object: the size field and the tag of its header, the size its memory
\* was allocated with, its words, and (history) which of them are references.
Object == [size : Nat, tag : TypeTag, layout : Nat,
           words : [Word -> Pointer], refs : SUBSET Word]
headers == DOMAIN heap
Size == [a \in headers |-> heap[a].size]
Layout == [a \in headers |-> heap[a].layout]

\* Mutants (M_...): each is the definition that follows it with a plausible
\* bug. No action uses them; the README says which property each one breaks.
M_ScannedWordsShort(a) == {w \in Word : w * WordSize < heap[a].size}

ScannedWords(a) == {w \in Word : w * WordSize <= heap[a].size}

M_ChildrenOfStrings(a) ==
  {c \in headers \ marked : \E w \in ScannedWords(a) : heap[a].words[w] = c}

\* The registered, unmarked objects the words of payload a point at.
UnmarkedChildren(a) ==
  IF ScansInterior(heap[a].tag)
  THEN {c \in headers \ marked : \E w \in ScannedWords(a) : heap[a].words[w] = c}
  ELSE {}

\* The non-null slots of all of t's frames, in no particular order.
StackRoots(t) ==
  {p \in Addr : \E k \in DOMAIN frames[t] :
                  \E i \in DOMAIN frames[t][k] : frames[t][k][i] = p}
PinnedRoots == {p \in Addr : PINNED[p] > 0}

\* The frames of t that its code may still use.
OwnFrames(t) == (leftover[t] + 1) .. Len(frames[t])

\* Thread t is running compiled code, not waiting inside a collection.
Running(t) == ~aborted /\ gcThread # t
HeapFree == gcThread = NoThread

Init ==
  /\ heap = <<>>
  /\ marked = {}
  /\ live_bytes = 0
  /\ bytes_since_collect = 0
  /\ auto_collect = FALSE
  /\ threshold = DefaultThreshold
  /\ frames = [t \in Thread |-> <<>>]
  /\ LIVE_FRAME_COUNT = 0
  /\ THIS_THREAD_FRAME_COUNT = [t \in Thread |-> 0]
  /\ PINNED = [a \in Addr |-> 0]
  /\ gcThread = NoThread
  /\ gcPhase = "idle"
  /\ mark_work = {}
  /\ pending = NoRequest
  /\ pinsRead = {}
  /\ reg = [t \in Thread |-> Null]
  /\ leftover = [t \in Thread |-> 0]
  /\ livePins = {}
  /\ shutdowns = 0
  /\ aborted = FALSE

\* runtime_abort and handle_alloc_error: the process is gone, and with it
\* everything in its memory.
Abort ==
  /\ heap' = <<>>
  /\ marked' = {}
  /\ live_bytes' = 0
  /\ bytes_since_collect' = 0
  /\ auto_collect' = FALSE
  /\ threshold' = DefaultThreshold
  /\ frames' = [t \in Thread |-> <<>>]
  /\ LIVE_FRAME_COUNT' = 0
  /\ THIS_THREAD_FRAME_COUNT' = [t \in Thread |-> 0]
  /\ PINNED' = [a \in Addr |-> 0]
  /\ gcThread' = NoThread
  /\ gcPhase' = "idle"
  /\ mark_work' = {}
  /\ pending' = NoRequest
  /\ pinsRead' = {}
  /\ reg' = [t \in Thread |-> Null]
  /\ leftover' = [t \in Thread |-> 0]
  /\ livePins' = {}
  /\ shutdowns' = 0
  /\ aborted' = TRUE

-----------------------------------------------------------------------------
(* The shadow stack. A handle is the position of a frame in frames[t].     *)

\* phx_gc_push_frame at function entry.
PushFrame(t, n) ==
  /\ Running(t)
  /\ Len(frames[t]) < MaxFrames
  /\ frames' = [frames EXCEPT ![t] = Append(@, [i \in 1 .. n |-> Null])]
  /\ LIVE_FRAME_COUNT' = LIVE_FRAME_COUNT + 1
  /\ THIS_THREAD_FRAME_COUNT' = [THIS_THREAD_FRAME_COUNT EXCEPT ![t] = @ + 1]
  /\ UNCHANGED <<heap, acctVars, modeVars, leftover, pinVars, gcVars,
                 aborted, reg, shutdowns>>

M_PopFrameKeepsCount(t) ==
  /\ Running(t)
  /\ frames[t] # <<>>
  /\ frames' = [frames EXCEPT ![t] = SubSeq(@, 1, Len(@) - 1)]
  /\ LIVE_FRAME_COUNT' = LIVE_FRAME_COUNT - 1
  /\ leftover' = [leftover EXCEPT ![t] = IF @ < Len(frames[t]) THEN @ ELSE @ - 1]
  /\ reg' = IF Len(frames[t]) - 1 > leftover[t] THEN reg
            ELSE [reg EXCEPT ![t] = Null]
  /\ UNCHANGED <<heap, acctVars, modeVars, THIS_THREAD_FRAME_COUNT, pinVars,
                 gcVars, aborted, shutdowns>>

\* phx_gc_pop_frame at function exit. The function's result stays in its
\* register when there is a caller to take it.
PopFrame(t) ==
  /\ Running(t)
  /\ frames[t] # <<>>
  /\ frames' = [frames EXCEPT ![t] = SubSeq(@, 1, Len(@) - 1)]
  /\ LIVE_FRAME_COUNT' = LIVE_FRAME_COUNT - 1
  /\ THIS_THREAD_FRAME_COUNT' = [THIS_THREAD_FRAME_COUNT EXCEPT ![t] = @ - 1]
  /\ leftover' = [leftover EXCEPT ![t] = IF @ < Len(frames[t]) THEN @ ELSE @ - 1]
  /\ reg' = IF Len(frames[t]) - 1 > leftover[t] THEN reg
            ELSE [reg EXCEPT ![t] = Null]
  /\ UNCHANGED <<heap, acctVars, modeVars, pinVars, gcVars, aborted,
                 shutdowns>>

\* phx_gc_set_root: the value in hand goes into a slot of a live frame.
SetRoot(t, k, i) ==
  /\ Running(t)
  /\ k \in OwnFrames(t)
  /\ i \in DOMAIN frames[t][k]
  /\ frames' = [frames EXCEPT ![t][k][i] = reg[t]]
  /\ UNCHANGED <<heap, acctVars, modeVars, LIVE_FRAME_COUNT,
                 THIS_THREAD_FRAME_COUNT, leftover, pinVars, gcVars, aborted,
                 reg, shutdowns>>

\* runtime_abort: the two misuses the shadow stack checks for, popping a
\* frame that is not on top and writing past a frame's slots.
ShadowStackMisuse(t) ==
  /\ Running(t)
  /\ \/ Len(frames[t]) > 1
     \/ \E k \in OwnFrames(t) : Len(frames[t][k]) < MaxSlots
  /\ Abort

-----------------------------------------------------------------------------
(* What compiled code does with the values it holds.                       *)

\* Take a rooted value in hand.
ReadRoot(t, k, i) ==
  /\ Running(t)
  /\ k \in OwnFrames(t)
  /\ i \in DOMAIN frames[t][k]
  /\ reg' = [reg EXCEPT ![t] = frames[t][k][i]]
  /\ UNCHANGED <<heap, acctVars, modeVars, stackVars, pinVars, gcVars,
                 aborted, shutdowns>>

\* Read a reference field of the object in hand.
LoadField(t, w) ==
  /\ Running(t)
  /\ reg[t] # Null
  /\ w \in heap[reg[t]].refs
  /\ reg' = [reg EXCEPT ![t] = heap[reg[t]].words[w]]
  /\ UNCHANGED <<heap, acctVars, modeVars, stackVars, pinVars, gcVars,
                 aborted, shutdowns>>

\* Write the value in hand to a field of a rooted object whose payload is
\* scanned.
StoreField(t, k, i, w) ==
  /\ Running(t)
  /\ k \in OwnFrames(t)
  /\ i \in DOMAIN frames[t][k]
  /\ LET a == frames[t][k][i]
     IN /\ a # Null
        /\ ScansInterior(heap[a].tag)
        /\ w * WordSize <= heap[a].layout
        /\ heap' = [heap EXCEPT
                      ![a].words[w] = reg[t],
                      ![a].refs = IF reg[t] = Null THEN @ \ {w} ELSE @ \union {w}]
  /\ UNCHANGED <<acctVars, modeVars, stackVars,
                 pinVars, gcVars, aborted, reg, shutdowns>>

\* Write an integer, or the bytes of a string, that happen to spell p.
StoreBits(t, k, i, w, p) ==
  /\ Running(t)
  /\ k \in OwnFrames(t)
  /\ i \in DOMAIN frames[t][k]
  /\ LET a == frames[t][k][i]
     IN /\ a # Null
        /\ w * WordSize <= heap[a].layout
        /\ heap' = [heap EXCEPT ![a].words[w] = p, ![a].refs = @ \ {w}]
  /\ UNCHANGED <<acctVars, modeVars, stackVars,
                 pinVars, gcVars, aborted, reg, shutdowns>>

-----------------------------------------------------------------------------
(* Pins. PINNED is a multiset behind a mutex of its own.                   *)

\* phx_gc_pin of the value in hand; a null pointer is ignored.
Pin(t) ==
  /\ Running(t)
  /\ reg[t] # Null
  /\ PINNED[reg[t]] < MaxPins
  /\ PINNED' = [PINNED EXCEPT ![reg[t]] = @ + 1]
  /\ livePins' = livePins \union {reg[t]}
  /\ UNCHANGED <<heap, acctVars, modeVars, stackVars, gcVars, aborted, reg,
                 shutdowns>>

M_UnpinUnderflows(t, p) ==
  /\ Running(t)
  /\ PINNED' = [PINNED EXCEPT ![p] = @ - 1]
  /\ livePins' = IF PINNED[p] = 1 THEN livePins \ {p} ELSE livePins
  /\ UNCHANGED <<heap, acctVars, modeVars, stackVars, gcVars, aborted, reg,
                 shutdowns>>

\* phx_gc_unpin removes one pin, and does nothing when there is none.
Unpin(t, p) ==
  /\ Running(t)
  /\ PINNED[p] > 0
  /\ PINNED' = [PINNED EXCEPT ![p] = @ - 1]
  /\ livePins' = IF PINNED[p] = 1 THEN livePins \ {p} ELSE livePins
  /\ UNCHANGED <<heap, acctVars, modeVars, stackVars, gcVars, aborted, reg,
                 shutdowns>>

-----------------------------------------------------------------------------
(* The heap. Every operation below holds the heap mutex; a collection      *)
(* keeps it from its first step to its last, while the other threads go    *)
(* on with whatever does not need it.                                      *)

\* ObjectHeader::new and the registration of the new object; the payload is
\* zeroed. An exhausted allocator ends the process (handle_alloc_error).
Allocate(t, size, tag) ==
  \E a \in Addr \ headers :
    LET actual == ActualPayload(size, tag)
        new == [size |-> actual % SizeModulus, tag |-> tag,
                layout |-> actual, words |-> [w \in Word |-> Null],
                refs |-> {}]
    IN /\ heap' = [b \in headers \union {a} |-> IF b = a THEN new ELSE heap[b]]
       /\ marked' = marked \ {a}
       /\ live_bytes' = live_bytes + actual
       /\ bytes_since_collect' = bytes_since_collect + actual
       /\ reg' = [reg EXCEPT ![t] = a]

CollectionDue == auto_collect /\ bytes_since_collect >= threshold

\* phx_gc_alloc below the threshold.
Alloc(t, size, tag) ==
  /\ Running(t) /\ HeapFree
  /\ OwnFrames(t) # {}
  /\ ~CollectionDue
  /\ \/ /\ Allocate(t, size, tag)
        /\ UNCHANGED <<modeVars, stackVars, pinVars, gcThread, gcPhase,
                       mark_work, pending, pinsRead, aborted, shutdowns>>
     \/ headers = Addr /\ Abort

BeginCollection(t, request) ==
  /\ Running(t) /\ HeapFree
  /\ gcThread' = t
  /\ gcPhase' = "gate"
  /\ pending' = request
  /\ reg' = [reg EXCEPT ![t] = Null]
  /\ UNCHANGED <<heap, acctVars, modeVars, stackVars, pinVars, mark_work,
                 marked, pinsRead, aborted, shutdowns>>

\* phx_gc_alloc at the threshold: collect first, then allocate.
AllocCollects(t, size, tag) ==
  /\ OwnFrames(t) # {}
  /\ CollectionDue
  /\ BeginCollection(t, [size |-> size, tag |-> tag])

\* phx_gc_collect.
Collect(t) == BeginCollection(t, NoRequest)

M_GateSwapped(t) ==
  /\ ~aborted /\ gcThread = t /\ gcPhase = "gate"
  /\ \/ THIS_THREAD_FRAME_COUNT[t] > LIVE_FRAME_COUNT /\ Abort
     \/ /\ THIS_THREAD_FRAME_COUNT[t] <= LIVE_FRAME_COUNT
        /\ gcPhase' = "roots"
        /\ UNCHANGED <<heap, acctVars, modeVars, stackVars, pinVars, gcThread,
                       mark_work, pending, pinsRead, marked, aborted, reg,
                       shutdowns>>

\* assert_safe_to_collect: abort when another thread holds frames.
Gate(t) ==
  /\ ~aborted /\ gcThread = t /\ gcPhase = "gate"
  /\ \/ LIVE_FRAME_COUNT > THIS_THREAD_FRAME_COUNT[t] /\ Abort
     \/ /\ LIVE_FRAME_COUNT <= THIS_THREAD_FRAME_COUNT[t]
        /\ gcPhase' = "roots"
        /\ UNCHANGED <<heap, acctVars, modeVars, stackVars, pinVars, gcThread,
                       mark_work, pending, pinsRead, marked, aborted, reg,
                       shutdowns>>

\* mark_phase, first loop: the collecting thread's own shadow stack.
MarkStackRoots(t) ==
  /\ ~aborted /\ gcThread = t /\ gcPhase = "roots"
  /\ LET found == (StackRoots(t) \intersect headers) \ marked
     IN /\ marked' = marked \union found
        /\ mark_work' = found
  /\ gcPhase' = "pins"
  /\ UNCHANGED <<heap, acctVars, modeVars, stackVars, pinVars, gcThread,
                 pending, pinsRead, aborted, reg, shutdowns>>

M_PinsNotTraced(t) ==
  /\ ~aborted /\ gcThread = t /\ gcPhase = "pins"
  /\ marked' = marked \union (PinnedRoots \intersect headers)
  /\ gcPhase' = "trace"
  /\ pinsRead' = PinnedRoots
  /\ UNCHANGED <<heap, acctVars, modeVars, stackVars, pinVars, gcThread,
                 mark_work, pending, aborted, reg, shutdowns>>

\* mark_phase, second loop: the pins.
MarkPinnedRoots(t) ==
  /\ ~aborted /\ gcThread = t /\ gcPhase = "pins"
  /\ LET found == (PinnedRoots \intersect headers) \ marked
     IN /\ marked' = marked \union found
        /\ mark_work' = mark_work \union found
  /\ gcPhase' = "trace"
  /\ pinsRead' = PinnedRoots
  /\ UNCHANGED <<heap, acctVars, modeVars, stackVars, pinVars, gcThread,
                 pending, aborted, reg, shutdowns>>

M_TraceAgain(t) ==
  /\ ~aborted /\ gcThread = t /\ gcPhase = "trace"
  /\ \E a \in mark_work :
       LET children == {c \in headers : \E w \in ScannedWords(a) : heap[a].words[w] = c}
       IN /\ mark_work' = (mark_work \ {a}) \union children
          /\ marked' = marked \union children
  /\ UNCHANGED <<heap, acctVars, modeVars, stackVars, pinVars, gcThread,
                 gcPhase, pending, pinsRead, aborted, reg, shutdowns>>

\* mark_phase, third loop: one object of the work list.
Trace(t) ==
  /\ ~aborted /\ gcThread = t /\ gcPhase = "trace"
  /\ \E a \in mark_work :
       /\ mark_work' = (mark_work \ {a}) \union UnmarkedChildren(a)
       /\ marked' = marked \union UnmarkedChildren(a)
  /\ UNCHANGED <<heap, acctVars, modeVars, stackVars, pinVars, gcThread,
                 gcPhase, pending, pinsRead, aborted, reg, shutdowns>>

M_SweepKeepsMarks(t) ==
  /\ ~aborted /\ gcThread = t /\ gcPhase = "trace"
  /\ mark_work = {}
  /\ heap' = [a \in headers \intersect marked |-> heap[a]]
  /\ live_bytes' = live_bytes - Bytes(headers \ marked, Size)
  /\ bytes_since_collect' = 0
  /\ gcPhase' = IF pending = NoRequest THEN "idle" ELSE "alloc"
  /\ gcThread' = IF pending = NoRequest THEN NoThread ELSE t
  /\ pinsRead' = {}
  /\ UNCHANGED <<marked, modeVars, stackVars, pinVars, mark_work, pending,
                 aborted, reg, shutdowns>>

M_SweepKeepsCounting(t) ==
  /\ ~aborted /\ gcThread = t /\ gcPhase = "trace"
  /\ mark_work = {}
  /\ heap' = [a \in headers \intersect marked |-> heap[a]]
  /\ marked' = {}
  /\ live_bytes' = live_bytes - Bytes(headers \ marked, Size)
  /\ gcPhase' = IF pending = NoRequest THEN "idle" ELSE "alloc"
  /\ gcThread' = IF pending = NoRequest THEN NoThread ELSE t
  /\ pinsRead' = {}
  /\ UNCHANGED <<bytes_since_collect, modeVars, stackVars, pinVars, mark_work,
                 pending, aborted, reg, shutdowns>>

\* sweep_phase, once the work list is empty.
Sweep(t) ==
  /\ ~aborted /\ gcThread = t /\ gcPhase = "trace"
  /\ mark_work = {}
  /\ heap' = [a \in headers \intersect marked |-> heap[a]]
  /\ marked' = {}
  /\ live_bytes' = live_bytes - Bytes(headers \ marked, Size)
  /\ bytes_since_collect' = 0
  /\ gcPhase' = IF pending = NoRequest THEN "idle" ELSE "alloc"
  /\ gcThread' = IF pending = NoRequest THEN NoThread ELSE t
  /\ pinsRead' = {}
  /\ UNCHANGED <<modeVars, stackVars, pinVars, mark_work, pending, aborted,
                 reg, shutdowns>>

\* The rest of raw_alloc, after the collection it started.
AllocAfterCollection(t) ==
  /\ ~aborted /\ gcThread = t /\ gcPhase = "alloc"
  /\ \/ /\ Allocate(t, pending.size, pending.tag)
        /\ gcPhase' = "idle"
        /\ gcThread' = NoThread
        /\ pending' = NoRequest
        /\ UNCHANGED <<modeVars, stackVars, pinVars, mark_work, pinsRead,
                       aborted, shutdowns>>
     \/ headers = Addr /\ Abort

\* phx_gc_enable, phx_gc_disable.
SetAutoCollect(t, enable) ==
  /\ Running(t) /\ HeapFree
  /\ auto_collect' = enable
  /\ UNCHANGED <<heap, acctVars, threshold, stackVars, pinVars, gcVars,
                 aborted, reg, shutdowns>>

\* set_collection_threshold.
SetThreshold(t, n) ==
  /\ Running(t) /\ HeapFree
  /\ threshold' = n
  /\ UNCHANGED <<heap, acctVars, auto_collect, stackVars, pinVars, gcVars,
                 aborted, reg, shutdowns>>

\* phx_gc_shutdown: a fresh heap replaces the old one, whose allocations are
\* all freed. Frames and pins stay as they are.
Shutdown(t) ==
  /\ Running(t) /\ HeapFree
  /\ shutdowns < MaxShutdowns
  /\ heap' = <<>>
  /\ marked' = {}
  /\ live_bytes' = 0
  /\ bytes_since_collect' = 0
  /\ auto_collect' = FALSE
  /\ threshold' = DefaultThreshold
  /\ mark_work' = {}
  /\ leftover' = [u \in Thread |-> Len(frames[u])]
  /\ livePins' = {}
  /\ reg' = [u \in Thread |-> Null]
  /\ shutdowns' = shutdowns + 1
  /\ UNCHANGED <<frames, LIVE_FRAME_COUNT,
                 THIS_THREAD_FRAME_COUNT, PINNED, gcThread, gcPhase, pending,
                 pinsRead, aborted>>

-----------------------------------------------------------------------------
Collector(t) ==
  \/ Gate(t)
  \/ MarkStackRoots(t)
  \/ MarkPinnedRoots(t)
  \/ Trace(t)
  \/ Sweep(t)
  \/ AllocAfterCollection(t)

ShadowStack(t) ==
  \/ \E n \in 0 .. MaxSlots : PushFrame(t, n)
  \/ PopFrame(t)
  \/ \E k \in 1 .. MaxFrames, i \in 1 .. MaxSlots : SetRoot(t, k, i)
  \/ ShadowStackMisuse(t)

Mutator(t) ==
  \/ \E k \in 1 .. MaxFrames, i \in 1 .. MaxSlots : ReadRoot(t, k, i)
  \/ \E w \in Word : LoadField(t, w)
  \/ \E k \in 1 .. MaxFrames, i \in 1 .. MaxSlots, w \in Word :
       \/ StoreField(t, k, i, w)
       \/ \E p \in Addr : StoreBits(t, k, i, w, p)
  \/ Pin(t)
  \/ \E p \in Addr : Unpin(t, p)

Runtime(t) ==
  \/ \E size \in RequestSize, tag \in TypeTag :
       Alloc(t, size, tag) \/ AllocCollects(t, size, tag)
  \/ Collect(t)
  \/ \E enable \in BOOLEAN : SetAutoCollect(t, enable)
  \/ \E n \in Threshold : SetThreshold(t, n)
  \/ Shutdown(t)

Halted == aborted /\ UNCHANGED vars

Next ==
  \/ \E t \in Thread :
       Collector(t) \/ ShadowStack(t) \/ Mutator(t) \/ Runtime(t)
  \/ Halted

Spec == Init /\ [][Next]_vars

\* A collection is a loop the thread that started it runs to the end.
FairSpec == Spec /\ WF_vars(\E t \in Thread : Collector(t))

-----------------------------------------------------------------------------
HeapTypeOK ==
  /\ headers \subseteq Addr
  /\ heap \in [headers -> Object]
  /\ marked \subseteq Addr
  /\ mark_work \subseteq Addr

StackTypeOK ==
  /\ frames \in [Thread -> Seq(Seq(Pointer))]
  /\ LIVE_FRAME_COUNT \in Nat
  /\ THIS_THREAD_FRAME_COUNT \in [Thread -> Nat]
  /\ reg \in [Thread -> Pointer]
  /\ leftover \in [Thread -> Nat]

ControlTypeOK ==
  /\ live_bytes \in Nat
  /\ bytes_since_collect \in Nat
  /\ auto_collect \in BOOLEAN
  /\ threshold \in Nat
  /\ PINNED \in [Addr -> Nat]
  /\ livePins \subseteq Addr
  /\ gcThread \in Thread \union {NoThread}
  /\ gcPhase \in {"idle", "gate", "roots", "pins", "trace", "alloc"}
  /\ pending \in Request
  /\ pinsRead \subseteq Addr
  /\ aborted \in BOOLEAN
  /\ shutdowns \in 0 .. MaxShutdowns

\* The type of every variable. No counter goes below zero: each is a usize
\* that the code decrements.
TypeOK == HeapTypeOK /\ StackTypeOK /\ ControlTypeOK

\* The payloads the code of thread t holds: its register, and the slots of
\* its frames.
Holds(t) ==
  {p \in Addr :
     \/ reg[t] = p
     \/ \E k \in OwnFrames(t) : \E i \in DOMAIN frames[t][k] : frames[t][k][i] = p}

\* No reference dangles: whatever a slot, a register or a pin holds is an
\* allocated object, and so is whatever a reference field of an allocated
\* object points at. This is what the shadow stack, the pins and the mark
\* phase are for, across any number of collections and whatever addresses
\* the allocator reuses.
NoDangling ==
  /\ \A t \in Thread : Holds(t) \subseteq headers
  /\ livePins \subseteq headers
  /\ \A a \in headers : \A w \in heap[a].refs : heap[a].words[w] \in headers \union {Null}

\* live_bytes is the number of bytes the registered objects were allocated
\* with, and the bytes counted towards the next collection are among them.
AccountingExact ==
  /\ live_bytes = Bytes(headers, Layout)
  /\ bytes_since_collect <= live_bytes

\* The gate of a collection compares the two frame counters. They count what
\* they are named for: all frames, and this thread's.
FrameCountsExact ==
  /\ LIVE_FRAME_COUNT =
       Cardinality({f \in Thread \X (1 .. MaxFrames) : f[2] <= Len(frames[f[1]])})
  /\ \A t \in Thread : THIS_THREAD_FRAME_COUNT[t] = Len(frames[t])

\* Once a collection is past its gate no other thread holds a reference of
\* any kind that only that thread could root, although it may push frames
\* meanwhile: whatever it could put there has to come from the heap, whose
\* mutex the collecting thread holds.
OthersHoldNothing ==
  gcPhase \in {"roots", "pins", "trace", "alloc"} =>
    \A t \in Thread \ {gcThread} : Holds(t) = {}

\* Between collections no mark bit is set. A bit that survived would make
\* the next mark phase skip the object, and sweep what only it refers to.
MarksClearBetweenCollections == gcPhase = "idle" => marked = {}

\* S has whatever a conservative scan of one of its objects finds.
ClosedUnderScan(S) ==
  \A b \in S : ScansInterior(heap[b].tag) =>
    \A w \in ScannedWords(b) : heap[b].words[w] \in headers => heap[b].words[w] \in S

\* The objects a conservative scan reaches from the frames of thread t and
\* the pins that were read: those in every set that has these roots and is
\* closed under the scan.
ConservativeReach(t) ==
  {a \in headers :
     \A S \in SUBSET headers :
       (/\ (StackRoots(t) \union pinsRead) \intersect headers \subseteq S
        /\ ClosedUnderScan(S))
       => a \in S}

\* A sweep leaves what the conservative scan reaches and nothing else: no
\* reachable object is freed and no garbage stays. The pins it starts from
\* were read before the trace, and not one has been added since, although
\* other threads run on; an object one of them has unpinned meanwhile stays
\* until the next collection.
SweepExact ==
  [][\A t \in Thread : Sweep(t) =>
       /\ PinnedRoots \subseteq pinsRead
       /\ headers' = ConservativeReach(t)]_vars

\* A collection comes to an end, with the mutex released or the process
\* aborted, whatever cycles the heap has.
CollectionTerminates == gcPhase # "idle" ~> (gcPhase = "idle" \/ aborted)

-----------------------------------------------------------------------------
(* Why the invariants hold: the conjunction of them with what the steps in *)
(* between rely on is inductive.                                           *)

\* References sit in whole words that the mark phase scans.
ObjectsScannable ==
  \A a \in headers :
    /\ heap[a].layout \in 0 .. MaxPayload
    /\ heap[a].size = heap[a].layout
    /\ \A w \in heap[a].refs :
         ScansInterior(heap[a].tag) /\ w * WordSize <= heap[a].layout

\* A thread that has a value in hand has a frame of its own.
StacksBounded ==
  \A t \in Thread :
    /\ Len(frames[t]) <= MaxFrames
    /\ leftover[t] <= Len(frames[t])
    /\ reg[t] # Null => OwnFrames(t) # {}

\* What each phase of a collection has done, and not done, yet.
PhasesOrdered ==
  /\ gcThread = NoThread <=> gcPhase = "idle"
  /\ gcPhase = "idle" => pending = NoRequest
  /\ gcPhase # "idle" => reg[gcThread] = Null
  /\ pending # NoRequest => OwnFrames(gcThread) # {}
  /\ gcPhase = "alloc" => pending # NoRequest
  /\ gcPhase \notin {"pins", "trace"} => marked = {} /\ mark_work = {}
  /\ mark_work \subseteq marked
  /\ marked \subseteq headers

\* The marks cover the roots of the phases that are done, and no traced
\* object refers to an unmarked one.
MarksCover ==
  /\ gcPhase \in {"pins", "trace"} => StackRoots(gcThread) \intersect headers \subseteq marked
  /\ gcPhase = "trace" => PinnedRoots \intersect headers \subseteq marked
  /\ \A a \in marked \ mark_work :
       \A w \in heap[a].refs : heap[a].words[w] \in marked \union {Null}

PinsCounted == \A p \in livePins : PINNED[p] > 0

\* The inductive invariant behind NoDangling, AccountingExact and the rest.
IInv ==
  /\ TypeOK
  /\ FrameCountsExact
  /\ StacksBounded
  /\ ObjectsScannable
  /\ AccountingExact
  /\ PhasesOrdered
  /\ PinsCounted
  /\ OthersHoldNothing
  /\ MarksCover
  /\ NoDangling

\* The pins are read in one phase of a collection and used in the next.
PinsReadInTime ==
  /\ gcPhase # "trace" => pinsRead = {}
  /\ gcPhase = "trace" => /\ PinnedRoots \subseteq pinsRead
                          /\ pinsRead \intersect headers \subseteq marked

\* What is marked is reached from the roots, and the scan of what has been
\* traced finds marked objects only.
MarksAreReached ==
  /\ gcPhase \in {"pins", "trace"} => marked \subseteq ConservativeReach(gcThread)
  /\ \A a \in marked \ mark_work : ScansInterior(heap[a].tag) =>
       \A w \in ScannedWords(a) : heap[a].words[w] \in headers => heap[a].words[w] \in marked

\* The inductive invariant behind SweepExact.
SweepInv == IInv /\ PinsReadInTime /\ MarksAreReached

=============================================================================
