------------------------ MODULE MapBackendsProofs --------------------------
(***************************************************************************)
(* Proofs about the maps and builders of both back ends (MapBackends), for *)
(* any keys, values and hash functions, any initial capacities, number of  *)
(* pairs and buffer addresses: the native builder's buffers survive its    *)
(* calls; the table and the index lead every key to its pair; and both     *)
(* back ends implement the map and builder of the interpreter.             *)
(***************************************************************************)
EXTENDS MapBackends, PhoenixMapProofs

\* What is reached survives an allocation, and is not what is allocated.
LEMMA SurvivingSound ==
  ASSUME NEW collected \in BOOLEAN
  PROVE  /\ DOMAIN B!Surviving(collected) \subseteq DOMAIN buffers
         /\ \A c \in DOMAIN B!Surviving(collected) : B!Surviving(collected)[c] = buffers[c]
         /\ DOMAIN buffers \cap B!Reachable \subseteq DOMAIN B!Surviving(collected)
  BY DEF B!Surviving, B!Restrict

\* What the collector reaches: what the transient frame roots, and the handle's buffer.
LEMMA ReachableSound ==
  ASSUME B!IInv
  PROVE  /\ transient \subseteq B!Reachable
         /\ handle.allocated => handle.data \in B!Reachable
<1>1. handle.allocated => handle # B!NoHandle
  BY DEF B!NoHandle
<1>. QED  BY <1>1 DEF B!Reachable

LEMMA AllocOtherSound ==
  ASSUME B!IInv, B!AllocOther
  PROVE  /\ \A c \in DOMAIN buffers' : buffers'[c] \in Seq(B!Pair)
         /\ \A c \in transient \cap DOMAIN buffers :
              c \in DOMAIN buffers' /\ buffers'[c] = buffers[c]
         /\ handle.allocated =>
              handle.data \in DOMAIN buffers' /\ buffers'[handle.data] = buffers[handle.data]
<1>1. PICK collected \in BOOLEAN : buffers' = B!Surviving(collected)
  BY DEF B!AllocOther
<1>2. handle.allocated => handle.data \in DOMAIN buffers
  BY DEF B!IInv, B!BuilderIntact
<1>3. \A c \in DOMAIN buffers : buffers[c] \in Seq(B!Pair)
  BY DEF B!IInv
<1>. QED  BY <1>1, <1>2, <1>3, SurvivingSound, ReachableSound

LEMMA AllocBufferSound ==
  ASSUME B!IInv, NEW b, B!AllocBuffer(b, <<>>)
  PROVE  /\ b \in DOMAIN buffers' /\ buffers'[b] = <<>>
         /\ \A c \in DOMAIN buffers' : buffers'[c] \in Seq(B!Pair)
         /\ handle.allocated =>
              /\ handle.data # b /\ handle.data \in DOMAIN buffers'
              /\ buffers'[handle.data] = buffers[handle.data]
<1>1. PICK collected \in BOOLEAN :
        /\ b \notin DOMAIN B!Surviving(collected)
        /\ buffers' = [a \in DOMAIN B!Surviving(collected) \cup {b} |->
                         IF a = b THEN <<>> ELSE B!Surviving(collected)[a]]
  BY DEF B!AllocBuffer
<1>2. handle.allocated => handle.data \in DOMAIN buffers
  BY DEF B!IInv, B!BuilderIntact
<1>3. \A c \in DOMAIN buffers : buffers[c] \in Seq(B!Pair)
  BY DEF B!IInv
<1>4. <<>> \in Seq(B!Pair)
  BY EmptySeq
<1>. QED  BY <1>1, <1>2, <1>3, <1>4, SurvivingSound, ReachableSound

-----------------------------------------------------------------------------
(* One lemma for each step of a native call.                               *)

LEMMA AllocTheBufferKeeps ==
  ASSUME B!IInv, NEW b \in Buffer, B!AllocTheBuffer(b)
  PROVE  B!IInv'
<1>1. /\ b \in DOMAIN buffers'
      /\ \A c \in DOMAIN buffers' : buffers'[c] \in Seq(B!Pair)
  BY AllocBufferSound DEF B!AllocTheBuffer
<1>2. /\ call' = [op |-> "alloc", buffer |-> b] /\ transient' = {b} /\ handle' = handle
      /\ ~handle.allocated
  BY DEF B!AllocTheBuffer
<1>3. B!CallIsRooted' /\ B!BuilderIntact'
  BY <1>1, <1>2, AllocBufferSound DEF B!AllocTheBuffer, B!CallIsRooted, B!BuilderIntact
<1>. QED  BY <1>1, <1>2, <1>3 DEF B!IInv

LEMMA AllocHandleKeeps ==
  ASSUME B!IInv, B!AllocHandle
  PROVE  B!IInv'
<1>1. /\ call.op = "alloc" /\ transient = {call.buffer} /\ call.buffer \in Buffer
      /\ call.buffer \in DOMAIN buffers /\ buffers[call.buffer] = <<>>
  BY DEF B!AllocHandle, B!IInv, B!CallIsRooted, B!BuilderIntact
<1>2. /\ \A c \in DOMAIN buffers' : buffers'[c] \in Seq(B!Pair)
      /\ call.buffer \in DOMAIN buffers' /\ buffers'[call.buffer] = <<>>
  BY <1>1, AllocOtherSound DEF B!AllocHandle
<1>3. /\ handle' = [allocated |-> TRUE, length |-> 0, capacity |-> InitialCapacity,
                    frozen |-> FALSE, data |-> call.buffer]
      /\ transient' = {} /\ call' = [op |-> "none"]
  BY DEF B!AllocHandle, B!NoCall
<1>4. handle' \in B!Handle
  BY <1>1, <1>3, BuilderAssumption DEF B!Handle
<1>5. B!CallIsRooted'
  BY <1>3 DEF B!CallIsRooted
<1>6. B!BuilderIntact'
  <2>1. Len(buffers'[handle'.data]) = handle'.length /\ handle'.length <= handle'.capacity
    BY <1>2, <1>3, BuilderAssumption, EmptySeq
  <2>. QED  BY <1>2, <1>3, <2>1 DEF B!BuilderIntact
<1>. QED  BY <1>2, <1>4, <1>5, <1>6 DEF B!IInv

\* The pair is at slot length, and the buffer has one pair more.
LEMMA StoreSound ==
  ASSUME NEW s \in Seq(B!Pair), NEW n \in Nat, Len(s) = n, NEW pair \in B!Pair
  PROVE  /\ Append(SubSeq(s, 1, n), pair) \in Seq(B!Pair)
         /\ Len(Append(SubSeq(s, 1, n), pair)) = n + 1
<1>1. SubSeq(s, 1, n) = s
  BY SubSeqFull
<1>. QED  BY <1>1, AppendProperties

LEMMA SetInPlaceKeeps ==
  ASSUME B!IInv, NEW k \in Key, NEW v \in Value, B!SetInPlace(k, v)
  PROVE  B!IInv'
<1>1. /\ call.op = "none" /\ handle.allocated /\ transient = {}
      /\ handle.data \in DOMAIN buffers /\ buffers[handle.data] \in Seq(B!Pair)
      /\ Len(buffers[handle.data]) = handle.length
      /\ handle.length <= handle.capacity /\ handle.length # handle.capacity
  BY DEF B!SetInPlace, B!Mutable, B!IInv, B!CallIsRooted, B!BuilderIntact
<1>2. handle \in B!Handle
  BY <1>1 DEF B!IInv, B!NoHandle
<1>3. PICK pair \in B!Pair : pair = [key |-> k, val |-> v]
  <2>1. [key |-> k, val |-> v] \in B!Pair
    BY DEF B!Pair
  <2>. QED  BY <2>1
<1>4. PICK new : new = Append(SubSeq(buffers[handle.data], 1, handle.length), pair)
  OBVIOUS
<1>5. new \in Seq(B!Pair) /\ Len(new) = handle.length + 1
  BY <1>1, <1>2, <1>4, StoreSound DEF B!Handle
<1>6. buffers' = [buffers EXCEPT ![handle.data] = new]
  BY <1>3, <1>4 DEF B!SetInPlace, B!Store
<1>7. handle' = [handle EXCEPT !.length = @ + 1] /\ transient' = transient /\ call' = call
  BY DEF B!SetInPlace
<1>8. /\ handle'.length = handle.length + 1 /\ handle'.data = handle.data
      /\ handle'.capacity = handle.capacity /\ handle'.allocated = TRUE
      /\ handle'.frozen = handle.frozen
      /\ handle' \in B!Handle
  <2>1. handle.length + 1 \in Nat
    BY <1>2 DEF B!Handle
  <2>. QED  BY <1>2, <1>7, <2>1 DEF B!Handle
<1>9. handle'.length <= handle'.capacity
  BY <1>1, <1>2, <1>8 DEF B!Handle
<1>10. B!CallIsRooted'
  BY <1>1, <1>7 DEF B!CallIsRooted
<1>11. B!BuilderIntact'
  BY <1>1, <1>5, <1>6, <1>7, <1>8, <1>9 DEF B!BuilderIntact
<1>12. \A c \in DOMAIN buffers' : buffers'[c] \in Seq(B!Pair)
  BY <1>1, <1>5, <1>6 DEF B!IInv
<1>. QED  BY <1>8, <1>10, <1>11, <1>12 DEF B!IInv

LEMMA GrowKeeps ==
  ASSUME B!IInv, NEW k \in Key, NEW v \in Value, NEW b \in Buffer, B!Grow(k, v, b)
  PROVE  B!IInv'
<1>1. /\ handle.allocated /\ handle.length = handle.capacity /\ ~handle.frozen
      /\ Len(buffers[handle.data]) = handle.length
  BY DEF B!Grow, B!Mutable, B!IInv, B!BuilderIntact
<1>2. /\ b \in DOMAIN buffers' /\ handle.data # b /\ handle.data \in DOMAIN buffers'
      /\ buffers'[handle.data] = buffers[handle.data]
      /\ \A c \in DOMAIN buffers' : buffers'[c] \in Seq(B!Pair)
  BY <1>1, AllocBufferSound DEF B!Grow
<1>3. /\ call' = [op |-> "grow", old |-> handle.data, new |-> b,
                  pair |-> [key |-> k, val |-> v]]
      /\ transient' = {b} /\ handle' = handle
  BY DEF B!Grow
<1>4. B!CallIsRooted'
  BY <1>1, <1>2, <1>3 DEF B!CallIsRooted, B!Pair
<1>5. B!BuilderIntact'
  BY <1>1, <1>2, <1>3 DEF B!IInv, B!BuilderIntact
<1>. QED  BY <1>2, <1>3, <1>4, <1>5 DEF B!IInv

LEMMA SetInNewBufferKeeps ==
  ASSUME B!IInv, B!SetInNewBuffer
  PROVE  B!IInv'
<1>1. /\ call.op = "grow" /\ call.old = handle.data /\ call.new # call.old
      /\ handle.length = handle.capacity /\ call.pair \in B!Pair /\ handle.allocated
      /\ {call.old, call.new} \subseteq DOMAIN buffers /\ call.new \in Buffer
      /\ Len(buffers[call.old]) = handle.length
  BY DEF B!SetInNewBuffer, B!IInv, B!CallIsRooted, B!BuilderIntact
<1>2. handle \in B!Handle
  BY <1>1 DEF B!IInv, B!NoHandle
<1>3. PICK old : old = buffers[call.old] /\ old \in Seq(B!Pair)
  BY <1>1 DEF B!IInv
<1>4. PICK new : new = Append(SubSeq(old, 1, handle.length), call.pair)
  OBVIOUS
<1>5. new \in Seq(B!Pair) /\ Len(new) = handle.length + 1
  BY <1>1, <1>2, <1>3, <1>4, StoreSound DEF B!Handle
<1>6. buffers' = [buffers EXCEPT ![call.new] = new]
  BY <1>1, <1>3, <1>4 DEF B!SetInNewBuffer, B!Store
<1>7. /\ handle' = [handle EXCEPT !.data = call.new, !.capacity = 2 * @, !.length = @ + 1]
      /\ transient' = {} /\ call' = [op |-> "none"]
  BY DEF B!SetInNewBuffer, B!NoCall
<1>8. /\ handle'.data = call.new /\ handle'.capacity = 2 * handle.capacity
      /\ handle'.length = handle.length + 1 /\ handle'.allocated = TRUE
      /\ handle'.frozen = handle.frozen
      /\ handle' \in B!Handle
  <2>1. 2 * handle.capacity \in Nat \ {0} /\ handle.length + 1 \in Nat
    BY <1>2 DEF B!Handle
  <2>. QED  BY <1>1, <1>2, <1>7, <2>1 DEF B!Handle
<1>9. handle'.length <= handle'.capacity
  BY <1>1, <1>2, <1>8 DEF B!Handle
<1>10. B!CallIsRooted'
  BY <1>7 DEF B!CallIsRooted
<1>11. B!BuilderIntact'
  BY <1>1, <1>5, <1>6, <1>7, <1>8, <1>9 DEF B!BuilderIntact
<1>12. \A c \in DOMAIN buffers' : buffers'[c] \in Seq(B!Pair)
  BY <1>1, <1>5, <1>6 DEF B!IInv
<1>. QED  BY <1>8, <1>10, <1>11, <1>12 DEF B!IInv

LEMMA FreezeKeeps ==
  ASSUME B!IInv, B!Freeze
  PROVE  B!IInv'
<1>1. /\ call.op = "none" /\ handle.allocated /\ transient = {}
      /\ handle.data \in DOMAIN buffers
  BY DEF B!Freeze, B!Mutable, B!IInv, B!CallIsRooted, B!BuilderIntact
<1>2. handle \in B!Handle
  BY <1>1 DEF B!IInv, B!NoHandle
<1>3. /\ call' = [op |-> "freeze", data |-> handle.data, length |-> handle.length]
      /\ handle' = [handle EXCEPT !.frozen = TRUE]
      /\ buffers' = buffers /\ transient' = transient
  BY DEF B!Freeze
<1>4. /\ handle' \in B!Handle /\ handle'.data = handle.data /\ handle'.length = handle.length
      /\ handle'.capacity = handle.capacity /\ handle'.allocated = TRUE
      /\ handle'.frozen = TRUE
  BY <1>2, <1>3 DEF B!Handle
<1>5. B!CallIsRooted'
  BY <1>1, <1>3, <1>4 DEF B!CallIsRooted
<1>6. B!BuilderIntact'
  BY <1>1, <1>3, <1>4 DEF B!IInv, B!BuilderIntact
<1>. QED  BY <1>3, <1>4, <1>5, <1>6 DEF B!IInv

LEMMA FreezeAllocsKeeps ==
  ASSUME B!IInv, B!FreezeAllocs
  PROVE  B!IInv'
<1>1. /\ call.op = "freeze" /\ handle.allocated /\ handle.frozen /\ transient = {}
      /\ call.data = handle.data /\ call.length = handle.length
      /\ DOMAIN call = {"op", "data", "length"}
  BY DEF B!FreezeAllocs, B!IInv, B!CallIsRooted
<1>2. /\ \A c \in DOMAIN buffers' : buffers'[c] \in Seq(B!Pair)
      /\ handle.data \in DOMAIN buffers' /\ buffers'[handle.data] = buffers[handle.data]
  BY <1>1, AllocOtherSound DEF B!FreezeAllocs
<1>3. call' = [call EXCEPT !.op = "fill"] /\ handle' = handle /\ transient' = transient
  BY DEF B!FreezeAllocs
<1>4. call'.op = "fill" /\ call'.data = call.data /\ call'.length = call.length
  BY <1>1, <1>3
<1>5. B!CallIsRooted'
  BY <1>1, <1>3, <1>4 DEF B!CallIsRooted
<1>6. B!BuilderIntact'
  BY <1>1, <1>2, <1>3, <1>4 DEF B!IInv, B!BuilderIntact
<1>. QED  BY <1>2, <1>3, <1>5, <1>6 DEF B!IInv

LEMMA FreezeReturnsKeeps ==
  ASSUME B!IInv, B!FreezeReturns
  PROVE  B!IInv'
<1>1. /\ call.op = "fill" /\ transient = {}
      /\ call' = [op |-> "none"] /\ UNCHANGED <<buffers, handle, transient>>
  BY DEF B!FreezeReturns, B!NoCall, B!IInv, B!CallIsRooted
<1>2. B!CallIsRooted'
  BY <1>1 DEF B!CallIsRooted
<1>3. B!BuilderIntact'
  BY <1>1 DEF B!IInv, B!BuilderIntact
<1>. QED  BY <1>1, <1>2, <1>3 DEF B!IInv

LEMMA DropKeeps ==
  ASSUME B!IInv, B!Drop
  PROVE  B!IInv'
<1>1. /\ call.op = "none" /\ transient = {} /\ UNCHANGED <<transient, call>>
      /\ handle' = B!NoHandle /\ buffers' = <<>>
  BY DEF B!Drop, B!IInv, B!CallIsRooted
<1>2. ~handle'.allocated /\ DOMAIN buffers' = {}
  BY <1>1 DEF B!NoHandle
<1>3. B!CallIsRooted'
  BY <1>1 DEF B!CallIsRooted
<1>4. B!BuilderIntact'
  BY <1>1, <1>2 DEF B!BuilderIntact
<1>. QED  BY <1>1, <1>2, <1>3, <1>4 DEF B!IInv

LEMMA UnchangedKeeps ==
  ASSUME B!IInv, UNCHANGED builderVars
  PROVE  B!IInv'
  BY DEF builderVars, B!IInv, B!CallIsRooted, B!BuilderIntact

-----------------------------------------------------------------------------

LEMMA InitIInv == B!InitialState => B!IInv
<1>. SUFFICES ASSUME B!InitialState PROVE B!IInv
  OBVIOUS
<1>1. handle = B!NoHandle /\ ~handle.allocated /\ DOMAIN buffers = {} /\ call.op = "none"
      /\ transient = {}
  BY DEF B!InitialState, B!NoHandle, B!NoCall
<1>. QED  BY <1>1 DEF B!IInv, B!CallIsRooted, B!BuilderIntact

LEMMA NextKeeps == B!IInv /\ [BackendsNext]_allVars => B!IInv'
<1>. SUFFICES ASSUME B!IInv, [BackendsNext]_allVars PROVE B!IInv'
  OBVIOUS
<1>1. ASSUME UNCHANGED builderVars PROVE B!IInv'
  BY <1>1, UnchangedKeeps
<1>2. ASSUME NEW k \in Key, MapRemove(k) PROVE B!IInv'
  BY <1>1, <1>2 DEF MapRemove
<1>3. ASSUME NEW k \in Key, NEW v \in Value, MapSet(k, v) PROVE B!IInv'
  BY <1>1, <1>3 DEF MapSet
<1>4. ASSUME Building PROVE B!IInv'
  <2>1. ASSUME BuilderAlloc PROVE B!IInv'
    BY <2>1, AllocTheBufferKeeps, AllocHandleKeeps DEF BuilderAlloc
  <2>2. ASSUME NEW k \in Key, NEW v \in Value, BuilderSet(k, v) PROVE B!IInv'
    BY <2>2, SetInPlaceKeeps, GrowKeeps DEF BuilderSet
  <2>3. ASSUME BuilderSetAfterGrowth PROVE B!IInv'
    BY <2>3, SetInNewBufferKeeps DEF BuilderSetAfterGrowth
  <2>4. ASSUME FreezeBegins PROVE B!IInv'
    BY <2>4, FreezeKeeps, FreezeAllocsKeeps DEF FreezeBegins
  <2>. QED  BY <1>4, <2>1, <2>2, <2>3, <2>4 DEF Building
<1>5. ASSUME BuilderFreeze PROVE B!IInv'
  BY <1>5, FreezeReturnsKeeps DEF BuilderFreeze
<1>6. ASSUME UseAfterFreeze PROVE B!IInv'
  BY <1>1, <1>6 DEF UseAfterFreeze
<1>7. ASSUME BuilderDrop PROVE B!IInv'
  BY <1>7, DropKeeps DEF BuilderDrop
<1>8. CASE UNCHANGED allVars
  BY <1>1, <1>8 DEF allVars
<1>. QED  BY <1>2, <1>3, <1>4, <1>5, <1>6, <1>7, <1>8 DEF BackendsNext

\* The buffers that the native builder's handle names, or that one of its calls has in a
\* local, are allocated, and the pairs fit, at whichever allocations a collection ran.
THEOREM BuilderStaysIntact == BackendsSpec => []BuilderIntact
<1>1. BackendsInit => B!IInv
  BY InitIInv DEF BackendsInit
<1>2. B!IInv /\ [BackendsNext]_allVars => B!IInv'
  BY NextKeeps
<1>3. B!IInv => BuilderIntact
  BY DEF B!IInv, BuilderIntact
<1>. QED  BY <1>1, <1>2, <1>3, PTL DEF BackendsSpec

-----------------------------------------------------------------------------
(* The index of the wasm32-gc map.                                         *)

\* The length of an index.
LEMMA IdxLenSound ==
  ASSUME NEW c \in Nat \ {0}, NEW idx, DOMAIN idx = 0..(c - 1)
  PROVE  Gc!IdxLen(idx) = c
<1>1. Gc!Cardinality(DOMAIN idx) = Cardinality(DOMAIN idx)
  BY DEF Gc!Cardinality, Cardinality
<1>2. Cardinality(0..(c - 1)) = IF 0 > c - 1 THEN 0 ELSE c - 1 - 0 + 1
  BY FS_Interval
<1>. QED  BY <1>1, <1>2 DEF Gc!IdxLen

\* The index slots of a walk.
LEMMA AtSound ==
  ASSUME NEW idx, Gc!IdxLen(idx) \in Nat \ {0}, NEW k \in Key
  PROVE  /\ \A n \in Nat : Gc!At(idx, k, n) \in 0..(Gc!IdxLen(idx) - 1)
         /\ \A h \in 0..(Gc!IdxLen(idx) - 1) :
              \E n \in 0..(Gc!IdxLen(idx) - 1) : Gc!At(idx, k, n) = h
<1>1. PICK c \in Nat \ {0}, a \in Nat : c = Gc!IdxLen(idx) /\ a = GcHash[k]
  BY GcAssumption
<1>2. \A n \in Nat : a + n \in Nat
  OBVIOUS
<1>3. \A n \in Nat : (a + n) % c \in 0..(c - 1)
  BY <1>2, Remainder
<1>4. \A h \in 0..(c - 1) : \E n \in 0..(c - 1) : (a + n) % c = h
  BY WalkReachesAll
<1>. QED  BY <1>1, <1>3, <1>4 DEF Gc!At

\* An index with more slots than it has pairs has an empty one.
LEMMA SomeSlotEmpty ==
  ASSUME NEW pairs, NEW n \in Nat, NEW idx, Gc!Indexed(pairs, n, idx), n < Gc!IdxLen(idx)
  PROVE  \E h \in DOMAIN idx : idx[h] = Gc!IDX_EMPTY
<1>. SUFFICES ASSUME \A h \in DOMAIN idx : idx[h] # Gc!IDX_EMPTY PROVE FALSE
  OBVIOUS
<1>1. PICK c \in Nat \ {0} : c = Gc!IdxLen(idx) /\ DOMAIN idx = 0..(c - 1)
  BY DEF Gc!Indexed
<1>2. idx \in Injection(0..(c - 1), 0..(n - 1))
  <2>1. idx \in [0..(c - 1) -> 0..(n - 1)]
    <3>1. idx \in [0..(c - 1) -> {Gc!IDX_EMPTY} \cup 0..(n - 1)]
      BY <1>1 DEF Gc!Indexed
    <3>2. \A h \in 0..(c - 1) : idx[h] \in 0..(n - 1)
      BY <1>1, <3>1
    <3>. QED  BY <3>1, <3>2
  <2>2. \A g, h \in 0..(c - 1) : idx[g] = idx[h] => g = h
    BY <1>1 DEF Gc!Indexed
  <2>. QED  BY <2>1, <2>2 DEF Injection, IsInjective
<1>3. IsFiniteSet(0..(n - 1)) /\ Cardinality(0..(n - 1)) = n
  <2>1. Cardinality(0..(n - 1)) = IF 0 > n - 1 THEN 0 ELSE n - 1 - 0 + 1
    BY FS_Interval
  <2>2. IsFiniteSet(0..(n - 1))
    BY FS_Interval
  <2>. QED  BY <2>1, <2>2
<1>4. Cardinality(0..(c - 1)) = c
  <2>1. Cardinality(0..(c - 1)) = IF 0 > c - 1 THEN 0 ELSE c - 1 - 0 + 1
    BY FS_Interval
  <2>. QED  BY <2>1
<1>5. c <= n
  BY <1>2, <1>3, <1>4, FS_Injection
<1>. QED  BY <1>1, <1>5

\* A slot number goes to an empty index slot that the walk for its key comes to.
LEMMA PlaceSound ==
  ASSUME NEW pairs, NEW n \in Nat, NEW idx, Gc!Indexed(pairs, n, idx),
         NEW more, \A i \in 1..n : more[i].key = pairs[i].key /\ pairs[i].key \in Key,
         NEW k \in Key, more[n + 1].key = k,
         NEW h \in DOMAIN idx, idx[h] = Gc!IDX_EMPTY, Gc!ComesTo(idx, k, h)
  PROVE  /\ Gc!Indexed(more, n + 1, [idx EXCEPT ![h] = n])
         /\ Gc!IdxLen([idx EXCEPT ![h] = n]) = Gc!IdxLen(idx)
<1>1. PICK new : new = [idx EXCEPT ![h] = n]
  OBVIOUS
<1>2. PICK c \in Nat \ {0} : c = Gc!IdxLen(idx) /\ DOMAIN idx = 0..(c - 1)
  BY DEF Gc!Indexed
<1>3. /\ DOMAIN new = DOMAIN idx /\ new[h] = n
      /\ \A g \in DOMAIN idx : g # h => new[g] = idx[g]
  BY <1>1
<1>4. Gc!IdxLen(new) = c
  BY <1>2, <1>3, IdxLenSound
<1>5. Gc!IDX_EMPTY = -1
  BY DEF Gc!IDX_EMPTY
<1>6. \A g \in DOMAIN idx : idx[g] = -1 \/ idx[g] \in 0..(n - 1)
  BY <1>5 DEF Gc!Indexed
<1>7. n \in 0..(n + 1 - 1) /\ n # -1 /\ n \notin 0..(n - 1)
      /\ (\A i \in 0..(n - 1) : i \in 0..(n + 1 - 1) /\ i # -1 /\ i + 1 \in 1..n)
      /\ \A i \in 0..(n + 1 - 1) : i = n \/ i \in 0..(n - 1)
  OBVIOUS
<1>8. new \in [0..(c - 1) -> {-1} \cup 0..(n + 1 - 1)]
  <2>1. \A g \in DOMAIN idx : new[g] \in {-1} \cup 0..(n + 1 - 1)
    BY <1>3, <1>6, <1>7
  <2>2. new = [g \in 0..(c - 1) |-> new[g]]
    BY <1>1, <1>2
  <2>. QED  BY <1>2, <2>1, <2>2
<1>9. ASSUME NEW slot \in 0..(n + 1 - 1) PROVE \E g \in DOMAIN new : new[g] = slot
  <2>1. CASE slot = n
    BY <1>3, <2>1
  <2>2. CASE slot # n
    <3>1. slot \in 0..(n - 1) /\ slot # -1
      BY <1>7, <2>2
    <3>2. PICK g \in DOMAIN idx : idx[g] = slot
      BY <3>1 DEF Gc!Indexed
    <3>. QED  BY <1>3, <1>5, <3>1, <3>2
  <2>. QED  BY <2>1, <2>2
<1>10. \A f, g \in DOMAIN new : new[f] = new[g] /\ new[f] # -1 => f = g
  <2>1. \A f, g \in DOMAIN idx : idx[f] = idx[g] /\ idx[f] # -1 => f = g
    BY <1>5 DEF Gc!Indexed
  <2>2. \A g \in DOMAIN idx : idx[g] # n
    BY <1>6, <1>7
  <2>. QED  BY <1>3, <2>1, <2>2
<1>11. ASSUME NEW j \in Key, NEW g, Gc!ComesTo(idx, j, g) PROVE Gc!ComesTo(new, j, g)
  <2>1. \A m \in Nat : Gc!At(idx, j, m) \in DOMAIN idx /\ Gc!At(new, j, m) = Gc!At(idx, j, m)
    BY <1>2, <1>4, AtSound DEF Gc!At
  <2>2. PICK m \in 0..(c - 1) :
          Gc!At(idx, j, m) = g /\ \A i \in 0..(m - 1) : idx[Gc!At(idx, j, i)] # -1
    BY <1>2, <1>5, <1>11 DEF Gc!ComesTo
  <2>3. m \in Nat /\ \A i \in 0..(m - 1) : i \in Nat
    OBVIOUS
  <2>4. \A f \in DOMAIN idx : idx[f] # -1 => new[f] # -1
    BY <1>3, <1>7
  <2>5. Gc!At(new, j, m) = g /\ \A i \in 0..(m - 1) : new[Gc!At(new, j, i)] # -1
    BY <2>1, <2>2, <2>3, <2>4
  <2>. QED  BY <1>4, <1>5, <2>5 DEF Gc!ComesTo
<1>12. ASSUME NEW g \in DOMAIN new, new[g] # -1
       PROVE  Gc!ComesTo(new, more[new[g] + 1].key, g)
  <2>1. CASE g = h
    BY <1>3, <1>11, <2>1
  <2>2. CASE g # h
    <3>1. new[g] = idx[g] /\ g \in DOMAIN idx /\ idx[g] # -1
      BY <1>3, <1>12, <2>2
    <3>2. PICK i \in 1..n : i = idx[g] + 1
      BY <1>6, <1>7, <3>1
    <3>3. Gc!ComesTo(idx, pairs[i].key, g)
      BY <1>5, <3>1, <3>2 DEF Gc!Indexed
    <3>. QED  BY <1>11, <3>1, <3>2, <3>3
  <2>. QED  BY <2>1, <2>2
<1>13. Gc!Indexed(more, n + 1, new)
  BY <1>2, <1>3, <1>4, <1>5, <1>8, <1>9, <1>10, <1>12 DEF Gc!Indexed
<1>. QED  BY <1>1, <1>2, <1>4, <1>13

\* emit_index_insert puts a slot number where the walk of its key first finds room.
LEMMA IndexInsertSound ==
  ASSUME NEW pairs, NEW n \in Nat, NEW idx, Gc!Indexed(pairs, n, idx),
         n < Gc!IdxLen(idx),
         NEW k \in Key, pairs[n + 1].key = k, \A i \in 1..n : pairs[i].key \in Key
  PROVE  /\ Gc!Indexed(pairs, n + 1, Gc!IndexInsert(idx, k, n))
         /\ Gc!IdxLen(Gc!IndexInsert(idx, k, n)) = Gc!IdxLen(idx)
<1>1. PICK c \in Nat \ {0} : c = Gc!IdxLen(idx) /\ DOMAIN idx = 0..(c - 1)
  BY DEF Gc!Indexed
<1>2. PICK free : free = {m \in 0..(c - 1) : idx[Gc!At(idx, k, m)] = Gc!IDX_EMPTY}
  OBVIOUS
<1>3. PICK h \in 0..(c - 1) : idx[h] = Gc!IDX_EMPTY
  BY <1>1, SomeSlotEmpty
<1>4. PICK x \in 0..(c - 1) : Gc!At(idx, k, x) = h
  BY <1>1, AtSound
<1>5. free \in SUBSET Nat /\ free # {}
  BY <1>2, <1>3, <1>4
<1>6. PICK m \in free : m = Min(free) /\ \A i \in free : m <= i
  BY <1>5, MinOfNaturals
<1>7. m \in 0..(c - 1) /\ idx[Gc!At(idx, k, m)] = Gc!IDX_EMPTY
  BY <1>2, <1>6
<1>8. ASSUME NEW i \in 0..(m - 1) PROVE idx[Gc!At(idx, k, i)] # Gc!IDX_EMPTY
  <2>1. i \in 0..(c - 1) /\ ~(m <= i)
    BY <1>7
  <2>. QED  BY <1>2, <1>6, <2>1
<1>9. PICK g : g = Gc!At(idx, k, m)
  OBVIOUS
<1>10. Gc!ComesTo(idx, k, g)
  BY <1>1, <1>7, <1>8, <1>9 DEF Gc!ComesTo
<1>11. g \in DOMAIN idx
  <2>1. m \in Nat
    BY <1>7
  <2>. QED  BY <1>1, <1>9, <2>1, AtSound
<1>12. Gc!IndexInsert(idx, k, n) = [idx EXCEPT ![g] = n]
  <2>1. Gc!IndexInsert(idx, k, n) = [idx EXCEPT ![Gc!At(idx, k, Gc!Min(free))] = n]
    BY <1>1, <1>2 DEF Gc!IndexInsert
  <2>2. Gc!Min(free) = Min(free)
    BY DEF Gc!Min, Min
  <2>. QED  BY <1>6, <1>9, <2>1, <2>2
<1>13. idx[g] = Gc!IDX_EMPTY
  BY <1>7, <1>9
<1>14. /\ Gc!Indexed(pairs, n + 1, [idx EXCEPT ![g] = n])
       /\ Gc!IdxLen([idx EXCEPT ![g] = n]) = Gc!IdxLen(idx)
  BY <1>10, <1>11, <1>13, PlaceSound
<1>. QED  BY <1>12, <1>14

\* An empty index.
LEMMA NewIdxSound ==
  ASSUME NEW c \in Nat \ {0}, NEW pairs
  PROVE  Gc!Indexed(pairs, 0, Gc!NewIdx(c)) /\ Gc!IdxLen(Gc!NewIdx(c)) = c
<1>1. PICK idx : idx = [h \in 0..(c - 1) |-> Gc!IDX_EMPTY]
  OBVIOUS
<1>2. Gc!IdxLen(idx) = c
  BY <1>1, IdxLenSound
<1>3. \A slot \in 0..(0 - 1) : FALSE
  OBVIOUS
<1>4. Gc!Indexed(pairs, 0, idx)
  BY <1>1, <1>2, <1>3 DEF Gc!Indexed
<1>. QED  BY <1>1, <1>2, <1>4 DEF Gc!NewIdx

\* A lookup finds the slot of a key that is there, and otherwise ends at an empty
\* index slot to which the walk for the key comes.
LEMMA LookupSound ==
  ASSUME NEW pairs \in Seq(Pair), NEW idx, NEW k \in Key,
         Gc!Indexed(pairs, Len(pairs), idx), Len(pairs) < Gc!IdxLen(idx)
  PROVE  LET at == Gc!Lookup([pairs |-> pairs, idx |-> idx], k)
         IN  /\ at.found # Gc!IDX_EMPTY =>
                  /\ at.found \in 0..(Len(pairs) - 1)
                  /\ at.found + 1 \in DOMAIN pairs /\ pairs[at.found + 1].key = k
             /\ at.found = Gc!IDX_EMPTY =>
                  /\ \A i \in DOMAIN pairs : pairs[i].key # k
                  /\ at.h \in DOMAIN idx /\ idx[at.h] = Gc!IDX_EMPTY
                  /\ Gc!ComesTo(idx, k, at.h)
<1>1. PICK c \in Nat \ {0} : c = Gc!IdxLen(idx) /\ DOMAIN idx = 0..(c - 1)
  BY DEF Gc!Indexed
<1>2. PICK n \in Nat : n = Len(pairs) /\ DOMAIN pairs = 1..n
  BY LenProperties
<1>3. Gc!IDX_EMPTY = -1
  BY DEF Gc!IDX_EMPTY
<1>4. \A h \in DOMAIN idx : idx[h] = -1 \/ idx[h] \in 0..(n - 1)
  BY <1>2, <1>3 DEF Gc!Indexed
<1>5. PICK stops : stops = {m \in 0..(c - 1) : \/ idx[Gc!At(idx, k, m)] = -1
                                              \/ pairs[idx[Gc!At(idx, k, m)] + 1].key = k}
  OBVIOUS
<1>6. PICK h \in 0..(c - 1) : idx[h] = -1
  BY <1>1, <1>2, <1>3, SomeSlotEmpty
<1>7. PICK x \in 0..(c - 1) : Gc!At(idx, k, x) = h
  BY <1>1, AtSound
<1>8. stops \in SUBSET Nat /\ stops # {}
  BY <1>5, <1>6, <1>7
<1>9. PICK m \in stops : m = Min(stops) /\ \A i \in stops : m <= i
  BY <1>8, MinOfNaturals
<1>10. PICK g : g = Gc!At(idx, k, m)
  OBVIOUS
<1>11. m \in 0..(c - 1) /\ (idx[g] = -1 \/ pairs[idx[g] + 1].key = k)
  BY <1>5, <1>9, <1>10
<1>12. g \in DOMAIN idx
  <2>1. m \in Nat
    BY <1>11
  <2>. QED  BY <1>1, <1>10, <2>1, AtSound
<1>13. PICK at : at = Gc!Lookup([pairs |-> pairs, idx |-> idx], k)
  OBVIOUS
<1>14. at.found = idx[g] /\ at.h = g
  <2>1. Gc!Min(stops) = m
    BY <1>9 DEF Gc!Min, Min
  <2>2. at = [found |-> idx[g], h |-> g]
    BY <1>1, <1>3, <1>5, <1>8, <1>10, <1>13, <2>1 DEF Gc!Lookup
  <2>. QED  BY <2>2
<1>15. ASSUME at.found # -1
       PROVE  /\ at.found \in 0..(n - 1) /\ at.found + 1 \in 1..n
              /\ pairs[at.found + 1].key = k
  <2>1. at.found \in 0..(n - 1)
    BY <1>4, <1>12, <1>14, <1>15
  <2>2. at.found + 1 \in 1..n
    BY <2>1
  <2>. QED  BY <1>11, <1>14, <1>15, <2>1, <2>2
<1>16. ASSUME NEW i \in 0..(m - 1) PROVE idx[Gc!At(idx, k, i)] # -1
  <2>1. i \in 0..(c - 1) /\ ~(m <= i)
    BY <1>11
  <2>. QED  BY <1>5, <1>9, <2>1
<1>17. Gc!ComesTo(idx, k, g)
  BY <1>1, <1>3, <1>10, <1>11, <1>16 DEF Gc!ComesTo
<1>18. ASSUME at.found = -1, NEW i \in 1..n, pairs[i].key = k PROVE FALSE
  <2>1. i - 1 \in 0..(n - 1) /\ i - 1 + 1 = i /\ i - 1 # -1
    OBVIOUS
  <2>2. PICK f \in DOMAIN idx : idx[f] = i - 1
    BY <1>2, <2>1 DEF Gc!Indexed
  <2>3. Gc!ComesTo(idx, k, f)
    BY <1>3, <1>18, <2>1, <2>2 DEF Gc!Indexed
  <2>4. PICK y \in 0..(c - 1) :
          Gc!At(idx, k, y) = f /\ \A z \in 0..(y - 1) : idx[Gc!At(idx, k, z)] # -1
    BY <1>1, <1>3, <2>3 DEF Gc!ComesTo
  <2>5. y \in stops
    BY <1>5, <1>18, <2>1, <2>2, <2>4
  <2>6. m <= y /\ m # y
    <3>1. idx[g] = -1
      BY <1>14, <1>18
    <3>. QED  BY <1>9, <1>10, <2>1, <2>2, <2>4, <2>5, <3>1
  <2>7. m \in 0..(y - 1)
    BY <1>11, <2>6
  <2>. QED  BY <1>10, <1>14, <1>18, <2>4, <2>7
<1>. QED  BY <1>2, <1>3, <1>12, <1>13, <1>14, <1>15, <1>17, <1>18

\* The length of an index for n pairs.
LEMMA IdxLenForSound ==
  ASSUME NEW n \in Nat
  PROVE  Gc!IdxLenFor(n) \in Nat \ {0} /\ 2 * n <= Gc!IdxLenFor(n) /\ n < Gc!IdxLenFor(n)
<1>. DEFINE doubled[i \in 0..n] == IF i = 0 THEN MinIndex ELSE 2 * doubled[i - 1]
<1>1. doubled = [i \in 0..n |-> IF i = 0 THEN MinIndex ELSE 2 * doubled[i - 1]]
  <2>1. PICK Good : Good = [i \in 0..n |-> {x \in Nat : x >= 2 * i + 2}]
    OBVIOUS
  <2>2. PICK G : G = [i \in 1..n |-> [x \in Nat |-> 2 * x]]
    OBVIOUS
  <2>3. PICK first \in Good[0] : first = MinIndex
    BY <2>1, GcAssumption
  <2>4. \A i \in 1..n : i \in 0..n /\ i - 1 \in 0..n /\ 2 * (i - 1) + 2 = 2 * i
    OBVIOUS
  <2>5. ASSUME NEW i \in 1..n, NEW x \in Good[i - 1] PROVE G[i][x] \in Good[i]
    <3>1. x \in Nat /\ x >= 2 * i
      BY <2>1, <2>4
    <3>2. G[i][x] = 2 * x
      BY <2>2, <3>1
    <3>3. 2 * x \in Nat /\ 2 * x >= 2 * i + 2
      BY <3>1
    <3>. QED  BY <2>1, <2>4, <3>2, <3>3
  <2>6. StepsKeep(n, G, Good)
    BY <2>5 DEF StepsKeep
  <2>7. PICK f : Unfolds(n, first, G, Good, f)
    BY <2>6, RecursionSound
  <2>8. \A i \in 0..n : i # 0 => i \in 1..n /\ i - 1 \in 0..n
    OBVIOUS
  <2>9. \A i \in 0..n : f[i] \in Nat
    BY <2>1, <2>7 DEF Unfolds
  <2>10. f = [i \in 0..n |-> IF i = 0 THEN MinIndex ELSE 2 * f[i - 1]]
    BY <2>2, <2>3, <2>7, <2>8, <2>9 DEF Unfolds
  <2>. QED  BY <2>10
<1>2. Gc!IdxLenFor(n) = Gc!Min({c \in {doubled[i] : i \in 0..n} : c >= 2 * n})
  BY DEF Gc!IdxLenFor
<1>. HIDE DEF doubled
<1>3. \A i \in 0..n : doubled[i] \in Nat /\ doubled[i] >= 2 * i + 2
  <2>1. PICK S : S = {i \in 0..n : doubled[i] \in Nat /\ doubled[i] >= 2 * i + 2}
    OBVIOUS
  <2>2. 0 \in S
    BY <1>1, <2>1, GcAssumption
  <2>3. ASSUME NEW i \in 1..n, i - 1 \in S PROVE i \in S
    <3>1. PICK x \in Nat : x = doubled[i - 1] /\ x >= 2 * (i - 1) + 2
      BY <2>1, <2>3
    <3>2. doubled[i] = 2 * x
      BY <1>1, <3>1
    <3>3. 2 * x \in Nat /\ 2 * x >= 2 * i + 2
      BY <3>1
    <3>. QED  BY <2>1, <3>2, <3>3
  <2>4. \A i \in 0..n : i \in S
    BY <2>2, <2>3, Counting
  <2>. QED  BY <2>1, <2>4
<1>4. PICK C : C = {c \in {doubled[i] : i \in 0..n} : c >= 2 * n}
  OBVIOUS
<1>5. \A c \in C : c \in Nat \ {0, 1} /\ c >= 2 * n
  <2>1. ASSUME NEW i \in 0..n PROVE doubled[i] \in Nat \ {0, 1}
    BY <1>3
  <2>. QED  BY <1>4, <2>1
<1>6. C # {}
  <2>1. n \in 0..n
    OBVIOUS
  <2>2. doubled[n] \in Nat /\ doubled[n] >= 2 * n + 2
    BY <1>3, <2>1
  <2>3. doubled[n] >= 2 * n
    BY <2>2
  <2>. QED  BY <1>4, <2>1, <2>3
<1>7. C \in SUBSET Nat
  BY <1>5
<1>8. PICK c \in C : c = Gc!Min(C)
  <2>1. Gc!Min(C) = Min(C)
    BY DEF Gc!Min, Min
  <2>. QED  BY <1>6, <1>7, <2>1, MinOfNaturals
<1>9. c \in Nat \ {0, 1} /\ 2 * n <= c /\ n < c
  <2>1. c \in Nat \ {0, 1} /\ c >= 2 * n
    BY <1>5
  <2>. QED  BY <2>1
<1>. QED  BY <1>2, <1>4, <1>8, <1>9

\* What emit_build_idx makes for pairs of distinct keys: an index of all of them.
LEMMA BuildIdxSound ==
  ASSUME NEW pairs \in Seq(Pair), NEW c \in Nat \ {0}, Len(pairs) < c
  PROVE  LET idx == Gc!BuildIdx(pairs, c)
         IN  Gc!Indexed(pairs, Len(pairs), idx) /\ Gc!IdxLen(idx) = c
<1>1. PICK N \in Nat : N = Len(pairs) /\ \A n \in 1..N : pairs[n] \in Pair
  BY LenProperties, ElementOfSeq
<1>2. \A n \in 1..N : pairs[n].key \in Key
  BY <1>1 DEF Pair
<1>. DEFINE Built(n, idx) == Gc!Indexed(pairs, n, idx) /\ Gc!IdxLen(idx) = c
            Step(n, idx) == Gc!IndexInsert(idx, pairs[n].key, n - 1)
            Indexes == [0..(c - 1) -> {Gc!IDX_EMPTY} \cup Nat]
<1>3. Built(0, Gc!NewIdx(c))
  BY NewIdxSound
<1>4. ASSUME NEW n \in 1..N, NEW idx, Built(n - 1, idx) PROVE Built(n, Step(n, idx))
  <2>1. PICK m \in Nat : m = n - 1 /\ m + 1 = n /\ m < c /\ \A i \in 1..m : i \in 1..N
    BY <1>1
  <2>2. \A i \in 1..m : pairs[i].key \in Key
    BY <1>2, <2>1
  <2>3. Gc!Indexed(pairs, m, idx) /\ m < Gc!IdxLen(idx)
    BY <1>4, <2>1
  <2>4. PICK k \in Key : k = pairs[n].key /\ pairs[m + 1].key = k
    BY <1>2, <2>1
  <2>5. PICK new : new = Gc!IndexInsert(idx, k, m)
    OBVIOUS
  <2>6. Gc!Indexed(pairs, m + 1, new) /\ Gc!IdxLen(new) = Gc!IdxLen(idx)
    BY <2>2, <2>3, <2>4, <2>5, IndexInsertSound
  <2>. QED  BY <1>4, <2>1, <2>4, <2>5, <2>6
<1>5. ASSUME NEW n \in 0..N, NEW idx, Built(n, idx) PROVE idx \in Indexes
  <2>1. idx \in [0..(c - 1) -> {Gc!IDX_EMPTY} \cup 0..(n - 1)]
    BY <1>5 DEF Gc!Indexed
  <2>2. \A i \in 0..(n - 1) : i \in Nat
    OBVIOUS
  <2>. QED  BY <2>1, <2>2
<1>. DEFINE built[n \in 0..Len(pairs)] ==
              IF n = 0 THEN Gc!NewIdx(c)
              ELSE Gc!IndexInsert(built[n - 1], pairs[n].key, n - 1)
<1>6. built = [n \in 0..N |-> IF n = 0 THEN Gc!NewIdx(c) ELSE Step(n, built[n - 1])]
  <2>1. PICK Good : Good = [n \in 0..N |-> {idx \in Indexes : Built(n, idx)}]
    OBVIOUS
  <2>2. PICK G : G = [n \in 1..N |-> [idx \in Good[n - 1] |-> Step(n, idx)]]
    OBVIOUS
  <2>. HIDE DEF Built, Indexes, Step
  <2>3. \A n \in 1..N : n \in 0..N /\ n - 1 \in 0..N
    OBVIOUS
  <2>4. PICK first \in Good[0] : first = Gc!NewIdx(c)
    <3>1. 0 \in 0..N
      OBVIOUS
    <3>. QED  BY <1>3, <1>5, <2>1, <3>1
  <2>5. \A n \in 1..N : \A idx \in Good[n - 1] : G[n][idx] = Step(n, idx)
    BY <2>2
  <2>6. \A n \in 1..N : \A idx \in Good[n - 1] : G[n][idx] \in Good[n]
    BY <1>4, <1>5, <2>1, <2>3, <2>5
  <2>7. PICK f : Unfolds(N, first, G, Good, f)
    <3>1. StepsKeep(N, G, Good)
      BY <2>6 DEF StepsKeep
    <3>. QED  BY <3>1, RecursionSound
  <2>8. \A n \in 0..N : n # 0 => n \in 1..N /\ n - 1 \in 0..N
    OBVIOUS
  <2>9. f = [n \in 0..N |-> IF n = 0 THEN Gc!NewIdx(c) ELSE Step(n, f[n - 1])]
    BY <2>4, <2>5, <2>7, <2>8 DEF Unfolds
  <2>10. f = [n \in 0..Len(pairs) |->
                IF n = 0 THEN Gc!NewIdx(c)
                ELSE Gc!IndexInsert(f[n - 1], pairs[n].key, n - 1)]
    BY <1>1, <2>9 DEF Step
  <2>11. built = [n \in 0..Len(pairs) |->
                    IF n = 0 THEN Gc!NewIdx(c)
                    ELSE Gc!IndexInsert(built[n - 1], pairs[n].key, n - 1)]
    BY <2>10
  <2>. HIDE DEF built
  <2>. QED  BY <1>1, <2>11 DEF Step
<1>7. Gc!BuildIdx(pairs, c) = built[N]
  BY <1>1 DEF Gc!BuildIdx
<1>8. Built(N, built[N])
  <2>. HIDE DEF Built, Step, built
  <2>1. PICK S : S = {n \in 0..N : Built(n, built[n])}
    OBVIOUS
  <2>2. 0 \in S
    BY <1>3, <1>6, <2>1
  <2>3. \A n \in 1..N : n - 1 \in S => n \in S
    <3>1. \A n \in 1..N : n \in 0..N /\ n # 0 /\ n - 1 \in 0..N
      OBVIOUS
    <3>. QED  BY <1>4, <1>6, <2>1, <3>1
  <2>4. N \in S
    BY <2>2, <2>3, Counting
  <2>. QED  BY <2>1, <2>4
<1>. QED  BY <1>1, <1>7, <1>8

\* The maps whose index has c slots.
GcMaps(c) == [pairs : Seq(Pair), idx : [0..(c - 1) -> {Gc!IDX_EMPTY} \cup Nat]]

\* What a sound map is.
LEMMA SoundMap ==
  ASSUME NEW m, Gc!Sound(m)
  PROVE  /\ m.pairs \in Seq(Pair) /\ Len(m.pairs) \in Nat /\ DOMAIN m.pairs = 1..Len(m.pairs)
         /\ \A i \in DOMAIN m.pairs :
              m.pairs[i] = [key |-> m.pairs[i].key, val |-> m.pairs[i].val]
              /\ m.pairs[i].key \in Key /\ m.pairs[i].val \in Value
         /\ \A i, j \in DOMAIN m.pairs : m.pairs[i].key = m.pairs[j].key => i = j
         /\ Gc!Indexed(m.pairs, Len(m.pairs), m.idx)
         /\ Gc!IdxLen(m.idx) \in Nat \ {0} /\ DOMAIN m.idx = 0..(Gc!IdxLen(m.idx) - 1)
         /\ 2 * Len(m.pairs) <= Gc!IdxLen(m.idx) /\ Len(m.pairs) < Gc!IdxLen(m.idx)
<1>1. m.pairs \in Seq(Pair)
  BY DEF Gc!Sound, Gc!Pair, Pair
<1>2. Len(m.pairs) \in Nat /\ DOMAIN m.pairs = 1..Len(m.pairs)
      /\ \A i \in DOMAIN m.pairs : m.pairs[i] \in Pair
  BY <1>1, LenProperties, ElementOfSeq
<1>3. \A i \in DOMAIN m.pairs :
        m.pairs[i] = [key |-> m.pairs[i].key, val |-> m.pairs[i].val]
        /\ m.pairs[i].key \in Key /\ m.pairs[i].val \in Value
  BY <1>2 DEF Pair
<1>4. Gc!IdxLen(m.idx) \in Nat \ {0} /\ DOMAIN m.idx = 0..(Gc!IdxLen(m.idx) - 1)
  BY DEF Gc!Sound, Gc!Indexed
<1>5. 2 * Len(m.pairs) <= Gc!IdxLen(m.idx)
  BY DEF Gc!Sound
<1>6. Len(m.pairs) < Gc!IdxLen(m.idx)
  BY <1>2, <1>4, <1>5
<1>. QED  BY <1>1, <1>2, <1>3, <1>4, <1>5, <1>6 DEF Gc!Sound

\* Binding a key that is there leaves the keys, and the index, as they are.
LEMMA BoundPresent ==
  ASSUME NEW m, Gc!Sound(m), NEW k \in Key, NEW v \in Value,
         NEW i \in DOMAIN m.pairs, m.pairs[i].key = k
  PROVE  LET bound == Bound(m.pairs, k, v)
         IN  /\ bound = [m.pairs EXCEPT ![i].val = v]
             /\ Gc!Sound([pairs |-> bound, idx |-> m.idx])
             /\ Len(bound) = Len(m.pairs)
<1>1. PICK es \in Seq(Pair) : es = m.pairs
  BY SoundMap
<1>2. PICK n \in Nat : n = Len(es) /\ DOMAIN es = 1..n
  BY LenProperties
<1>3. \A j \in DOMAIN es : /\ es[j] = [key |-> es[j].key, val |-> es[j].val]
                           /\ es[j].key \in Key /\ es[j].val \in Value
                           /\ es[j].key = k => j = i
  BY <1>1, SoundMap
<1>4. PICK new : new = [j \in 1..n |-> IF j = i THEN [key |-> k, val |-> v] ELSE es[j]]
  OBVIOUS
<1>5. Bound(es, k, v) = new
  <2>1. Bound(es, k, v) = [j \in DOMAIN es |-> IF es[j].key = k THEN [key |-> k, val |-> v]
                                              ELSE es[j]]
    BY <1>1 DEF Bound
  <2>. QED  BY <1>1, <1>2, <1>3, <1>4, <2>1
<1>6. new = [es EXCEPT ![i].val = v]
  <2>1. PICK p : p = es[i] /\ p = [key |-> k, val |-> p.val]
    BY <1>1, <1>3
  <2>3. [p EXCEPT !.val = v] = [key |-> k, val |-> v]
    BY <2>1
  <2>2. es = [j \in 1..n |-> es[j]]
    BY <1>2, LenProperties
  <2>4. [es EXCEPT ![i].val = v] = [es EXCEPT ![i] = [key |-> k, val |-> v]]
    BY <2>1, <2>3
  <2>5. [es EXCEPT ![i] = [key |-> k, val |-> v]]
          = [j \in 1..n |-> IF j = i THEN [key |-> k, val |-> v] ELSE es[j]]
    BY <1>1, <1>2, <2>2
  <2>. QED  BY <1>4, <2>4, <2>5
<1>7. ASSUME NEW j \in 1..n PROVE new[j] \in Pair /\ new[j].key = es[j].key
  <2>1. CASE j = i
    <3>1. new[j] = [key |-> k, val |-> v]
      BY <1>4, <2>1
    <3>. QED  BY <1>1, <2>1, <3>1 DEF Pair
  <2>2. CASE j # i
    <3>1. new[j] = es[j]
      BY <1>4, <2>2
    <3>. QED  BY <1>2, <3>1, ElementOfSeq
  <2>. QED  BY <2>1, <2>2
<1>8. new \in Seq(Pair) /\ Len(new) = n /\ DOMAIN new = 1..n
  <2>1. new = [j \in 1..n |-> new[j]]
    BY <1>4
  <2>. QED  BY <1>7, <2>1, IsASeq, LenProperties
<1>9. Gc!Indexed(new, n, m.idx)
  <2>1. Gc!Indexed(es, n, m.idx)
    BY <1>1, <1>2, SoundMap
  <2>2. ASSUME NEW h \in DOMAIN m.idx, m.idx[h] # Gc!IDX_EMPTY
        PROVE  new[m.idx[h] + 1].key = es[m.idx[h] + 1].key
    <3>1. m.idx[h] \in 0..(n - 1)
      BY <2>1, <2>2 DEF Gc!Indexed
    <3>2. m.idx[h] + 1 \in 1..n
      BY <3>1
    <3>. QED  BY <1>7, <3>2
  <2>. QED  BY <2>1, <2>2 DEF Gc!Indexed
<1>10. Gc!Sound([pairs |-> new, idx |-> m.idx])
  <2>1. new \in Seq(Gc!Pair)
    BY <1>8 DEF Pair, Gc!Pair
  <2>2. \A f, g \in DOMAIN new : new[f].key = new[g].key => f = g
    BY <1>1, <1>2, <1>7, <1>8, SoundMap
  <2>3. 2 * n <= Gc!IdxLen(m.idx)
    BY <1>1, <1>2, SoundMap
  <2>. QED  BY <1>8, <1>9, <2>1, <2>2, <2>3 DEF Gc!Sound
<1>. QED  BY <1>1, <1>2, <1>5, <1>6, <1>8, <1>10

\* Binding a new key adds a pair; its slot number goes to an empty slot of its walk.
LEMMA BoundNew ==
  ASSUME NEW m, Gc!Sound(m), NEW p \in Pair, 2 * (Len(m.pairs) + 1) <= Gc!IdxLen(m.idx),
         \A i \in DOMAIN m.pairs : m.pairs[i].key # p.key,
         NEW h \in DOMAIN m.idx, m.idx[h] = Gc!IDX_EMPTY, Gc!ComesTo(m.idx, p.key, h)
  PROVE  LET bound == Bound(m.pairs, p.key, p.val)
             placed == [m.idx EXCEPT ![h] = Len(m.pairs)]
         IN  /\ bound = Append(m.pairs, p)
             /\ Gc!Sound([pairs |-> bound, idx |-> placed])
             /\ Len(bound) = Len(m.pairs) + 1 /\ Gc!IdxLen(placed) = Gc!IdxLen(m.idx)
<1>1. PICK es \in Seq(Pair) : es = m.pairs
  BY SoundMap
<1>2. PICK n \in Nat : n = Len(es) /\ DOMAIN es = 1..n
  BY LenProperties
<1>3. p.key \in Key /\ p = [key |-> p.key, val |-> p.val]
  BY DEF Pair
<1>4. PICK new : new = Append(es, p)
  OBVIOUS
<1>5. Bound(es, p.key, p.val) = new
  BY <1>1, <1>3, <1>4 DEF Bound
<1>6. /\ new \in Seq(Pair) /\ Len(new) = n + 1 /\ DOMAIN new = 1..(n + 1)
      /\ new[n + 1] = p /\ \A i \in 1..n : new[i] = es[i]
  BY <1>2, <1>4, AppendProperties, LenProperties
<1>7. PICK placed : placed = [m.idx EXCEPT ![h] = n]
  OBVIOUS
<1>8. Gc!Indexed(new, n + 1, placed) /\ Gc!IdxLen(placed) = Gc!IdxLen(m.idx)
  <2>1. Gc!Indexed(es, n, m.idx)
    BY <1>1, <1>2, SoundMap
  <2>2. \A i \in 1..n : new[i].key = es[i].key /\ es[i].key \in Key
    BY <1>1, <1>2, <1>6, SoundMap
  <2>3. PICK k \in Key : k = p.key /\ new[n + 1].key = k /\ Gc!ComesTo(m.idx, k, h)
    BY <1>3, <1>6
  <2>. QED  BY <1>7, <2>1, <2>2, <2>3, PlaceSound
<1>9. \A i, j \in DOMAIN new : new[i].key = new[j].key => i = j
  <2>1. \A i \in 1..(n + 1) : i = n + 1 \/ i \in 1..n
    OBVIOUS
  <2>2. \A i, j \in 1..n : es[i].key = es[j].key => i = j
    BY <1>1, <1>2, SoundMap
  <2>3. \A i \in 1..n : es[i].key # p.key
    BY <1>1, <1>2
  <2>. QED  BY <1>6, <2>1, <2>2, <2>3
<1>10. Gc!Sound([pairs |-> new, idx |-> placed])
  <2>1. new \in Seq(Gc!Pair)
    BY <1>6 DEF Pair, Gc!Pair
  <2>2. 2 * (n + 1) <= Gc!IdxLen(placed)
    BY <1>1, <1>2, <1>8
  <2>. QED  BY <1>6, <1>8, <1>9, <2>1, <2>2 DEF Gc!Sound
<1>. QED  BY <1>1, <1>2, <1>4, <1>5, <1>6, <1>7, <1>8, <1>10

\* A sound map of an index of c slots is one of those.
LEMMA SoundIsMap ==
  ASSUME NEW pairs, NEW idx, Gc!Sound([pairs |-> pairs, idx |-> idx])
  PROVE  [pairs |-> pairs, idx |-> idx] \in GcMaps(Gc!IdxLen(idx))
<1>1. pairs \in Seq(Pair)
  BY DEF Gc!Sound, Gc!Pair, Pair
<1>2. PICK n : n = Len(pairs)
  OBVIOUS
<1>3. idx \in [0..(Gc!IdxLen(idx) - 1) -> {Gc!IDX_EMPTY} \cup 0..(n - 1)]
  BY <1>2 DEF Gc!Sound, Gc!Indexed
<1>4. n \in Nat
  BY <1>1, <1>2, LenProperties
<1>5. 0..(n - 1) \subseteq Nat
  BY <1>4
<1>6. idx \in [0..(Gc!IdxLen(idx) - 1) -> {Gc!IDX_EMPTY} \cup Nat]
  BY <1>3, <1>5
<1>. QED  BY <1>1, <1>6 DEF GcMaps

\* A pair is bound in a map with room.
LEMMA PutSound ==
  ASSUME NEW m, Gc!Sound(m), m \in GcMaps(Gc!IdxLen(m.idx)), NEW p \in Pair,
         2 * (Len(m.pairs) + 1) <= Gc!IdxLen(m.idx)
  PROVE  LET u == Gc!Put(m, p)
         IN  /\ Gc!Sound(u) /\ u \in GcMaps(Gc!IdxLen(m.idx))
             /\ Gc!IdxLen(u.idx) = Gc!IdxLen(m.idx)
             /\ Len(u.pairs) <= Len(m.pairs) + 1
             /\ u.pairs = Bound(m.pairs, p.key, p.val)
<1>1. m = [pairs |-> m.pairs, idx |-> m.idx]
  BY DEF GcMaps
<1>2. PICK k \in Key, v \in Value : p.key = k /\ p.val = v
  BY DEF Pair
<1>3. PICK at : at = Gc!Lookup(m, k)
  OBVIOUS
<1>4. /\ at.found # Gc!IDX_EMPTY => at.found + 1 \in DOMAIN m.pairs
                                    /\ m.pairs[at.found + 1].key = k
      /\ at.found = Gc!IDX_EMPTY =>
           /\ \A i \in DOMAIN m.pairs : m.pairs[i].key # k
           /\ at.h \in DOMAIN m.idx /\ m.idx[at.h] = Gc!IDX_EMPTY
           /\ Gc!ComesTo(m.idx, k, at.h)
  <2>1. PICK pairs \in Seq(Pair) : pairs = m.pairs
    BY SoundMap
  <2>2. PICK idx : idx = m.idx
    OBVIOUS
  <2>3. Gc!Indexed(pairs, Len(pairs), idx) /\ Len(pairs) < Gc!IdxLen(idx)
    BY <2>1, <2>2, SoundMap
  <2>4. at = Gc!Lookup([pairs |-> pairs, idx |-> idx], k)
    BY <1>1, <1>3, <2>1, <2>2
  <2>. QED  BY <2>1, <2>2, <2>3, <2>4, LookupSound
<1>5. PICK bound : bound = Bound(m.pairs, k, v)
  OBVIOUS
<1>6. CASE at.found # Gc!IDX_EMPTY
  <2>1. PICK i \in DOMAIN m.pairs : i = at.found + 1 /\ m.pairs[i].key = k
    BY <1>4, <1>6
  <2>2. /\ bound = [m.pairs EXCEPT ![i].val = v]
        /\ Gc!Sound([pairs |-> bound, idx |-> m.idx]) /\ Len(bound) = Len(m.pairs)
    BY <1>5, <2>1, BoundPresent
  <2>3. Gc!Put(m, p) = [m EXCEPT !.pairs[at.found + 1].val = v]
    BY <1>2, <1>3, <1>6 DEF Gc!Put
  <2>4. Gc!Put(m, p) = [pairs |-> bound, idx |-> m.idx]
    BY <1>1, <2>1, <2>2, <2>3
  <2>5. [pairs |-> bound, idx |-> m.idx] \in GcMaps(Gc!IdxLen(m.idx))
    BY <2>2, SoundIsMap
  <2>6. Len(bound) <= Len(m.pairs) + 1
    BY <2>2, SoundMap
  <2>. QED  BY <1>2, <1>5, <2>2, <2>4, <2>5, <2>6
<1>7. CASE at.found = Gc!IDX_EMPTY
  <2>1. PICK h \in DOMAIN m.idx :
          h = at.h /\ m.idx[h] = Gc!IDX_EMPTY /\ Gc!ComesTo(m.idx, p.key, h)
    BY <1>2, <1>4, <1>7
  <2>2. \A i \in DOMAIN m.pairs : m.pairs[i].key # p.key
    BY <1>2, <1>4, <1>7
  <2>3. PICK placed : placed = [m.idx EXCEPT ![h] = Len(m.pairs)]
    OBVIOUS
  <2>4. /\ bound = Append(m.pairs, p)
        /\ Gc!Sound([pairs |-> bound, idx |-> placed])
        /\ Len(bound) = Len(m.pairs) + 1 /\ Gc!IdxLen(placed) = Gc!IdxLen(m.idx)
    BY <1>2, <1>5, <2>1, <2>2, <2>3, BoundNew
  <2>5. Gc!Put(m, p) = [pairs |-> bound, idx |-> placed]
    BY <1>2, <1>3, <1>7, <2>1, <2>3, <2>4 DEF Gc!Put
  <2>6. [pairs |-> bound, idx |-> placed] \in GcMaps(Gc!IdxLen(placed))
    BY <2>4, SoundIsMap
  <2>7. Len(bound) <= Len(m.pairs) + 1
    BY <2>4, SoundMap
  <2>. QED  BY <1>2, <1>5, <2>4, <2>5, <2>6, <2>7
<1>. QED  BY <1>6, <1>7

\* f holds the maps of the pairs up to each, bound one after the other.
BoundsOf(pairs, f) ==
  f = [n \in 0..Len(pairs) |->
         IF n = 0 THEN <<>> ELSE Bound(f[n - 1], pairs[n].key, pairs[n].val)]

\* The pairs of a map literal or a builder, put one after the other, make a sound map,
\* of the pairs that binding them one after the other gives.
LEMMA ReplaySound ==
  ASSUME NEW pairs \in Seq(Pair)
  PROVE  LET u == Gc!Replay(pairs)
         IN  /\ Gc!Sound(u) /\ u = [pairs |-> u.pairs, idx |-> u.idx]
             /\ \A f : BoundsOf(pairs, f) => u.pairs = f[Len(pairs)]
<1>1. PICK N \in Nat : N = Len(pairs) /\ \A n \in 1..N : pairs[n] \in Pair
  BY LenProperties, ElementOfSeq
<1>2. PICK c \in Nat \ {0} : c = Gc!IdxLenFor(N) /\ 2 * N <= c
  BY IdxLenForSound
<1>3. PICK empty : empty = [pairs |-> <<>>, idx |-> Gc!NewIdx(c)]
  OBVIOUS
<1>. DEFINE Built(n, u) == /\ Gc!Sound(u) /\ Gc!IdxLen(u.idx) = c
                           /\ Len(u.pairs) <= n
<1>4. empty \in GcMaps(c) /\ Built(0, empty)
  <2>1. PICK idx : idx = Gc!NewIdx(c)
    OBVIOUS
  <2>2. Gc!Indexed(<<>>, 0, idx) /\ Gc!IdxLen(idx) = c
    BY <2>1, NewIdxSound
  <2>3. <<>> \in Seq(Gc!Pair) /\ Len(<<>>) = 0 /\ DOMAIN <<>> = {}
    BY EmptySeq
  <2>4. 2 * 0 <= c
    OBVIOUS
  <2>5. Gc!Sound([pairs |-> <<>>, idx |-> idx])
    BY <2>2, <2>3, <2>4 DEF Gc!Sound
  <2>6. [pairs |-> <<>>, idx |-> idx] \in GcMaps(c)
    BY <2>2, <2>5, SoundIsMap
  <2>. QED  BY <1>3, <2>1, <2>2, <2>3, <2>5, <2>6
<1>5. ASSUME NEW n \in 1..N, NEW u \in GcMaps(c), Built(n - 1, u)
      PROVE  /\ Gc!Put(u, pairs[n]) \in GcMaps(c) /\ Built(n, Gc!Put(u, pairs[n]))
             /\ Gc!Put(u, pairs[n]).pairs = Bound(u.pairs, pairs[n].key, pairs[n].val)
  <2>1. Len(u.pairs) \in Nat
    BY <1>5, SoundMap
  <2>2. 2 * (Len(u.pairs) + 1) <= Gc!IdxLen(u.idx)
    BY <1>2, <1>5, <2>1
  <2>3. PICK w : w = Gc!Put(u, pairs[n])
    OBVIOUS
  <2>4. /\ Gc!Sound(w) /\ w \in GcMaps(c) /\ Gc!IdxLen(w.idx) = c
        /\ Len(w.pairs) <= Len(u.pairs) + 1
        /\ w.pairs = Bound(u.pairs, pairs[n].key, pairs[n].val)
    BY <1>1, <1>5, <2>2, <2>3, PutSound
  <2>5. Len(w.pairs) <= n
    <3>1. Len(w.pairs) \in Nat
      BY <2>4, SoundMap
    <3>. QED  BY <1>5, <2>1, <2>4, <3>1
  <2>. QED  BY <2>3, <2>4, <2>5
<1>. DEFINE replayed[n \in 0..Len(pairs)] ==
              IF n = 0 THEN [pairs |-> <<>>, idx |-> Gc!NewIdx(Gc!IdxLenFor(Len(pairs)))]
              ELSE Gc!Put(replayed[n - 1], pairs[n])
<1>6. replayed = [n \in 0..N |-> IF n = 0 THEN empty ELSE Gc!Put(replayed[n - 1], pairs[n])]
  <2>1. PICK Good : Good = [n \in 0..N |-> {u \in GcMaps(c) : Built(n, u)}]
    OBVIOUS
  <2>2. PICK G : G = [n \in 1..N |-> [u \in Good[n - 1] |-> Gc!Put(u, pairs[n])]]
    OBVIOUS
  <2>. HIDE DEF Built
  <2>3. \A n \in 1..N : n \in 0..N /\ n - 1 \in 0..N
    OBVIOUS
  <2>4. PICK first \in Good[0] : first = empty
    BY <1>4, <2>1
  <2>5. \A n \in 1..N : \A u \in Good[n - 1] : G[n][u] = Gc!Put(u, pairs[n])
    BY <2>2
  <2>6. \A n \in 1..N : \A u \in Good[n - 1] : G[n][u] \in Good[n]
    BY <1>5, <2>1, <2>3, <2>5
  <2>7. PICK f : Unfolds(N, first, G, Good, f)
    <3>1. StepsKeep(N, G, Good)
      BY <2>6 DEF StepsKeep
    <3>. QED  BY <3>1, RecursionSound
  <2>8. \A n \in 0..N : n # 0 => n \in 1..N /\ n - 1 \in 0..N
    OBVIOUS
  <2>9. f = [n \in 0..N |-> IF n = 0 THEN empty ELSE Gc!Put(f[n - 1], pairs[n])]
    BY <2>4, <2>5, <2>7, <2>8 DEF Unfolds
  <2>10. f = [n \in 0..Len(pairs) |->
                IF n = 0 THEN [pairs |-> <<>>, idx |-> Gc!NewIdx(Gc!IdxLenFor(Len(pairs)))]
                ELSE Gc!Put(f[n - 1], pairs[n])]
    BY <1>1, <1>2, <1>3, <2>9
  <2>11. replayed = [n \in 0..Len(pairs) |->
                       IF n = 0
                       THEN [pairs |-> <<>>, idx |-> Gc!NewIdx(Gc!IdxLenFor(Len(pairs)))]
                       ELSE Gc!Put(replayed[n - 1], pairs[n])]
    BY <2>10
  <2>. HIDE DEF replayed
  <2>. QED  BY <1>1, <1>2, <1>3, <2>11
<1>7. Gc!Replay(pairs) = replayed[N]
  BY <1>1 DEF Gc!Replay
<1>. HIDE DEF Built, replayed
<1>8. \A n \in 1..N : n \in 0..N /\ n # 0 /\ n - 1 \in 0..N
  OBVIOUS
<1>9. \A n \in 0..N : replayed[n] \in GcMaps(c) /\ Built(n, replayed[n])
  <2>1. PICK S : S = {n \in 0..N : replayed[n] \in GcMaps(c) /\ Built(n, replayed[n])}
    OBVIOUS
  <2>2. 0 \in S
    BY <1>4, <1>6, <2>1
  <2>3. \A n \in 1..N : n - 1 \in S => n \in S
    BY <1>5, <1>6, <1>8, <2>1
  <2>4. \A n \in 0..N : n \in S
    BY <2>2, <2>3, Counting
  <2>. QED  BY <2>1, <2>4
<1>10. ASSUME NEW f, BoundsOf(pairs, f) PROVE replayed[N].pairs = f[N]
  <2>1. f = [n \in 0..N |-> IF n = 0 THEN <<>>
                            ELSE Bound(f[n - 1], pairs[n].key, pairs[n].val)]
    BY <1>1, <1>10 DEF BoundsOf
  <2>2. PICK S : S = {n \in 0..N : replayed[n].pairs = f[n]}
    OBVIOUS
  <2>3. 0 \in S
    BY <1>3, <1>6, <2>1, <2>2
  <2>4. ASSUME NEW n \in 1..N, n - 1 \in S PROVE n \in S
    <3>1. f[n] = Bound(f[n - 1], pairs[n].key, pairs[n].val)
      BY <1>8, <2>1
    <3>2. replayed[n] = Gc!Put(replayed[n - 1], pairs[n])
      BY <1>6, <1>8
    <3>3. replayed[n].pairs = Bound(replayed[n - 1].pairs, pairs[n].key, pairs[n].val)
      BY <1>5, <1>8, <1>9, <3>2
    <3>4. replayed[n - 1].pairs = f[n - 1]
      BY <2>2, <2>4
    <3>. QED  BY <1>8, <2>2, <3>1, <3>3, <3>4
  <2>5. \A n \in 0..N : n \in S
    BY <2>3, <2>4, Counting
  <2>. QED  BY <2>2, <2>5
<1>11. Gc!Sound(replayed[N]) /\ replayed[N] \in GcMaps(c)
  BY <1>9 DEF Built
<1>12. replayed[N] = [pairs |-> replayed[N].pairs, idx |-> replayed[N].idx]
  BY <1>11 DEF GcMaps
<1>. QED  BY <1>1, <1>7, <1>10, <1>11, <1>12

\* The pairs of other keys, when the key is in at most one: all of them, or all but that.
LEMMA WithoutSound ==
  ASSUME NEW es \in Seq(Pair), NEW k,
         \A i, j \in DOMAIN es : es[i].key = es[j].key => i = j
  PROVE  /\ (\A i \in DOMAIN es : es[i].key # k) => Gc!Without(es, k) = es
         /\ \A i \in DOMAIN es : es[i].key = k => Gc!Without(es, k) = RemoveAt(es, i)
<1>1. PICK N \in Nat : N = Len(es) /\ DOMAIN es = 1..N /\ \A n \in 1..N : es[n] \in Pair
  BY LenProperties, ElementOfSeq
<1>2. PICK i \in 1..(N + 1) : \A n \in 1..N : es[n].key = k <=> n = i
  <2>1. CASE \A n \in 1..N : es[n].key # k
    <3>1. N + 1 \in 1..(N + 1) /\ \A n \in 1..N : n # N + 1
      OBVIOUS
    <3>. QED  BY <2>1, <3>1
  <2>2. ASSUME NEW n \in 1..N, es[n].key = k
        PROVE  \E x \in 1..(N + 1) : \A m \in 1..N : es[m].key = k <=> m = x
    <3>1. n \in 1..(N + 1)
      OBVIOUS
    <3>. QED  BY <1>1, <2>2, <3>1
  <2>. QED  BY <2>1, <2>2
<1>. DEFINE Size(n) == IF n < i THEN n ELSE n - 1
            Left(n) == [j \in 1..Size(n) |-> IF j < i THEN es[j] ELSE es[j + 1]]
            Step(n, s) == IF es[n].key = k THEN s ELSE Append(s, es[n])
<1>3. \A n \in 0..N : Size(n) \in Nat /\ \A j \in 1..Size(n) : (IF j < i THEN es[j] ELSE es[j + 1]) \in Pair
  <2>1. ASSUME NEW n \in 0..N, NEW j \in 1..Size(n)
        PROVE  (IF j < i THEN es[j] ELSE es[j + 1]) \in Pair
    <3>1. CASE j < i
      <4>1. j \in 1..N
        BY <2>1
      <4>. QED  BY <1>1, <3>1, <4>1
    <3>2. CASE ~(j < i)
      <4>1. j + 1 \in 1..N
        BY <2>1, <3>2
      <4>. QED  BY <1>1, <3>2, <4>1
    <3>. QED  BY <3>1, <3>2
  <2>. QED  BY <2>1
<1>4. \A n \in 0..N : Left(n) \in Seq(Pair) /\ Len(Left(n)) = Size(n)
  <2>. HIDE DEF Size
  <2>. QED  BY <1>3, IsASeq, LenProperties
<1>5. Left(0) = <<>>
  BY <1>4, EmptySeq
<1>6. ASSUME NEW n \in 1..N PROVE Step(n, Left(n - 1)) = Left(n)
  <2>1. CASE n = i
    <3>1. Size(n) = Size(n - 1)
      BY <2>1
    <3>. QED  BY <1>2, <2>1, <3>1
  <2>2. CASE n # i
    <3>1. PICK s \in Seq(Pair) : s = Left(n - 1)
      <4>1. n - 1 \in 0..N
        OBVIOUS
      <4>. QED  BY <1>4, <4>1
    <3>2. PICK z \in Nat : z = Size(n - 1) /\ Size(n) = z + 1 /\ Len(s) = z
      <4>1. n - 1 \in 0..N /\ Size(n) = Size(n - 1) + 1 /\ Size(n - 1) \in Nat
        BY <2>2
      <4>. QED  BY <1>4, <3>1, <4>1
    <3>3. (IF z + 1 < i THEN es[z + 1] ELSE es[z + 1 + 1]) = es[n]
      BY <2>2, <3>2
    <3>4. PICK new : new = Append(s, es[n])
      OBVIOUS
    <3>5. /\ new \in Seq(Pair) /\ Len(new) = z + 1 /\ new[z + 1] = es[n]
          /\ \A j \in 1..z : new[j] = s[j]
      BY <1>1, <3>2, <3>4, AppendProperties
    <3>6. ASSUME NEW j \in 1..(z + 1)
          PROVE  new[j] = IF j < i THEN es[j] ELSE es[j + 1]
      <4>1. CASE j = z + 1
        BY <3>3, <3>5, <4>1
      <4>2. CASE j # z + 1
        <5>1. j \in 1..z
          BY <4>2
        <5>2. s[j] = IF j < i THEN es[j] ELSE es[j + 1]
          BY <3>1, <3>2, <5>1
        <5>. QED  BY <3>5, <5>1, <5>2
      <4>. QED  BY <4>1, <4>2
    <3>7. new = [j \in 1..(z + 1) |-> IF j < i THEN es[j] ELSE es[j + 1]]
      <4>1. new = [j \in 1..(z + 1) |-> new[j]]
        BY <3>5, LenProperties
      <4>. QED  BY <3>6, <4>1
    <3>. QED  BY <1>2, <2>2, <3>1, <3>2, <3>4, <3>7
  <2>. QED  BY <2>1, <2>2
<1>. DEFINE kept[n \in 0..Len(es)] ==
              IF n = 0 THEN <<>>
              ELSE IF es[n].key = k THEN kept[n - 1] ELSE Append(kept[n - 1], es[n])
<1>7. kept = [n \in 0..N |-> IF n = 0 THEN <<>> ELSE Step(n, kept[n - 1])]
  <2>1. PICK f : f = [n \in 0..N |-> Left(n)]
    OBVIOUS
  <2>2. ASSUME NEW n \in 0..N PROVE f[n] = IF n = 0 THEN <<>> ELSE Step(n, f[n - 1])
    <3>1. CASE n = 0
      BY <1>5, <2>1, <3>1
    <3>2. CASE n # 0
      <4>1. n \in 1..N /\ n - 1 \in 0..N
        BY <3>2
      <4>. HIDE DEF Left, Step
      <4>. QED  BY <1>6, <2>1, <3>2, <4>1
    <3>. QED  BY <3>1, <3>2
  <2>3. f = [n \in 0..N |-> IF n = 0 THEN <<>> ELSE Step(n, f[n - 1])]
    <3>1. f = [n \in 0..N |-> f[n]]
      BY <2>1
    <3>. HIDE DEF Left, Step
    <3>. QED  BY <2>2, <3>1
  <2>4. f = [n \in 0..Len(es) |->
               IF n = 0 THEN <<>>
               ELSE IF es[n].key = k THEN f[n - 1] ELSE Append(f[n - 1], es[n])]
    BY <1>1, <2>3
  <2>5. kept = [n \in 0..Len(es) |->
                  IF n = 0 THEN <<>>
                  ELSE IF es[n].key = k THEN kept[n - 1] ELSE Append(kept[n - 1], es[n])]
    BY <2>4
  <2>. HIDE DEF kept
  <2>. QED  BY <1>1, <2>5
<1>8. Gc!Without(es, k) = kept[N]
  BY <1>1 DEF Gc!Without
<1>9. kept[N] = Left(N)
  <2>. HIDE DEF kept, Left, Step
  <2>1. PICK S : S = {n \in 0..N : kept[n] = Left(n)}
    OBVIOUS
  <2>2. 0 \in S
    BY <1>5, <1>7, <2>1
  <2>3. \A n \in 1..N : n - 1 \in S => n \in S
    <3>1. \A n \in 1..N : n \in 0..N /\ n # 0 /\ n - 1 \in 0..N
      OBVIOUS
    <3>. QED  BY <1>6, <1>7, <2>1, <3>1
  <2>4. \A n \in 0..N : n \in S
    BY <2>2, <2>3, Counting
  <2>5. N \in 0..N
    OBVIOUS
  <2>. QED  BY <2>1, <2>4, <2>5
<1>10. ASSUME \A j \in DOMAIN es : es[j].key # k PROVE Gc!Without(es, k) = es
  <2>1. i = N + 1
    BY <1>1, <1>2, <1>10
  <2>2. Size(N) = N /\ \A j \in 1..N : j < i
    BY <2>1
  <2>3. Left(N) = [j \in 1..N |-> es[j]]
    BY <2>2
  <2>. QED  BY <1>1, <1>8, <1>9, <2>3, LenProperties
<1>11. ASSUME NEW x \in DOMAIN es, es[x].key = k PROVE Gc!Without(es, k) = RemoveAt(es, x)
  <2>1. x = i
    BY <1>1, <1>2, <1>11
  <2>2. Size(N) = N - 1
    BY <1>1, <2>1
  <2>3. Left(N) = [j \in 1..(N - 1) |-> IF j < x THEN es[j] ELSE es[j + 1]]
    BY <2>1, <2>2
  <2>4. RemoveAt(es, x) = [j \in 1..(N - 1) |-> IF j < x THEN es[j] ELSE es[j + 1]]
    BY <1>1, RemoveAtElements
  <2>. HIDE DEF Left, kept
  <2>. QED  BY <1>8, <1>9, <2>3, <2>4
<1>. QED  BY <1>10, <1>11

DistinctKeys(pairs) ==
  \A i, j \in DOMAIN pairs : pairs[i].key = pairs[j].key => i = j

\* Pairs of distinct keys, with an index that is built anew, are a sound map.
LEMMA RebuiltSound ==
  ASSUME NEW pairs \in Seq(Pair), DistinctKeys(pairs),
         NEW c \in Nat \ {0}, 2 * Len(pairs) <= c
  PROVE  /\ Gc!Sound([pairs |-> pairs, idx |-> Gc!BuildIdx(pairs, c)])
         /\ Gc!IdxLen(Gc!BuildIdx(pairs, c)) = c
<1>1. Len(pairs) < c
  BY LenProperties
<1>2. PICK idx : idx = Gc!BuildIdx(pairs, c)
  OBVIOUS
<1>3. Gc!Indexed(pairs, Len(pairs), idx) /\ Gc!IdxLen(idx) = c
  BY <1>1, <1>2, BuildIdxSound
<1>4. pairs \in Seq(Gc!Pair)
  BY DEF Pair, Gc!Pair
<1>5. Gc!Sound([pairs |-> pairs, idx |-> idx])
  BY <1>3, <1>4 DEF Gc!Sound, DistinctKeys
<1>. QED  BY <1>2, <1>3, <1>5

\* What the invariant says of the map.
LEMMA MapSound ==
  ASSUME Gc!IInv
  PROVE  /\ gcPairs \in Seq(Pair) /\ Len(gcPairs) \in Nat /\ DistinctKeys(gcPairs)
         /\ Gc!Sound([pairs |-> gcPairs, idx |-> gcIdx])
<1>1. PICK m : m = [pairs |-> gcPairs, idx |-> gcIdx] /\ Gc!Sound(m)
  BY DEF Gc!IInv
<1>2. m.pairs = gcPairs
  BY <1>1
<1>. QED  BY <1>1, <1>2, SoundMap DEF DistinctKeys

LEMMA MapSetSound ==
  ASSUME Gc!IInv, NEW k \in Key, NEW v \in Value, Gc!MapSet(k, v)
  PROVE  Gc!IInv' /\ gcPairs' = Bound(gcPairs, k, v)
<1>1. PICK pairs \in Seq(Pair) : pairs = gcPairs /\ DistinctKeys(pairs)
  BY MapSound
<1>2. Len(pairs) + 1 \in Nat /\ Len(pairs) \in Nat
  BY LenProperties
<1>3. PICK c \in Nat \ {0} : c = Gc!IdxLenFor(Len(pairs) + 1) /\ 2 * (Len(pairs) + 1) <= c
  BY <1>2, IdxLenForSound
<1>4. PICK idx : idx = Gc!BuildIdx(pairs, c)
  OBVIOUS
<1>5. PICK m : m = [pairs |-> pairs, idx |-> idx]
  OBVIOUS
<1>6. Gc!Sound(m) /\ Gc!IdxLen(m.idx) = c /\ m.pairs = pairs /\ m.idx = idx
  <2>1. 2 * Len(pairs) <= c
    BY <1>2, <1>3
  <2>. QED  BY <1>1, <1>4, <1>5, <2>1, RebuiltSound
<1>7. m \in GcMaps(Gc!IdxLen(m.idx))
  BY <1>5, <1>6, SoundIsMap
<1>8. PICK p \in Pair : p = [key |-> k, val |-> v] /\ p.key = k /\ p.val = v
  <2>1. [key |-> k, val |-> v] \in Pair
    BY DEF Pair
  <2>. QED  BY <2>1
<1>9. PICK u : u = Gc!Put(m, p)
  OBVIOUS
<1>10. 2 * (Len(m.pairs) + 1) <= Gc!IdxLen(m.idx)
  BY <1>3, <1>6
<1>11. Gc!Sound(u) /\ u \in GcMaps(Gc!IdxLen(m.idx)) /\ u.pairs = Bound(pairs, k, v)
  BY <1>6, <1>7, <1>8, <1>9, <1>10, PutSound
<1>12. gcPairs' = u.pairs /\ gcIdx' = u.idx /\ gcBuilder' = gcBuilder
  BY <1>1, <1>3, <1>4, <1>5, <1>8, <1>9 DEF Gc!MapSet, Gc!Becomes
<1>13. u = [pairs |-> u.pairs, idx |-> u.idx]
  BY <1>11 DEF GcMaps
<1>14. Gc!IInv'
  BY <1>11, <1>12, <1>13 DEF Gc!IInv
<1>. QED  BY <1>1, <1>11, <1>12, <1>14

LEMMA MapRemoveSound ==
  ASSUME Gc!IInv, NEW k \in Key, Gc!MapRemove(k)
  PROVE  Gc!IInv' /\ gcPairs' = Gc!Without(gcPairs, k)
<1>1. PICK pairs \in Seq(Pair) : pairs = gcPairs /\ DistinctKeys(pairs)
  BY MapSound
<1>2. PICK rest : rest = Gc!Without(pairs, k)
  OBVIOUS
<1>3. rest \in Seq(Pair) /\ DistinctKeys(rest)
  <2>1. \A i, j \in DOMAIN pairs : pairs[i].key = pairs[j].key => i = j
    BY <1>1 DEF DistinctKeys
  <2>2. ASSUME NEW i \in DOMAIN pairs, pairs[i].key = k
        PROVE  rest \in Seq(Pair) /\ DistinctKeys(rest)
    <3>1. rest = RemoveAt(pairs, i)
      BY <1>2, <2>1, <2>2, WithoutSound
    <3>2. PICK n \in Nat : n = Len(pairs) /\ DOMAIN pairs = 1..n /\ i \in 1..n
      BY LenProperties
    <3>3. rest \in Seq(Pair)
      BY <3>1, RemoveAtSound
    <3>4. rest = [j \in 1..(n - 1) |-> IF j < i THEN pairs[j] ELSE pairs[j + 1]]
      BY <3>1, <3>2, RemoveAtElements
    <3>5. ASSUME NEW f \in 1..(n - 1), NEW g \in 1..(n - 1), rest[f].key = rest[g].key
          PROVE  f = g
      <4>1. PICK x \in 1..n : x = (IF f < i THEN f ELSE f + 1) /\ rest[f] = pairs[x]
        BY <3>4
      <4>2. PICK y \in 1..n : y = (IF g < i THEN g ELSE g + 1) /\ rest[g] = pairs[y]
        BY <3>4
      <4>3. x = y
        BY <2>1, <3>2, <3>5, <4>1, <4>2
      <4>. QED  BY <3>2, <4>1, <4>2, <4>3
    <3>6. DOMAIN rest = 1..(n - 1)
      BY <3>4
    <3>. QED  BY <3>3, <3>5, <3>6 DEF DistinctKeys
  <2>3. CASE \A i \in DOMAIN pairs : pairs[i].key # k
    BY <1>1, <1>2, <2>1, <2>3, WithoutSound
  <2>. QED  BY <2>2, <2>3
<1>4. PICK n \in Nat : n = Len(rest)
  BY <1>3, LenProperties
<1>5. PICK c \in Nat \ {0} : c = Gc!IdxLenFor(n) /\ 2 * n <= c
  BY IdxLenForSound
<1>6. PICK idx : idx = Gc!BuildIdx(rest, c)
  OBVIOUS
<1>7. Gc!Sound([pairs |-> rest, idx |-> idx])
  BY <1>3, <1>4, <1>5, <1>6, RebuiltSound
<1>8. gcPairs' = rest /\ gcIdx' = idx /\ gcBuilder' = gcBuilder
  BY <1>1, <1>2, <1>4, <1>5, <1>6 DEF Gc!MapRemove, Gc!Becomes
<1>9. Gc!IInv'
  BY <1>7, <1>8 DEF Gc!IInv
<1>. QED  BY <1>1, <1>2, <1>8, <1>9

LEMMA ReplayedSound ==
  ASSUME NEW pairs \in Seq(Pair), Gc!Becomes(Gc!Replay(pairs))
  PROVE  /\ Gc!Sound([pairs |-> gcPairs', idx |-> gcIdx'])
         /\ \A f : BoundsOf(pairs, f) => gcPairs' = f[Len(pairs)]
<1>1. PICK u : u = Gc!Replay(pairs)
  OBVIOUS
<1>2. Gc!Sound(u) /\ u = [pairs |-> u.pairs, idx |-> u.idx]
      /\ \A f : BoundsOf(pairs, f) => u.pairs = f[Len(pairs)]
  BY <1>1, ReplaySound
<1>3. gcPairs' = u.pairs /\ gcIdx' = u.idx
  BY <1>1 DEF Gc!Becomes
<1>. QED  BY <1>2, <1>3

LEMMA GcInitSound ==
  ASSUME NEW pairs \in Seq(Pair), Gc!InitFrom(pairs)
  PROVE  /\ Gc!IInv /\ \A f : BoundsOf(pairs, f) => gcPairs = f[Len(pairs)]
         /\ gcBuilder.pairs = <<>> /\ GcStatus = "none"
<1>1. PICK u : u = Gc!Replay(pairs)
  OBVIOUS
<1>2. Gc!Sound(u) /\ u = [pairs |-> u.pairs, idx |-> u.idx]
      /\ \A f : BoundsOf(pairs, f) => u.pairs = f[Len(pairs)]
  BY <1>1, ReplaySound
<1>3. gcPairs = u.pairs /\ gcIdx = u.idx
      /\ gcBuilder = [pairs |-> <<>>, capacity |-> 0, frozen |-> FALSE]
  BY <1>1 DEF Gc!InitFrom, Gc!NoBuilder
<1>4. gcBuilder \in [pairs : Seq(Gc!Pair), capacity : Nat, frozen : BOOLEAN]
      /\ Len(gcBuilder.pairs) <= gcBuilder.capacity
  BY <1>3, EmptySeq
<1>. QED  BY <1>2, <1>3, <1>4 DEF Gc!IInv, GcStatus

LEMMA GcBuilderSetSound ==
  ASSUME Gc!IInv, NEW k \in Key, NEW v \in Value, Gc!BuilderSet(k, v), GcStatus = "open"
  PROVE  /\ Gc!IInv' /\ GcStatus' = "open"
         /\ gcBuilder'.pairs = Append(gcBuilder.pairs, [key |-> k, val |-> v])
<1>1. /\ gcPairs' = gcPairs /\ gcIdx' = gcIdx
      /\ gcBuilder' = [gcBuilder EXCEPT
                         !.pairs = Append(gcBuilder.pairs, [key |-> k, val |-> v]),
                         !.capacity = IF Len(gcBuilder.pairs) = gcBuilder.capacity
                                      THEN 2 * gcBuilder.capacity ELSE gcBuilder.capacity]
  BY DEF Gc!BuilderSet
<1>2. /\ gcBuilder \in [pairs : Seq(Gc!Pair), capacity : Nat, frozen : BOOLEAN]
      /\ Len(gcBuilder.pairs) <= gcBuilder.capacity
      /\ ~gcBuilder.frozen /\ gcBuilder.capacity > 0
  BY DEF Gc!IInv, Gc!BuilderSet, GcStatus
<1>3. PICK pairs \in Seq(Gc!Pair) : pairs = gcBuilder.pairs
  BY <1>2
<1>4. PICK c \in Nat : c = gcBuilder.capacity /\ c > 0 /\ Len(pairs) <= c
  BY <1>2, <1>3
<1>5. PICK new : new = Append(pairs, [key |-> k, val |-> v])
  OBVIOUS
<1>6. new \in Seq(Gc!Pair) /\ Len(new) = Len(pairs) + 1 /\ Len(pairs) \in Nat
  <2>1. [key |-> k, val |-> v] \in Gc!Pair
    BY DEF Gc!Pair
  <2>. QED  BY <1>5, <2>1, AppendProperties, LenProperties
<1>7. PICK d \in Nat : d = (IF Len(pairs) = c THEN 2 * c ELSE c) /\ Len(new) <= d /\ d > 0
  BY <1>4, <1>6
<1>8. gcBuilder' = [gcBuilder EXCEPT !.pairs = new, !.capacity = d]
  BY <1>1, <1>3, <1>4, <1>5, <1>7
<1>9. /\ gcBuilder' \in [pairs : Seq(Gc!Pair), capacity : Nat, frozen : BOOLEAN]
      /\ gcBuilder'.pairs = new /\ gcBuilder'.capacity = d /\ ~gcBuilder'.frozen
  BY <1>2, <1>6, <1>8
<1>10. Gc!IInv'
  BY <1>1, <1>7, <1>9 DEF Gc!IInv
<1>11. GcStatus' = "open"
  BY <1>7, <1>9 DEF GcStatus
<1>. QED  BY <1>3, <1>5, <1>9, <1>10, <1>11

LEMMA GcBuilderAllocSound ==
  ASSUME Gc!IInv, Gc!BuilderAlloc
  PROVE  Gc!IInv' /\ GcStatus' = "open" /\ gcBuilder'.pairs = <<>>
<1>1. /\ gcPairs' = gcPairs /\ gcIdx' = gcIdx
      /\ gcBuilder' = [pairs |-> <<>>, capacity |-> InitialArray, frozen |-> FALSE]
  BY DEF Gc!BuilderAlloc, Gc!NoBuilder
<1>2. gcBuilder' \in [pairs : Seq(Gc!Pair), capacity : Nat, frozen : BOOLEAN]
      /\ Len(gcBuilder'.pairs) <= gcBuilder'.capacity
  BY <1>1, GcAssumption, EmptySeq
<1>. QED  BY <1>1, <1>2, GcAssumption DEF Gc!IInv, GcStatus

LEMMA GcBuilderFreezeSound ==
  ASSUME Gc!IInv, Gc!BuilderFreeze
  PROVE  /\ Gc!IInv' /\ GcStatus' = "frozen" /\ gcBuilder'.pairs = gcBuilder.pairs
         /\ gcBuilder.pairs \in Seq(Pair)
         /\ \A f : BoundsOf(gcBuilder.pairs, f) => gcPairs' = f[Len(gcBuilder.pairs)]
<1>1. PICK pairs \in Seq(Pair) : pairs = gcBuilder.pairs
  BY DEF Gc!IInv, Gc!Pair, Pair
<1>2. gcBuilder' = [gcBuilder EXCEPT !.frozen = TRUE] /\ Gc!Becomes(Gc!Replay(pairs))
  BY <1>1 DEF Gc!BuilderFreeze
<1>3. /\ gcBuilder' \in [pairs : Seq(Gc!Pair), capacity : Nat, frozen : BOOLEAN]
      /\ gcBuilder'.pairs = pairs /\ gcBuilder'.capacity = gcBuilder.capacity
      /\ gcBuilder'.frozen /\ Len(pairs) <= gcBuilder.capacity
  BY <1>1, <1>2 DEF Gc!IInv
<1>4. /\ Gc!Sound([pairs |-> gcPairs', idx |-> gcIdx'])
      /\ \A f : BoundsOf(pairs, f) => gcPairs' = f[Len(pairs)]
  BY <1>2, ReplayedSound
<1>. QED  BY <1>1, <1>3, <1>4 DEF Gc!IInv, GcStatus

LEMMA GcBuilderDropSound ==
  ASSUME Gc!IInv, Gc!BuilderDrop
  PROVE  Gc!IInv' /\ GcStatus' = "none" /\ gcBuilder'.pairs = <<>>
<1>1. /\ gcPairs' = gcPairs /\ gcIdx' = gcIdx
      /\ gcBuilder' = [pairs |-> <<>>, capacity |-> 0, frozen |-> FALSE]
  BY DEF Gc!BuilderDrop, Gc!NoBuilder
<1>2. gcBuilder' \in [pairs : Seq(Gc!Pair), capacity : Nat, frozen : BOOLEAN]
      /\ Len(gcBuilder'.pairs) <= gcBuilder'.capacity
  BY <1>1, EmptySeq
<1>. QED  BY <1>1, <1>2 DEF Gc!IInv, GcStatus

LEMMA GcUnchanged ==
  ASSUME Gc!IInv, UNCHANGED gcVars
  PROVE  Gc!IInv' /\ GcStatus' = GcStatus /\ gcBuilder' = gcBuilder /\ gcPairs' = gcPairs
  BY DEF gcVars, Gc!IInv, GcStatus

\* The native builder's pairs are what its buffer holds.
LEMMA ItemsSound ==
  ASSUME B!IInv
  PROVE  /\ ~handle.allocated => B!Items = <<>> /\ B!Status = "none"
         /\ handle.allocated => B!Items = buffers[handle.data] /\ B!Items \in Seq(Pair)
         /\ B!Items \in Seq(Pair)
         /\ handle.allocated /\ (call.op # "none" \/ ~handle.frozen) => B!Status = "open"
         /\ handle.allocated /\ call.op = "none" /\ handle.frozen => B!Status = "frozen"
<1>1. ASSUME handle.allocated
      PROVE  B!Items = buffers[handle.data] /\ B!Items \in Seq(Pair)
  <2>1. PICK s \in Seq(Pair) : s = buffers[handle.data] /\ Len(s) = handle.length
    BY <1>1 DEF B!IInv, B!BuilderIntact, B!Pair, Pair
  <2>2. SubSeq(s, 1, Len(s)) = s
    BY SubSeqFull
  <2>. QED  BY <1>1, <2>1, <2>2 DEF B!Items
<1>2. <<>> \in Seq(Pair)
  BY EmptySeq
<1>3. ~handle.allocated => B!Items = <<>>
  BY DEF B!Items
<1>4. ~handle.allocated => B!Status = "none"
  BY DEF B!Status
<1>5. handle.allocated /\ (call.op # "none" \/ ~handle.frozen) => B!Status = "open"
  BY DEF B!Status
<1>6. handle.allocated /\ call.op = "none" /\ handle.frozen => B!Status = "frozen"
  BY DEF B!Status
<1>. QED  BY <1>1, <1>2, <1>3, <1>4, <1>5, <1>6

\* The same of the next state.
LEMMA ItemsSoundNext ==
  ASSUME B!IInv'
  PROVE  /\ ~handle'.allocated => B!Items' = <<>> /\ B!Status' = "none"
         /\ handle'.allocated => B!Items' = buffers'[handle'.data] /\ B!Items' \in Seq(Pair)
         /\ handle'.allocated /\ (call'.op # "none" \/ ~handle'.frozen) => B!Status' = "open"
         /\ handle'.allocated /\ call'.op = "none" /\ handle'.frozen => B!Status' = "frozen"
<1>1. ASSUME handle'.allocated
      PROVE  B!Items' = buffers'[handle'.data] /\ B!Items' \in Seq(Pair)
  <2>1. PICK s \in Seq(Pair) : s = buffers'[handle'.data] /\ Len(s) = handle'.length
    BY <1>1 DEF B!IInv, B!BuilderIntact, B!Pair, Pair
  <2>2. SubSeq(s, 1, Len(s)) = s
    BY SubSeqFull
  <2>. QED  BY <1>1, <2>1, <2>2 DEF B!Items
<1>3. ~handle'.allocated => B!Items' = <<>>
  BY DEF B!Items
<1>4. ~handle'.allocated => B!Status' = "none"
  BY DEF B!Status
<1>5. handle'.allocated /\ (call'.op # "none" \/ ~handle'.frozen) => B!Status' = "open"
  BY DEF B!Status
<1>6. handle'.allocated /\ call'.op = "none" /\ handle'.frozen => B!Status' = "frozen"
  BY DEF B!Status
<1>. QED  BY <1>1, <1>3, <1>4, <1>5, <1>6

-----------------------------------------------------------------------------
(* What each step of a native call adds to the builder.                    *)

BuilderStays == B!Items' = B!Items /\ B!Status' = B!Status

LEMMA AllocTheBufferStays ==
  ASSUME B!IInv, NEW b \in Buffer, B!AllocTheBuffer(b)
  PROVE  BuilderStays
<1>1. B!IInv' /\ handle' = handle /\ ~handle.allocated
  BY AllocTheBufferKeeps DEF B!AllocTheBuffer
<1>. QED  BY <1>1, ItemsSound, ItemsSoundNext DEF BuilderStays

LEMMA AllocHandleOpens ==
  ASSUME B!IInv, B!AllocHandle
  PROVE  B!Items' = <<>> /\ B!Status' = "open" /\ B!Items = <<>> /\ B!Status = "none"
<1>1. /\ ~handle.allocated /\ call.op = "alloc" /\ transient = {call.buffer}
      /\ call.buffer \in DOMAIN buffers /\ buffers[call.buffer] = <<>>
  BY DEF B!AllocHandle, B!IInv, B!CallIsRooted, B!BuilderIntact
<1>2. buffers'[call.buffer] = <<>>
  BY <1>1, AllocOtherSound DEF B!AllocHandle
<1>3. handle'.allocated /\ ~handle'.frozen /\ handle'.data = call.buffer
  BY DEF B!AllocHandle
<1>. QED  BY <1>1, <1>2, <1>3, AllocHandleKeeps, ItemsSound, ItemsSoundNext

LEMMA SetInPlaceAppends ==
  ASSUME B!IInv, NEW k \in Key, NEW v \in Value, B!SetInPlace(k, v)
  PROVE  /\ B!Items' = Append(B!Items, [key |-> k, val |-> v])
         /\ B!Status = "open" /\ B!Status' = "open"
<1>1. handle.allocated /\ ~handle.frozen /\ handle.data \in DOMAIN buffers
  BY DEF B!SetInPlace, B!Mutable, B!IInv, B!BuilderIntact
<1>2. PICK s \in Seq(Pair) : s = buffers[handle.data] /\ Len(s) = handle.length
  BY <1>1 DEF B!IInv, B!BuilderIntact, B!Pair, Pair
<1>3. SubSeq(s, 1, Len(s)) = s
  BY SubSeqFull
<1>4. buffers'[handle.data] = Append(s, [key |-> k, val |-> v])
  BY <1>1, <1>2, <1>3 DEF B!SetInPlace, B!Store
<1>5. handle \in B!Handle
  BY <1>1 DEF B!IInv, B!NoHandle
<1>6. handle'.allocated /\ ~handle'.frozen /\ handle'.data = handle.data
  BY <1>1, <1>5 DEF B!SetInPlace, B!Handle
<1>. QED  BY <1>1, <1>2, <1>4, <1>6, SetInPlaceKeeps, ItemsSound, ItemsSoundNext

LEMMA GrowStays ==
  ASSUME B!IInv, NEW k \in Key, NEW v \in Value, NEW b \in Buffer, B!Grow(k, v, b)
  PROVE  BuilderStays
<1>1. handle.allocated /\ ~handle.frozen /\ handle' = handle
  BY DEF B!Grow, B!Mutable
<1>2. buffers'[handle.data] = buffers[handle.data]
  BY <1>1, AllocBufferSound DEF B!Grow
<1>. QED  BY <1>1, <1>2, GrowKeeps, ItemsSound, ItemsSoundNext DEF BuilderStays

LEMMA SetInNewBufferAppends ==
  ASSUME B!IInv, B!SetInNewBuffer
  PROVE  /\ B!Items' = Append(B!Items, call.pair) /\ call.pair \in Pair
         /\ B!Status = "open" /\ B!Status' = "open"
<1>1. /\ handle.allocated /\ ~handle.frozen /\ call.op = "grow" /\ call.pair \in Pair
      /\ call.old = handle.data /\ {call.old, call.new} \subseteq DOMAIN buffers
  BY DEF B!SetInNewBuffer, B!IInv, B!CallIsRooted, B!BuilderIntact, B!Pair, Pair
<1>2. PICK s \in Seq(Pair) : s = buffers[call.old] /\ Len(s) = handle.length
  BY <1>1 DEF B!IInv, B!BuilderIntact, B!Pair, Pair
<1>3. SubSeq(s, 1, Len(s)) = s
  BY SubSeqFull
<1>4. buffers'[call.new] = Append(s, call.pair)
  BY <1>1, <1>2, <1>3 DEF B!SetInNewBuffer, B!Store
<1>5. handle \in B!Handle
  BY <1>1 DEF B!IInv, B!NoHandle
<1>6. handle'.allocated /\ ~handle'.frozen /\ handle'.data = call.new
  BY <1>1, <1>5 DEF B!SetInNewBuffer, B!Handle
<1>. QED  BY <1>1, <1>2, <1>4, <1>6, SetInNewBufferKeeps, ItemsSound, ItemsSoundNext

LEMMA FreezeStays ==
  ASSUME B!IInv, B!Freeze
  PROVE  BuilderStays
<1>1. handle.allocated /\ ~handle.frozen /\ buffers' = buffers
  BY DEF B!Freeze, B!Mutable
<1>2. handle \in B!Handle
  BY <1>1 DEF B!IInv, B!NoHandle
<1>3. handle'.allocated /\ call'.op # "none" /\ handle'.data = handle.data
  BY <1>1, <1>2 DEF B!Freeze, B!Handle
<1>. QED  BY <1>1, <1>3, FreezeKeeps, ItemsSound, ItemsSoundNext DEF BuilderStays

LEMMA FreezeAllocsStays ==
  ASSUME B!IInv, B!FreezeAllocs
  PROVE  BuilderStays
<1>1. /\ handle.allocated /\ call.op = "freeze" /\ handle' = handle
      /\ DOMAIN call = {"op", "data", "length"}
  BY DEF B!FreezeAllocs, B!IInv, B!CallIsRooted
<1>2. buffers'[handle.data] = buffers[handle.data]
  BY <1>1, AllocOtherSound DEF B!FreezeAllocs
<1>3. call'.op = "fill"
  BY <1>1 DEF B!FreezeAllocs
<1>. QED  BY <1>1, <1>2, <1>3, FreezeAllocsKeeps, ItemsSound, ItemsSoundNext DEF BuilderStays

LEMMA FreezeReturnsFreezes ==
  ASSUME B!IInv, B!FreezeReturns
  PROVE  B!Items' = B!Items /\ B!Status = "open" /\ B!Status' = "frozen"
<1>1. /\ handle.allocated /\ handle.frozen /\ call.op = "fill" /\ call'.op = "none"
      /\ handle' = handle /\ buffers' = buffers
  BY DEF B!FreezeReturns, B!NoCall, B!IInv, B!CallIsRooted
<1>. QED  BY <1>1, FreezeReturnsKeeps, ItemsSound, ItemsSoundNext

LEMMA DropEnds ==
  ASSUME B!IInv, B!Drop
  PROVE  B!Items' = <<>> /\ B!Status' = "none"
<1>1. ~handle'.allocated
  BY DEF B!Drop, B!NoHandle
<1>. QED  BY <1>1, DropKeeps, ItemsSoundNext

LEMMA BuilderUnchanged ==
  ASSUME UNCHANGED builderVars
  PROVE  BuilderStays
<1>1. buffers' = buffers /\ handle' = handle /\ call' = call
  BY DEF builderVars
<1>2. B!Items' = B!Items
  BY <1>1 DEF B!Items
<1>3. B!Status' = B!Status
  BY <1>1 DEF B!Status
<1>. QED  BY <1>2, <1>3 DEF BuilderStays

-----------------------------------------------------------------------------
(* Both back ends, step by step.                                           *)

\* Both have their builder at the same point, with the same pairs.
Alike == Gc!IInv /\ gcBuilder.pairs = B!Items /\ GcStatus = B!Status

LEMMA BothStay ==
  ASSUME Alike, UNCHANGED gcVars, BuilderStays
  PROVE  Alike'
  BY GcUnchanged DEF Alike, BuilderStays

LEMMA BuilderAllocAlike ==
  ASSUME Alike, B!IInv, BuilderAlloc
  PROVE  /\ Alike'
         /\ \/ UNCHANGED gcVars /\ BuilderStays
            \/ /\ B!Items = <<>> /\ B!Items' = <<>>
               /\ B!Status = "none" /\ B!Status' = "open" /\ gcPairs' = gcPairs
<1>1. ASSUME NEW b \in Buffer, B!AllocTheBuffer(b), UNCHANGED gcVars
      PROVE  Alike' /\ BuilderStays
  BY <1>1, AllocTheBufferStays, BothStay
<1>2. ASSUME B!AllocHandle, Gc!BuilderAlloc
      PROVE  /\ Alike' /\ B!Items = <<>> /\ B!Items' = <<>>
             /\ B!Status = "none" /\ B!Status' = "open" /\ gcPairs' = gcPairs
  <2>1. gcPairs' = gcPairs
    BY <1>2 DEF Gc!BuilderAlloc
  <2>. QED  BY <1>2, <2>1, AllocHandleOpens, GcBuilderAllocSound DEF Alike
<1>. QED  BY <1>1, <1>2 DEF BuilderAlloc

LEMMA BuilderSetAlike ==
  ASSUME Alike, B!IInv, NEW k \in Key, NEW v \in Value, BuilderSet(k, v)
  PROVE  /\ Alike'
         /\ \/ UNCHANGED gcVars /\ BuilderStays
            \/ /\ B!Items' = Append(B!Items, [key |-> k, val |-> v])
               /\ B!Status = "open" /\ B!Status' = "open" /\ gcPairs' = gcPairs
<1>1. ASSUME B!SetInPlace(k, v), Gc!BuilderSet(k, v)
      PROVE  /\ Alike' /\ B!Items' = Append(B!Items, [key |-> k, val |-> v])
             /\ B!Status = "open" /\ B!Status' = "open" /\ gcPairs' = gcPairs
  <2>1. gcPairs' = gcPairs
    BY <1>1 DEF Gc!BuilderSet
  <2>. QED  BY <1>1, <2>1, SetInPlaceAppends, GcBuilderSetSound DEF Alike
<1>2. ASSUME NEW b \in Buffer, B!Grow(k, v, b), UNCHANGED gcVars
      PROVE  Alike' /\ BuilderStays
  BY <1>2, GrowStays, BothStay
<1>. QED  BY <1>1, <1>2 DEF BuilderSet

LEMMA BuilderSetAfterGrowthAlike ==
  ASSUME Alike, B!IInv, BuilderSetAfterGrowth
  PROVE  /\ Alike'
         /\ \E k \in Key, v \in Value : B!Items' = Append(B!Items, [key |-> k, val |-> v])
         /\ B!Status = "open" /\ B!Status' = "open" /\ gcPairs' = gcPairs
<1>1. B!SetInNewBuffer /\ Gc!BuilderSet(call.pair.key, call.pair.val)
  BY DEF BuilderSetAfterGrowth
<1>2. call.pair \in Pair /\ B!Items' = Append(B!Items, call.pair)
      /\ B!Status = "open" /\ B!Status' = "open"
  BY <1>1, SetInNewBufferAppends
<1>3. PICK k \in Key, v \in Value :
        k = call.pair.key /\ v = call.pair.val /\ call.pair = [key |-> k, val |-> v]
  BY <1>2 DEF Pair
<1>4. Gc!BuilderSet(k, v) /\ GcStatus = "open" /\ Gc!IInv
  BY <1>1, <1>2, <1>3 DEF Alike
<1>5. gcPairs' = gcPairs
  BY <1>4 DEF Gc!BuilderSet
<1>6. /\ Gc!IInv' /\ GcStatus' = "open"
      /\ gcBuilder'.pairs = Append(gcBuilder.pairs, [key |-> k, val |-> v])
  BY <1>4, GcBuilderSetSound
<1>. QED  BY <1>2, <1>3, <1>5, <1>6 DEF Alike

LEMMA FreezeBeginsAlike ==
  ASSUME Alike, B!IInv, FreezeBegins
  PROVE  Alike' /\ UNCHANGED gcVars /\ BuilderStays
  BY FreezeStays, FreezeAllocsStays, BothStay DEF FreezeBegins

LEMMA BuilderFreezeAlike ==
  ASSUME Alike, B!IInv, BuilderFreeze
  PROVE  /\ Alike' /\ B!Items' = B!Items /\ B!Items \in Seq(Pair)
         /\ B!Status = "open" /\ B!Status' = "frozen"
         /\ \A f : BoundsOf(B!Items, f) => gcPairs' = f[Len(B!Items)]
  BY FreezeReturnsFreezes, GcBuilderFreezeSound DEF BuilderFreeze, Alike

LEMMA UseAfterFreezeAlike ==
  ASSUME Alike, UseAfterFreeze
  PROVE  Alike' /\ UNCHANGED gcVars /\ BuilderStays
<1>1. UNCHANGED gcVars /\ UNCHANGED builderVars
  BY DEF UseAfterFreeze, Gc!BuilderTraps, gcVars
<1>. QED  BY <1>1, BuilderUnchanged, BothStay

LEMMA BuilderDropAlike ==
  ASSUME Alike, B!IInv, BuilderDrop
  PROVE  Alike' /\ B!Items' = <<>> /\ B!Status' = "none" /\ gcPairs' = gcPairs
<1>1. B!Drop /\ Gc!BuilderDrop /\ gcPairs' = gcPairs
  BY DEF BuilderDrop, Gc!BuilderDrop
<1>. QED  BY <1>1, DropEnds, GcBuilderDropSound DEF Alike

LEMMA MapSetAlike ==
  ASSUME Alike, NEW k \in Key, NEW v \in Value, MapSet(k, v)
  PROVE  Alike' /\ BuilderStays /\ gcPairs' = Bound(gcPairs, k, v)
<1>1. Gc!MapSet(k, v) /\ UNCHANGED builderVars /\ gcBuilder' = gcBuilder
  BY DEF MapSet, Gc!MapSet
<1>2. GcStatus' = GcStatus
  BY <1>1 DEF GcStatus
<1>. QED  BY <1>1, <1>2, MapSetSound, BuilderUnchanged DEF Alike, BuilderStays

LEMMA MapRemoveAlike ==
  ASSUME Alike, NEW k \in Key, MapRemove(k)
  PROVE  Alike' /\ BuilderStays /\ gcPairs' = Gc!Without(gcPairs, k)
<1>1. Gc!MapRemove(k) /\ UNCHANGED builderVars /\ gcBuilder' = gcBuilder
  BY DEF MapRemove, Gc!MapRemove
<1>2. GcStatus' = GcStatus
  BY <1>1 DEF GcStatus
<1>. QED  BY <1>1, <1>2, MapRemoveSound, BuilderUnchanged DEF Alike, BuilderStays

-----------------------------------------------------------------------------
(* The table of the native map.                                            *)

\* A bounded sequence is a sequence.
LEMMA LiteralPairs == \A pairs \in BoundedSeq(Pair, MaxLiteral) : pairs \in Seq(Pair)
<1>1. ASSUME NEW pairs \in BoundedSeq(Pair, MaxLiteral) PROVE pairs \in Seq(Pair)
  <2>1. PICK m \in 0..MaxLiteral : pairs \in [1..m -> Pair]
    BY DEF BoundedSeq, SeqOf
  <2>2. m \in Nat
    BY <2>1
  <2>3. pairs = [i \in 1..m |-> pairs[i]] /\ \A i \in 1..m : pairs[i] \in Pair
    BY <2>1
  <2>. QED  BY <2>2, <2>3, IsASeq
<1>. QED  BY <1>1

\* The pairs that freeze copies are all that the builder was given.
LEMMA FrozenPairsSound ==
  ASSUME B!IInv, call.op = "fill"
  PROVE  B!FrozenPairs \in Seq(Pair) /\ B!FrozenPairs = B!Items
<1>1. /\ handle.allocated /\ call.data = handle.data /\ call.length = handle.length
      /\ handle.data \in DOMAIN buffers /\ Len(buffers[handle.data]) = handle.length
  BY DEF B!IInv, B!CallIsRooted, B!BuilderIntact
<1>2. PICK s \in Seq(Pair) : s = buffers[handle.data]
  BY <1>1 DEF B!IInv, B!Pair, Pair
<1>3. SubSeq(s, 1, Len(s)) = s
  BY SubSeqFull
<1>. QED  BY <1>1, <1>2, <1>3 DEF B!FrozenPairs, B!Items

LEMMA MapUnchanged ==
  ASSUME MapIInv, UNCHANGED vars
  PROVE  MapIInv' /\ Entries' = Entries
<1>1. placeholder' = placeholder /\ buckets' = buckets /\ order' = order
  BY DEF vars
<1>. QED  BY <1>1 DEF MapIInv, Table, Length, Entries

\* freeze returns a sound table of the builder's pairs, bound one after the other.
LEMMA BuilderFreezeSound ==
  ASSUME BackendsIInv, BuilderFreeze
  PROVE  /\ MapIInv'
         /\ \A f : f = [n \in 0..Len(B!Items) |->
                          IF n = 0 THEN <<>>
                          ELSE Bound(f[n - 1], B!Items[n].key, B!Items[n].val)]
                   => Entries' = f[Len(B!Items)]
<1>1. PICK pairs \in Seq(Pair) : pairs = B!FrozenPairs /\ pairs = B!Items
  BY FrozenPairsSound DEF BuilderFreeze, B!FreezeReturns, BackendsIInv
<1>2. PICK t : t = FromPairs(pairs)
  OBVIOUS
<1>3. /\ Sound(t) /\ CapacityOf(t) \in Nat \ {0, 1}
      /\ RoomFor(Len(t.order), CapacityOf(t)) /\ (pairs = <<>> => t.order = <<>>)
      /\ \A f : f = [n \in 0..Len(pairs) |->
                       IF n = 0 THEN <<>>
                       ELSE Bound(f[n - 1], pairs[n].key, pairs[n].val)]
                => EntriesOf(t) = f[Len(pairs)]
  BY <1>2, FromPairsSound
<1>4. Becomes(t) /\ placeholder' \in BOOLEAN /\ ~placeholder'
  BY <1>1, <1>2 DEF BuilderFreeze, BackendsIInv, MapIInv
<1>5. MapIInv' /\ Entries' = EntriesOf(t)
  BY <1>3, <1>4, TableBecomes
<1>. QED  BY <1>1, <1>3, <1>5

LEMMA InitMapIInv == BackendsInit => BackendsIInv
<1>. SUFFICES ASSUME BackendsInit PROVE BackendsIInv
  OBVIOUS
<1>1. B!IInv /\ ~handle.allocated
  BY InitIInv DEF BackendsInit, B!InitialState, B!NoHandle
<1>2. B!Items = <<>> /\ B!Status = "none"
  BY <1>1, ItemsSound
<1>3. \A pairs \in Seq(Pair) : Gc!InitFrom(pairs) =>
        Gc!IInv /\ gcBuilder.pairs = B!Items /\ GcStatus = B!Status
  BY <1>2, GcInitSound
<1>4. CASE FromLiteral
  <2>1. phase # "build"
    BY <1>4 DEF FromLiteral
  <2>2. PICK pairs \in Seq(Pair) : InitFrom(pairs) /\ Gc!InitFrom(pairs)
    BY <1>4, LiteralPairs DEF FromLiteral
  <2>. QED  BY <1>1, <1>3, <2>1, <2>2, InitFromSound DEF BackendsIInv
<1>5. CASE WithBuilder
  <2>1. PICK pairs \in Seq(Pair) : InitFrom(pairs) /\ Gc!InitFrom(pairs)
    <3>1. <<>> \in Seq(Pair)
      BY EmptySeq
    <3>. QED  BY <1>5, <3>1 DEF WithBuilder
  <2>2. ~placeholder
    BY <1>5 DEF WithBuilder
  <2>. QED  BY <1>1, <1>3, <2>1, <2>2, InitFromSound DEF BackendsIInv
<1>. QED  BY <1>4, <1>5 DEF BackendsInit

LEMMA NextKeepsAlike ==
  ASSUME Alike, B!IInv, [BackendsNext]_allVars
  PROVE  Alike'
<1>1. ASSUME NEW k \in Key, MapRemove(k) PROVE Alike'
  BY <1>1, MapRemoveAlike
<1>2. ASSUME NEW k \in Key, NEW v \in Value, MapSet(k, v) PROVE Alike'
  BY <1>2, MapSetAlike
<1>3. ASSUME Building PROVE Alike'
  <2>1. ASSUME NEW k \in Key, NEW v \in Value, BuilderSet(k, v) PROVE Alike'
    BY <2>1, BuilderSetAlike
  <2>. QED  BY <1>3, <2>1, BuilderAllocAlike, BuilderSetAfterGrowthAlike, FreezeBeginsAlike
            DEF Building
<1>4. ASSUME UNCHANGED allVars PROVE Alike'
  BY <1>4, BuilderUnchanged, BothStay DEF allVars
<1>. QED  BY <1>1, <1>2, <1>3, <1>4, BuilderFreezeAlike, UseAfterFreezeAlike, BuilderDropAlike
          DEF BackendsNext

LEMMA NextKeepsMap == BackendsIInv /\ [BackendsNext]_allVars => BackendsIInv'
<1>. SUFFICES ASSUME BackendsIInv, [BackendsNext]_allVars PROVE BackendsIInv'
  OBVIOUS
<1>. DEFINE Kept == MapIInv' /\ (phase' = "build" => ~placeholder')
<1>1. MapIInv /\ B!IInv /\ Alike /\ (phase = "build" => ~placeholder)
  BY DEF BackendsIInv, Alike
<1>2. ASSUME UNCHANGED <<vars, phase>> PROVE Kept
  BY <1>1, <1>2, MapUnchanged DEF vars
<1>3. ASSUME NEW k \in Key, MapRemove(k) PROVE Kept
  BY <1>1, <1>3, RemoveRawSound DEF MapRemove
<1>4. ASSUME NEW k \in Key, NEW v \in Value, MapSet(k, v) PROVE Kept
  BY <1>1, <1>4, SetRawSound DEF MapSet
<1>5. ASSUME Building PROVE Kept
  BY <1>2, <1>5 DEF Building
<1>6. ASSUME BuilderFreeze PROVE Kept
  BY <1>1, <1>6, BuilderFreezeSound DEF BuilderFreeze
<1>7. ASSUME UseAfterFreeze PROVE Kept
  BY <1>1, <1>7, MapUnchanged DEF UseAfterFreeze
<1>8. ASSUME BuilderDrop PROVE Kept
  BY <1>1, <1>8, MapUnchanged DEF BuilderDrop
<1>9. ASSUME UNCHANGED allVars PROVE Kept
  BY <1>2, <1>9 DEF allVars
<1>. HIDE DEF Kept
<1>10. Kept
  BY <1>3, <1>4, <1>5, <1>6, <1>7, <1>8, <1>9 DEF BackendsNext
<1>11. B!IInv' /\ Alike'
  BY <1>1, NextKeeps, NextKeepsAlike
<1>. QED  BY <1>10, <1>11 DEF Kept, Alike, BackendsIInv

\* In every state both back ends have their map and their builder in order: each table
\* and each index leads from every key to its pair, with room left.
THEOREM TableStaysSound == BackendsSpec => []BackendsIInv
BY InitMapIInv, NextKeepsMap, PTL DEF BackendsSpec

\* In every state of a program, after whatever removals, reused tombstones and rebuilt
\* tables, a lookup of any key finds what iteration lists for it and nothing else.
THEOREM LookupsMatchIteration == BackendsSpec => []LookupMatchesIteration
<1>1. BackendsIInv => LookupMatchesIteration
  BY InvariantLookup DEF BackendsIInv
<1>. QED  BY <1>1, TableStaysSound, PTL

\* The order array always lists each occupied bucket once and no other.
THEOREM OrderStaysExact == BackendsSpec => []OrderListsOccupied
<1>1. BackendsIInv => OrderListsOccupied
  BY InvariantOrder DEF BackendsIInv
<1>. QED  BY <1>1, TableStaysSound, PTL

\* The load factor always holds, and no probe comes to the abort.
THEOREM ProbesEnd == BackendsSpec => []ProbeEnds
<1>1. BackendsIInv => ProbeEnds
  BY InvariantProbe DEF BackendsIInv
<1>. QED  BY <1>1, TableStaysSound, PTL

-----------------------------------------------------------------------------
(* The wasm32-gc map.                                                      *)

LEMMA InvariantIndex == BackendsIInv => IndexMatchesPairs
<1>. SUFFICES ASSUME BackendsIInv, NEW k \in Key
              PROVE  Gc!Get(k) = {gcPairs[i].val :
                                    i \in {j \in DOMAIN gcPairs : gcPairs[j].key = k}}
  BY DEF IndexMatchesPairs, Gc!IndexMatchesPairs
<1>1. PICK m : m = [pairs |-> gcPairs, idx |-> gcIdx] /\ Gc!Sound(m)
               /\ m.pairs = gcPairs /\ m.idx = gcIdx
  BY DEF BackendsIInv, Gc!IInv
<1>2. PICK pairs \in Seq(Pair) : pairs = gcPairs
  BY <1>1, SoundMap
<1>3. Gc!Indexed(pairs, Len(pairs), gcIdx) /\ Len(pairs) < Gc!IdxLen(gcIdx)
      /\ \A i, j \in DOMAIN pairs : pairs[i].key = pairs[j].key => i = j
  BY <1>1, <1>2, SoundMap
<1>4. PICK at : at = Gc!Lookup([pairs |-> pairs, idx |-> gcIdx], k)
  OBVIOUS
<1>5. /\ at.found # Gc!IDX_EMPTY =>
           at.found + 1 \in DOMAIN pairs /\ pairs[at.found + 1].key = k
      /\ at.found = Gc!IDX_EMPTY => \A i \in DOMAIN pairs : pairs[i].key # k
  BY <1>3, <1>4, LookupSound
<1>6. Gc!Get(k) = IF at.found # Gc!IDX_EMPTY THEN {pairs[at.found + 1].val} ELSE {}
  BY <1>2, <1>4 DEF Gc!Get
<1>7. CASE at.found # Gc!IDX_EMPTY
  <2>1. PICK i \in DOMAIN pairs : i = at.found + 1 /\ pairs[i].key = k
    BY <1>5, <1>7
  <2>2. {j \in DOMAIN pairs : pairs[j].key = k} = {i}
    BY <1>3, <2>1
  <2>. QED  BY <1>2, <1>6, <1>7, <2>1, <2>2
<1>8. CASE at.found = Gc!IDX_EMPTY
  <2>1. {j \in DOMAIN pairs : pairs[j].key = k} = {}
    BY <1>5, <1>8
  <2>. QED  BY <1>2, <1>6, <1>8, <2>1
<1>. QED  BY <1>7, <1>8

\* In every state of a program the index of the wasm32-gc map leads each key to its pair,
\* and no other key anywhere.
THEOREM IndexStaysCurrent == BackendsSpec => []IndexMatchesPairs
BY InvariantIndex, TableStaysSound, PTL

LEMMA InvariantHalf == BackendsIInv => HalfEmpty
<1>. SUFFICES ASSUME BackendsIInv PROVE HalfEmpty
  OBVIOUS
<1>1. PICK m : m = [pairs |-> gcPairs, idx |-> gcIdx] /\ Gc!Sound(m)
               /\ m.pairs = gcPairs /\ m.idx = gcIdx
  BY DEF BackendsIInv, Gc!IInv
<1>2. PICK n \in Nat : n = Len(gcPairs)
  BY <1>1, SoundMap
<1>3. Gc!Indexed(gcPairs, n, gcIdx) /\ 2 * n <= Gc!IdxLen(gcIdx)
      /\ Gc!IdxLen(gcIdx) \in Nat
  BY <1>1, <1>2, SoundMap
<1>4. PICK used : used = {h \in DOMAIN gcIdx : gcIdx[h] # Gc!IDX_EMPTY}
  OBVIOUS
<1>5. \A h \in used : gcIdx[h] \in 0..(n - 1)
  BY <1>3, <1>4 DEF Gc!Indexed
<1>6. \A g, h \in used : gcIdx[g] = gcIdx[h] => g = h
  BY <1>3, <1>4 DEF Gc!Indexed
<1>7. PICK f : f = [h \in used |-> gcIdx[h]]
  OBVIOUS
<1>8. f \in Injection(used, 0..(n - 1))
  <2>1. f \in [used -> 0..(n - 1)]
    BY <1>5, <1>7
  <2>2. \A g, h \in used : f[g] = f[h] => g = h
    BY <1>6, <1>7
  <2>. QED  BY <2>1, <2>2 DEF Injection, IsInjective
<1>9. IsFiniteSet(0..(n - 1)) /\ Cardinality(0..(n - 1)) = n
  <2>1. Cardinality(0..(n - 1)) = IF 0 > n - 1 THEN 0 ELSE n - 1 - 0 + 1
    BY FS_Interval
  <2>2. IsFiniteSet(0..(n - 1))
    BY FS_Interval
  <2>. QED  BY <2>1, <2>2
<1>10. IsFiniteSet(used) /\ Cardinality(used) <= n
  BY <1>8, <1>9, FS_Injection
<1>11. Cardinality(used) \in Nat
  BY <1>10, FS_CardinalityType
<1>12. Gc!Cardinality(used) = Cardinality(used)
  BY DEF Gc!Cardinality, Cardinality
<1>13. 2 * Cardinality(used) <= Gc!IdxLen(gcIdx)
  BY <1>3, <1>10, <1>11
<1>. QED  BY <1>4, <1>12, <1>13 DEF HalfEmpty, Gc!HalfEmpty

\* At least half of the index is always empty, and so every lookup ends.
THEOREM IndexStaysHalfEmpty == BackendsSpec => []HalfEmpty
BY InvariantHalf, TableStaysSound, PTL

\* Tables, order arrays, indexes and builders keep their types, and a builder of
\* wasm32-gc never holds more pairs than its arrays.
THEOREM BackendsStayTyped == BackendsSpec => []BackendsTypeOK
<1>1. ASSUME BackendsIInv PROVE Gc!TypeOK
  <2>1. PICK m : m = [pairs |-> gcPairs, idx |-> gcIdx] /\ Gc!Sound(m)
                 /\ m.pairs = gcPairs /\ m.idx = gcIdx
    BY <1>1 DEF BackendsIInv, Gc!IInv
  <2>2. gcPairs \in Seq(Gc!Pair)
        /\ gcIdx \in [0..(Gc!IdxLen(gcIdx) - 1) -> {Gc!IDX_EMPTY} \cup 0..(Len(gcPairs) - 1)]
    BY <2>1 DEF Gc!Sound, Gc!Indexed
  <2>. QED  BY <1>1, <2>2 DEF BackendsIInv, Gc!IInv, Gc!TypeOK
<1>2. BackendsIInv => BackendsTypeOK
  BY <1>1, InvariantTypes DEF BackendsTypeOK, BackendsIInv
<1>. QED  BY <1>2, TableStaysSound, PTL

\* The maps that binding pairs one after the other gives exist.
LEMMA BoundsExist ==
  ASSUME NEW pairs \in Seq(Pair)
  PROVE  \E f : BoundsOf(pairs, f)
<1>1. PICK N \in Nat : N = Len(pairs) /\ \A n \in 1..N : pairs[n] \in Pair
  BY LenProperties, ElementOfSeq
<1>. DEFINE Step(n, es) == Bound(es, pairs[n].key, pairs[n].val)
<1>2. ASSUME NEW n \in 1..N, NEW es \in Seq(Pair) PROVE Step(n, es) \in Seq(Pair)
  <2>1. PICK k \in Key, v \in Value : k = pairs[n].key /\ v = pairs[n].val
    BY <1>1 DEF Pair
  <2>2. [key |-> k, val |-> v] \in Pair
    BY DEF Pair
  <2>3. PICK m \in Nat : m = Len(es) /\ DOMAIN es = 1..m /\ \A i \in 1..m : es[i] \in Pair
    BY LenProperties, ElementOfSeq
  <2>4. [i \in 1..m |-> IF es[i].key = k THEN [key |-> k, val |-> v] ELSE es[i]] \in Seq(Pair)
    <3>1. \A i \in 1..m : (IF es[i].key = k THEN [key |-> k, val |-> v] ELSE es[i]) \in Pair
      BY <2>2, <2>3
    <3>. QED  BY <3>1, IsASeq
  <2>5. Append(es, [key |-> k, val |-> v]) \in Seq(Pair)
    BY <2>2, AppendProperties
  <2>. QED  BY <2>1, <2>3, <2>4, <2>5 DEF Bound
<1>3. PICK Good : Good = [n \in 0..N |-> Seq(Pair)]
  OBVIOUS
<1>4. PICK G : G = [n \in 1..N |-> [es \in Seq(Pair) |-> Step(n, es)]]
  OBVIOUS
<1>. HIDE DEF Step
<1>5. \A n \in 1..N : n \in 0..N /\ n - 1 \in 0..N
  OBVIOUS
<1>6. PICK first \in Good[0] : first = <<>>
  <2>1. 0 \in 0..N /\ <<>> \in Seq(Pair)
    BY EmptySeq
  <2>. QED  BY <1>3, <2>1
<1>7. \A n \in 1..N : \A es \in Seq(Pair) : G[n][es] = Step(n, es)
  BY <1>4
<1>8. StepsKeep(N, G, Good)
  BY <1>2, <1>3, <1>5, <1>7 DEF StepsKeep
<1>9. PICK f : Unfolds(N, first, G, Good, f)
  BY <1>8, RecursionSound
<1>10. \A n \in 0..N : n # 0 => n \in 1..N /\ n - 1 \in 0..N
  OBVIOUS
<1>11. \A n \in 0..N : f[n] \in Seq(Pair)
  BY <1>3, <1>9 DEF Unfolds
<1>12. f = [n \in 0..N |-> IF n = 0 THEN <<>> ELSE Step(n, f[n - 1])]
  BY <1>6, <1>7, <1>9, <1>10, <1>11 DEF Unfolds
<1>. QED  BY <1>1, <1>12 DEF BoundsOf, Step

-----------------------------------------------------------------------------
(* The native map implements that of the interpreter.                      *)

LEMMA NativeBind ==
  ASSUME NEW es, NEW k, NEW v
  PROVE  InterpretedNatively!Bind(es, k, v) = Bound(es, k, v)
<1>1. k \in InterpretedNatively!KeysOf(es) <=> \E i \in DOMAIN es : es[i].key = k
  BY DEF InterpretedNatively!KeysOf
<1>. QED  BY <1>1 DEF InterpretedNatively!Bind, Bound

\* What the interpreter's map of some pairs is.
LEMMA NativeFromPairs ==
  ASSUME NEW pairs \in Seq(Pair), NEW es, \A f : BoundsOf(pairs, f) => es = f[Len(pairs)]
  PROVE  es = InterpretedNatively!FromPairs(pairs)
<1>. DEFINE bound[n \in 0..Len(pairs)] ==
              IF n = 0 THEN <<>>
              ELSE InterpretedNatively!Bind(bound[n - 1], pairs[n].key, pairs[n].val)
<1>1. InterpretedNatively!FromPairs(pairs) = bound[Len(pairs)]
  BY DEF InterpretedNatively!FromPairs
<1>2. PICK f : BoundsOf(pairs, f)
  BY BoundsExist
<1>3. f = [n \in 0..Len(pairs) |->
             IF n = 0 THEN <<>>
             ELSE InterpretedNatively!Bind(f[n - 1], pairs[n].key, pairs[n].val)]
  BY <1>2, NativeBind DEF BoundsOf
<1>4. bound = [n \in 0..Len(pairs) |->
                 IF n = 0 THEN <<>>
                 ELSE InterpretedNatively!Bind(bound[n - 1], pairs[n].key, pairs[n].val)]
  BY <1>3
<1>. HIDE DEF bound
<1>5. BoundsOf(pairs, bound)
  BY <1>4, NativeBind DEF BoundsOf
<1>. QED  BY <1>1, <1>5

LEMMA NativeWithout ==
  ASSUME NEW es, NEW k
  PROVE  InterpretedNatively!Without(es, k) = Gc!Without(es, k)
BY DEF InterpretedNatively!Without, Gc!Without

LEMMA WasmBind ==
  ASSUME NEW es, NEW k, NEW v
  PROVE  InterpretedInWasm!Bind(es, k, v) = Bound(es, k, v)
<1>1. k \in InterpretedInWasm!KeysOf(es) <=> \E i \in DOMAIN es : es[i].key = k
  BY DEF InterpretedInWasm!KeysOf
<1>. QED  BY <1>1 DEF InterpretedInWasm!Bind, Bound

LEMMA WasmFromPairs ==
  ASSUME NEW pairs \in Seq(Pair), NEW es, \A f : BoundsOf(pairs, f) => es = f[Len(pairs)]
  PROVE  es = InterpretedInWasm!FromPairs(pairs)
<1>. DEFINE bound[n \in 0..Len(pairs)] ==
              IF n = 0 THEN <<>>
              ELSE InterpretedInWasm!Bind(bound[n - 1], pairs[n].key, pairs[n].val)
<1>1. InterpretedInWasm!FromPairs(pairs) = bound[Len(pairs)]
  BY DEF InterpretedInWasm!FromPairs
<1>2. PICK f : BoundsOf(pairs, f)
  BY BoundsExist
<1>3. f = [n \in 0..Len(pairs) |->
             IF n = 0 THEN <<>>
             ELSE InterpretedInWasm!Bind(f[n - 1], pairs[n].key, pairs[n].val)]
  BY <1>2, WasmBind DEF BoundsOf
<1>4. bound = [n \in 0..Len(pairs) |->
                 IF n = 0 THEN <<>>
                 ELSE InterpretedInWasm!Bind(bound[n - 1], pairs[n].key, pairs[n].val)]
  BY <1>3
<1>. HIDE DEF bound
<1>5. BoundsOf(pairs, bound)
  BY <1>4, WasmBind DEF BoundsOf
<1>. QED  BY <1>1, <1>5

LEMMA WasmWithout ==
  ASSUME NEW es, NEW k
  PROVE  InterpretedInWasm!Without(es, k) = Gc!Without(es, k)
BY DEF InterpretedInWasm!Without, Gc!Without

\* The map starts as a literal, and one that a builder makes as the empty one.
LEMMA SomeLiteral ==
  ASSUME BackendsInit
  PROVE  \E pairs \in BoundedSeq(Pair, MaxLiteral) : InitFrom(pairs) /\ Gc!InitFrom(pairs)
<1>1. <<>> \in BoundedSeq(Pair, MaxLiteral)
  <2>1. 0 \in 0..MaxLiteral
    BY LiteralAssumption
  <2>2. <<>> \in [1..0 -> Pair]
    OBVIOUS
  <2>. QED  BY <2>1, <2>2 DEF BoundedSeq, SeqOf
<1>. QED  BY <1>1 DEF BackendsInit, FromLiteral, WithBuilder

LEMMA InitRefines == BackendsInit => InterpretedNatively!Init
<1>. SUFFICES ASSUME BackendsInit PROVE InterpretedNatively!Init
  OBVIOUS
<1>1. B!IInv /\ ~handle.allocated
  BY InitIInv DEF BackendsInit, B!InitialState, B!NoHandle
<1>2. B!Items = <<>> /\ B!Status = "none"
  BY <1>1, ItemsSound
<1>3. PICK pairs \in BoundedSeq(Pair, MaxLiteral) : InitFrom(pairs)
  BY SomeLiteral
<1>4. pairs \in InterpretedNatively!BoundedSeq(InterpretedNatively!Pair, MaxLiteral)
  BY DEF BoundedSeq, SeqOf, Pair,
         InterpretedNatively!BoundedSeq, InterpretedNatively!SeqOf, InterpretedNatively!Pair
<1>5. pairs \in Seq(Pair)
  BY LiteralPairs
<1>6. \A f : BoundsOf(pairs, f) => Entries = f[Len(pairs)]
  BY <1>3, <1>5, InitFromSound DEF BoundsOf
<1>7. Entries = InterpretedNatively!FromPairs(pairs)
  BY <1>5, <1>6, NativeFromPairs
<1>. QED  BY <1>2, <1>4, <1>7 DEF InterpretedNatively!Init

\* Removing a key takes its entry out, or nothing.
LEMMA RemoveIsWithout ==
  ASSUME MapIInv, NEW k \in Key, RemoveRaw(k)
  PROVE  Entries' = Gc!Without(Entries, k)
<1>1. PICK es \in Seq(Pair) : es = Entries /\ \A i, j \in DOMAIN es : es[i].key = es[j].key => i = j
  BY TableSound, EntriesSound
<1>2. \/ \E i \in DOMAIN es : es[i].key = k /\ Entries' = RemoveAt(es, i)
      \/ (\A i \in DOMAIN es : es[i].key # k) /\ Entries' = es
  BY <1>1, RemoveRawSound
<1>3. /\ (\A i \in DOMAIN es : es[i].key # k) => Gc!Without(es, k) = es
      /\ \A i \in DOMAIN es : es[i].key = k => Gc!Without(es, k) = RemoveAt(es, i)
  BY <1>1, WithoutSound
<1>. QED  BY <1>1, <1>2, <1>3

LEMMA NextRefines ==
  BackendsIInv /\ [BackendsNext]_allVars
    => [InterpretedNatively!Next]_InterpretedNatively!vars
<1>. SUFFICES ASSUME BackendsIInv, [BackendsNext]_allVars
              PROVE  [InterpretedNatively!Next]_InterpretedNatively!vars
  OBVIOUS
<1>. DEFINE Step == [InterpretedNatively!Next]_InterpretedNatively!vars
<1>1. MapIInv /\ B!IInv /\ Alike
  BY DEF BackendsIInv, Alike
<1>2. ASSUME Entries' = Entries, BuilderStays PROVE Step
  BY <1>2 DEF BuilderStays, InterpretedNatively!vars
<1>3. ASSUME NEW k \in Key, MapRemove(k) PROVE Step
  <2>1. Entries' = InterpretedNatively!Without(Entries, k)
    BY <1>1, <1>3, RemoveIsWithout, NativeWithout DEF MapRemove
  <2>2. B!Items' = B!Items /\ B!Status' = B!Status
    BY <1>1, <1>3, MapRemoveAlike DEF BuilderStays
  <2>3. InterpretedNatively!Unbind(k)
    BY <2>1, <2>2 DEF InterpretedNatively!Unbind
  <2>. QED  BY <2>3 DEF InterpretedNatively!Next
<1>4. ASSUME NEW k \in Key, NEW v \in Value, MapSet(k, v) PROVE Step
  <2>1. Entries' = InterpretedNatively!Bind(Entries, k, v)
    BY <1>1, <1>4, SetRawSound, NativeBind DEF MapSet
  <2>2. B!Items' = B!Items /\ B!Status' = B!Status
    BY <1>1, <1>4, MapSetAlike DEF BuilderStays
  <2>3. InterpretedNatively!Set(k, v)
    BY <2>1, <2>2 DEF InterpretedNatively!Set
  <2>. QED  BY <2>3 DEF InterpretedNatively!Next
<1>5. ASSUME Building PROVE Step
  <2>1. Entries' = Entries
    BY <1>1, <1>5, MapUnchanged DEF Building
  <2>2. ASSUME BuilderAlloc PROVE Step
    <3>1. CASE BuilderStays
      BY <1>2, <2>1, <3>1
    <3>2. CASE /\ B!Items = <<>> /\ B!Items' = <<>>
               /\ B!Status = "none" /\ B!Status' = "open"
      <4>1. InterpretedNatively!BuilderAlloc
        BY <2>1, <3>2 DEF InterpretedNatively!BuilderAlloc
      <4>. QED  BY <4>1 DEF InterpretedNatively!Next
    <3>. QED  BY <1>1, <2>2, <3>1, <3>2, BuilderAllocAlike
  <2>3. ASSUME NEW k \in Key, NEW v \in Value,
               B!Items' = Append(B!Items, [key |-> k, val |-> v]),
               B!Status = "open", B!Status' = "open"
        PROVE  Step
    <3>1. InterpretedNatively!BuilderSet(k, v)
      BY <2>1, <2>3 DEF InterpretedNatively!BuilderSet
    <3>. QED  BY <3>1 DEF InterpretedNatively!Next
  <2>. HIDE DEF Step
  <2>4. ASSUME NEW k \in Key, NEW v \in Value, BuilderSet(k, v) PROVE Step
    BY <1>1, <1>2, <2>1, <2>3, <2>4, BuilderSetAlike
  <2>5. ASSUME BuilderSetAfterGrowth PROVE Step
    BY <1>1, <2>3, <2>5, BuilderSetAfterGrowthAlike
  <2>6. ASSUME FreezeBegins PROVE Step
    BY <1>1, <1>2, <2>1, <2>6, FreezeBeginsAlike
  <2>. QED  BY <1>5, <2>2, <2>4, <2>5, <2>6 DEF Building
<1>6. ASSUME BuilderFreeze PROVE Step
  <2>1. PICK pairs \in Seq(Pair) : pairs = B!Items
    BY <1>1, <1>6, BuilderFreezeAlike
  <2>2. \A f : BoundsOf(pairs, f) => Entries' = f[Len(pairs)]
    BY <1>6, <2>1, BuilderFreezeSound DEF BoundsOf
  <2>3. Entries' = InterpretedNatively!FromPairs(pairs)
    BY <2>1, <2>2, NativeFromPairs
  <2>4. B!Items' = B!Items /\ B!Status = "open" /\ B!Status' = "frozen"
    BY <1>1, <1>6, BuilderFreezeAlike
  <2>5. InterpretedNatively!BuilderFreeze
    BY <2>1, <2>3, <2>4 DEF InterpretedNatively!BuilderFreeze
  <2>. QED  BY <2>5 DEF InterpretedNatively!Next
<1>7. ASSUME UseAfterFreeze PROVE Step
  <2>1. Entries' = Entries
    BY <1>1, <1>7, MapUnchanged DEF UseAfterFreeze
  <2>. QED  BY <1>1, <1>2, <1>7, <2>1, UseAfterFreezeAlike
<1>8. ASSUME BuilderDrop PROVE Step
  <2>1. Entries' = Entries
    BY <1>1, <1>8, MapUnchanged DEF BuilderDrop
  <2>2. B!Items' = <<>> /\ B!Status' = "none"
    BY <1>1, <1>8, BuilderDropAlike
  <2>3. InterpretedNatively!BuilderDrop
    BY <2>1, <2>2 DEF InterpretedNatively!BuilderDrop
  <2>. QED  BY <2>3 DEF InterpretedNatively!Next
<1>9. ASSUME UNCHANGED allVars PROVE Step
  <2>1. Entries' = Entries
    BY <1>1, <1>9, MapUnchanged DEF allVars
  <2>. QED  BY <1>2, <1>9, <2>1, BuilderUnchanged DEF allVars
<1>. HIDE DEF Step
<1>10. Step
  BY <1>3, <1>4, <1>5, <1>6, <1>7, <1>8, <1>9 DEF BackendsNext
<1>. QED  BY <1>10 DEF Step

\* The native map and builder implement the interpreter's: every step is one of its
\* operations, with the same entries in the same order, or changes nothing it keeps.
THEOREM NativeImplementsInterpreter == BackendsSpec => Refines
BY InitRefines, NextRefines, TableStaysSound, PTL DEF BackendsSpec, Refines, InterpretedNatively!Spec

-----------------------------------------------------------------------------
(* So does the map of wasm32-gc.                                           *)

LEMMA InitRefinesInWasm == BackendsInit => InterpretedInWasm!Init
<1>. SUFFICES ASSUME BackendsInit PROVE InterpretedInWasm!Init
  OBVIOUS
<1>1. PICK pairs \in BoundedSeq(Pair, MaxLiteral) : Gc!InitFrom(pairs)
  BY SomeLiteral
<1>2. pairs \in InterpretedInWasm!BoundedSeq(InterpretedInWasm!Pair, MaxLiteral)
  BY DEF BoundedSeq, SeqOf, Pair,
         InterpretedInWasm!BoundedSeq, InterpretedInWasm!SeqOf, InterpretedInWasm!Pair
<1>3. pairs \in Seq(Pair)
  BY LiteralPairs
<1>4. gcBuilder.pairs = <<>> /\ GcStatus = "none"
      /\ \A f : BoundsOf(pairs, f) => gcPairs = f[Len(pairs)]
  BY <1>1, <1>3, GcInitSound
<1>5. gcPairs = InterpretedInWasm!FromPairs(pairs)
  BY <1>3, <1>4, WasmFromPairs
<1>. QED  BY <1>2, <1>4, <1>5 DEF InterpretedInWasm!Init

LEMMA NextRefinesInWasm ==
  BackendsIInv /\ [BackendsNext]_allVars
    => [InterpretedInWasm!Next]_InterpretedInWasm!vars
<1>. SUFFICES ASSUME BackendsIInv, [BackendsNext]_allVars
              PROVE  [InterpretedInWasm!Next]_InterpretedInWasm!vars
  OBVIOUS
<1>. DEFINE Step == [InterpretedInWasm!Next]_InterpretedInWasm!vars
<1>1. B!IInv /\ Alike /\ Alike'
  BY NextKeepsAlike DEF BackendsIInv, Alike
<1>2. /\ gcBuilder.pairs = B!Items /\ gcBuilder'.pairs = B!Items'
      /\ GcStatus = B!Status /\ GcStatus' = B!Status'
  BY <1>1 DEF Alike
<1>3. ASSUME gcPairs' = gcPairs, BuilderStays PROVE Step
  BY <1>2, <1>3 DEF BuilderStays, InterpretedInWasm!vars
<1>4. ASSUME UNCHANGED gcVars, BuilderStays PROVE Step
  BY <1>3, <1>4 DEF gcVars
<1>5. ASSUME NEW k \in Key, MapRemove(k) PROVE Step
  <2>1. gcPairs' = InterpretedInWasm!Without(gcPairs, k) /\ BuilderStays
    BY <1>1, <1>5, MapRemoveAlike, WasmWithout
  <2>2. InterpretedInWasm!Unbind(k)
    BY <1>2, <2>1 DEF InterpretedInWasm!Unbind, BuilderStays
  <2>. QED  BY <2>2 DEF InterpretedInWasm!Next
<1>6. ASSUME NEW k \in Key, NEW v \in Value, MapSet(k, v) PROVE Step
  <2>1. gcPairs' = InterpretedInWasm!Bind(gcPairs, k, v) /\ BuilderStays
    BY <1>1, <1>6, MapSetAlike, WasmBind
  <2>2. InterpretedInWasm!Set(k, v)
    BY <1>2, <2>1 DEF InterpretedInWasm!Set, BuilderStays
  <2>. QED  BY <2>2 DEF InterpretedInWasm!Next
<1>7. ASSUME Building PROVE Step
  <2>1. ASSUME BuilderAlloc PROVE Step
    <3>1. CASE UNCHANGED gcVars /\ BuilderStays
      BY <1>4, <3>1
    <3>2. CASE /\ B!Items = <<>> /\ B!Items' = <<>>
               /\ B!Status = "none" /\ B!Status' = "open" /\ gcPairs' = gcPairs
      <4>1. InterpretedInWasm!BuilderAlloc
        BY <1>2, <3>2 DEF InterpretedInWasm!BuilderAlloc
      <4>. QED  BY <4>1 DEF InterpretedInWasm!Next
    <3>. QED  BY <1>1, <2>1, <3>1, <3>2, BuilderAllocAlike
  <2>2. ASSUME NEW k \in Key, NEW v \in Value, gcPairs' = gcPairs,
               B!Items' = Append(B!Items, [key |-> k, val |-> v]),
               B!Status = "open", B!Status' = "open"
        PROVE  Step
    <3>1. InterpretedInWasm!BuilderSet(k, v)
      BY <1>2, <2>2 DEF InterpretedInWasm!BuilderSet
    <3>. QED  BY <3>1 DEF InterpretedInWasm!Next
  <2>. HIDE DEF Step
  <2>3. ASSUME NEW k \in Key, NEW v \in Value, BuilderSet(k, v) PROVE Step
    BY <1>1, <1>4, <2>2, <2>3, BuilderSetAlike
  <2>4. ASSUME BuilderSetAfterGrowth PROVE Step
    BY <1>1, <2>2, <2>4, BuilderSetAfterGrowthAlike
  <2>5. ASSUME FreezeBegins PROVE Step
    BY <1>1, <1>4, <2>5, FreezeBeginsAlike
  <2>. QED  BY <1>7, <2>1, <2>3, <2>4, <2>5 DEF Building
<1>8. ASSUME BuilderFreeze PROVE Step
  <2>1. PICK pairs \in Seq(Pair) : pairs = B!Items
    BY <1>1, <1>8, BuilderFreezeAlike
  <2>2. \A f : BoundsOf(pairs, f) => gcPairs' = f[Len(pairs)]
    BY <1>1, <1>8, <2>1, BuilderFreezeAlike
  <2>3. gcPairs' = InterpretedInWasm!FromPairs(pairs)
    BY <2>1, <2>2, WasmFromPairs
  <2>4. B!Items' = B!Items /\ B!Status = "open" /\ B!Status' = "frozen"
    BY <1>1, <1>8, BuilderFreezeAlike
  <2>5. InterpretedInWasm!BuilderFreeze
    BY <1>2, <2>1, <2>3, <2>4 DEF InterpretedInWasm!BuilderFreeze
  <2>. QED  BY <2>5 DEF InterpretedInWasm!Next
<1>9. ASSUME UseAfterFreeze PROVE Step
  BY <1>1, <1>4, <1>9, UseAfterFreezeAlike
<1>10. ASSUME BuilderDrop PROVE Step
  <2>1. gcPairs' = gcPairs /\ B!Items' = <<>> /\ B!Status' = "none"
    BY <1>1, <1>10, BuilderDropAlike
  <2>2. InterpretedInWasm!BuilderDrop
    BY <1>2, <2>1 DEF InterpretedInWasm!BuilderDrop
  <2>. QED  BY <2>2 DEF InterpretedInWasm!Next
<1>11. ASSUME UNCHANGED allVars PROVE Step
  BY <1>4, <1>11, BuilderUnchanged DEF allVars
<1>. HIDE DEF Step
<1>12. Step
  BY <1>5, <1>6, <1>7, <1>8, <1>9, <1>10, <1>11 DEF BackendsNext
<1>. QED  BY <1>12 DEF Step

\* So do the map and the builder of wasm32-gc: after the same operations, the entries that
\* the interpreter has, in its order.
THEOREM WasmImplementsInterpreter == BackendsSpec => GcRefines
BY InitRefinesInWasm, NextRefinesInWasm, TableStaysSound, PTL
DEF BackendsSpec, GcRefines, InterpretedInWasm!Spec
=============================================================================
