---------------------------- MODULE WasmGcMap ------------------------------
(***************************************************************************)
(* The Map and the MapBuilder of the wasm32-gc back end                    *)
(* (phoenix-cranelift/src/wasm/wasm_gc/maps.rs, map_hash_index.rs).  A map *)
(* keeps its keys and values in insertion order and an index: an           *)
(* open-addressing array of slot numbers, without tombstones, which set    *)
(* and remove build anew.  The memory is the engine's to collect.          *)
(*                                                                         *)
(* The arrays $keys and $vals are the sequence of their pairs up to $len.  *)
(* Slots are numbered from 0, as in the code.                              *)
(***************************************************************************)
EXTENDS Integers, Sequences, SequencesExt, FiniteSets, FiniteSetsExt

CONSTANTS
  Key, Value,
  Hash,          \* emit_map_hash, a function from Key to Nat
  MinIndex,      \* the shortest index, a power of two (8 in the code)
  InitialArray   \* MB_INITIAL_CAPACITY, the arrays of a new builder (8 in the code)

VARIABLES
  gcPairs,       \* $keys and $vals of the newest map
  gcIdx,         \* $idx of the newest map
  gcBuilder      \* the builder: its pairs, the length of its arrays, $frozen

IDX_EMPTY == -1

-----------------------------------------------------------------------------
(* The index, on maps m = [pairs, idx].                                    *)

\* Mutant: room for n entries and no empty slot beside them.
M_IdxLenTight(n) == Min({c \in {MinIndex * 2^i : i \in 0..n} : c >= n})

\* idx_len_for: half of the index stays empty.
IdxLenFor(n) ==
  LET doubled[i \in 0..n] == IF i = 0 THEN MinIndex ELSE 2 * doubled[i - 1]
  IN  Min({c \in {doubled[i] : i \in 0..n} : c >= 2 * n})

IdxLen(idx) == Cardinality(DOMAIN idx)

\* The n-th index slot that the walk for k visits.
At(idx, k, n) == (Hash[k] + n) % IdxLen(idx)

NewIdx(length) == [h \in 0..(length - 1) |-> IDX_EMPTY]

\* emit_index_lookup: the slot of k or IDX_EMPTY, and where the walk ended.  An
\* index without an empty slot would be walked for ever.
Endless == [found |-> IDX_EMPTY, h |-> IDX_EMPTY]

Lookup(m, k) ==
  LET slot(n) == m.idx[At(m.idx, k, n)]
      stops == {n \in 0..(IdxLen(m.idx) - 1) :
                  slot(n) = IDX_EMPTY \/ m.pairs[slot(n) + 1].key = k}
  IN  IF stops = {} THEN Endless
      ELSE [found |-> slot(Min(stops)), h |-> At(m.idx, k, Min(stops))]

\* emit_index_insert
IndexInsert(idx, k, slot) ==
  LET free == {n \in 0..(IdxLen(idx) - 1) : idx[At(idx, k, n)] = IDX_EMPTY}
  IN  [idx EXCEPT ![At(idx, k, Min(free))] = slot]

\* emit_build_idx: the keys are distinct.
BuildIdx(pairs, length) ==
  LET built[n \in 0..Len(pairs)] ==
        IF n = 0 THEN NewIdx(length)
        ELSE IndexInsert(built[n - 1], pairs[n].key, n - 1)
  IN  built[Len(pairs)]

\* Mutant: the pair of a key that is there goes to the last slot.
M_PutLast(m, p) ==
  LET at == Lookup(m, p.key)
  IN  IF at.found # IDX_EMPTY
      THEN [m EXCEPT !.pairs[Len(m.pairs)] = p]
      ELSE [pairs |-> Append(m.pairs, p),
            idx   |-> [m.idx EXCEPT ![at.h] = Len(m.pairs)]]

\* Mutant: the slot number goes to the home of the key.
M_PutAtHome(m, p) ==
  LET at == Lookup(m, p.key)
  IN  IF at.found # IDX_EMPTY
      THEN [m EXCEPT !.pairs[at.found + 1].val = p.val]
      ELSE [pairs |-> Append(m.pairs, p),
            idx   |-> [m.idx EXCEPT ![At(m.idx, p.key, 0)] = Len(m.pairs)]]

\* A pair overwrites the value of its key, or goes to the end, its slot number to
\* the place where the lookup ended.
Put(m, p) ==
  LET at == Lookup(m, p.key)
  IN  IF at.found # IDX_EMPTY
      THEN [m EXCEPT !.pairs[at.found + 1].val = p.val]
      ELSE [pairs |-> Append(m.pairs, p),
            idx   |-> [m.idx EXCEPT ![at.h] = Len(m.pairs)]]

\* Op::MapAlloc and MapBuilder.freeze: the index is as long as if no key came twice.
Replay(pairs) ==
  LET replayed[n \in 0..Len(pairs)] ==
        IF n = 0 THEN [pairs |-> <<>>, idx |-> NewIdx(IdxLenFor(Len(pairs)))]
        ELSE Put(replayed[n - 1], pairs[n])
  IN  replayed[Len(pairs)]

-----------------------------------------------------------------------------
(* The operations.                                                         *)

Becomes(m) == gcPairs' = m.pairs /\ gcIdx' = m.idx

NoBuilder == [pairs |-> <<>>, capacity |-> 0, frozen |-> FALSE]

InitFrom(pairs) ==
  /\ gcPairs = Replay(pairs).pairs
  /\ gcIdx = Replay(pairs).idx
  /\ gcBuilder = NoBuilder

\* Map.set: copies of the arrays, an index with room for one entry more.
MapSet(k, v) ==
  LET length == IdxLenFor(Len(gcPairs) + 1)
  IN  /\ Becomes(Put([pairs |-> gcPairs, idx |-> BuildIdx(gcPairs, length)],
                     [key |-> k, val |-> v]))
      /\ UNCHANGED gcBuilder

\* The pairs of other keys.
Without(pairs, k) ==
  LET kept[n \in 0..Len(pairs)] ==
        IF n = 0 THEN <<>>
        ELSE IF pairs[n].key = k THEN kept[n - 1] ELSE Append(kept[n - 1], pairs[n])
  IN  kept[Len(pairs)]

\* Map.remove: the pairs that stay, an index for just as many.
MapRemove(k) ==
  LET rest == Without(gcPairs, k)
  IN  /\ Becomes([pairs |-> rest, idx |-> BuildIdx(rest, IdxLenFor(Len(rest)))])
      /\ UNCHANGED gcBuilder

BuilderAlloc ==
  /\ gcBuilder' = [NoBuilder EXCEPT !.capacity = InitialArray]
  /\ UNCHANGED <<gcPairs, gcIdx>>

\* MapBuilder.set appends; full arrays are replaced by ones of twice the length.
BuilderSet(k, v) ==
  /\ ~gcBuilder.frozen
  /\ gcBuilder' =
       [gcBuilder EXCEPT
          !.pairs = Append(@, [key |-> k, val |-> v]),
          !.capacity = IF Len(gcBuilder.pairs) = @ THEN 2 * @ ELSE @]
  /\ UNCHANGED <<gcPairs, gcIdx>>

BuilderFreeze ==
  /\ ~gcBuilder.frozen
  /\ gcBuilder' = [gcBuilder EXCEPT !.frozen = TRUE]
  /\ Becomes(Replay(gcBuilder.pairs))

\* set and freeze of a frozen builder trap.
BuilderTraps == gcBuilder.frozen /\ UNCHANGED <<gcPairs, gcIdx, gcBuilder>>

\* The program lets go of the builder.
BuilderDrop ==
  /\ gcBuilder' = NoBuilder
  /\ UNCHANGED <<gcPairs, gcIdx>>

\* Map.get
Get(k) ==
  LET at == Lookup([pairs |-> gcPairs, idx |-> gcIdx], k)
  IN  IF at.found # IDX_EMPTY THEN {gcPairs[at.found + 1].val} ELSE {}

-----------------------------------------------------------------------------
(* Properties.                                                             *)

Pair == [key : Key, val : Value]

\* Pairs and slot numbers; a builder never holds more than its arrays.
TypeOK ==
  /\ gcPairs \in Seq(Pair)
  /\ gcIdx \in [0..(IdxLen(gcIdx) - 1) -> {IDX_EMPTY} \cup 0..(Len(gcPairs) - 1)]
  /\ gcBuilder \in [pairs : Seq(Pair), capacity : Nat, frozen : BOOLEAN]
  /\ Len(gcBuilder.pairs) <= gcBuilder.capacity

\* The index answers from the pairs of its own map: each key that is there at its
\* slot, and no other key.
IndexMatchesPairs ==
  \A k \in Key : Get(k) = {gcPairs[i].val : i \in {j \in DOMAIN gcPairs : gcPairs[j].key = k}}

\* The lookup loops have no bound of their own: they end because at least half of
\* the index is empty, whatever the map went through.
HalfEmpty ==
  2 * Cardinality({h \in DOMAIN gcIdx : gcIdx[h] # IDX_EMPTY}) <= IdxLen(gcIdx)

-----------------------------------------------------------------------------
(* The inductive invariant: what the properties rest on.                   *)

\* The walk for k comes to index slot h, and to no empty one before.
ComesTo(idx, k, h) ==
  \E n \in 0..(IdxLen(idx) - 1) :
    At(idx, k, n) = h /\ \A m \in 0..(n - 1) : idx[At(idx, k, m)] # IDX_EMPTY

\* The index has the first n of the pairs, each once and where its walk comes.
Indexed(pairs, n, idx) ==
  /\ IdxLen(idx) \in Nat \ {0}
  /\ idx \in [0..(IdxLen(idx) - 1) -> {IDX_EMPTY} \cup 0..(n - 1)]
  /\ \A slot \in 0..(n - 1) : \E h \in DOMAIN idx : idx[h] = slot
  /\ \A g, h \in DOMAIN idx : idx[g] = idx[h] /\ idx[g] # IDX_EMPTY => g = h
  /\ \A h \in DOMAIN idx :
       idx[h] # IDX_EMPTY => ComesTo(idx, pairs[idx[h] + 1].key, h)

\* Pairs of distinct keys, and an index of all of them with as much room again.
Sound(m) ==
  /\ m.pairs \in Seq(Pair)
  /\ \A i, j \in DOMAIN m.pairs : m.pairs[i].key = m.pairs[j].key => i = j
  /\ Indexed(m.pairs, Len(m.pairs), m.idx)
  /\ 2 * Len(m.pairs) <= IdxLen(m.idx)

IInv ==
  /\ Sound([pairs |-> gcPairs, idx |-> gcIdx])
  /\ gcBuilder \in [pairs : Seq(Pair), capacity : Nat, frozen : BOOLEAN]
  /\ Len(gcBuilder.pairs) <= gcBuilder.capacity
=============================================================================
