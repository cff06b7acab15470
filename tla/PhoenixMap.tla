---------------------------- MODULE PhoenixMap -----------------------------
(***************************************************************************)
(* The hash table behind a Phoenix Map                                     *)
(* (phoenix-runtime/src/map_methods.rs): open addressing with linear       *)
(* probing, tombstones, and an insertion-order array of bucket numbers.    *)
(*                                                                         *)
(* Maps are immutable: set and remove build the table of a new map.  The   *)
(* variables hold the table of the newest map; the earlier ones are never  *)
(* written.  A bucket is its tag and, when occupied, its pair; the order   *)
(* array is its meaningful prefix, so its length is the header's length.   *)
(***************************************************************************)
EXTENDS Naturals, Sequences, SequencesExt, FiniteSets, FiniteSetsExt

CONSTANTS
  Key, Value,
  Hash,         \* hash_key, a function from Key to Nat
  MinBuckets,   \* MIN_BUCKETS, a power of two (8 in the code)
  Empty, Tombstone,
  MaxLiteral,   \* bound: the pairs of a map literal
  MaxCapacity   \* bound: the largest table an insertion may build

ASSUME HashAssumption == Hash \in [Key -> Nat]
ASSUME MinBucketsAssumption == MinBuckets \in Nat \ {0, 1}

\* A tag is neither a pair nor a bucket number.
ASSUME TagAssumption ==
  Empty # Tombstone /\ \A tag \in {Empty, Tombstone} : tag \notin Nat \cup [key : Key, val : Value]

VARIABLES
  placeholder,  \* the stored key and value sizes are those of an unresolved type
  buckets,      \* [0..capacity - 1 -> Empty, Tombstone or the pair]
  order         \* the occupied buckets, in insertion order

vars == <<placeholder, buckets, order>>

Pair == [key : Key, val : Value]

Occupied(b) == b \notin {Empty, Tombstone}

-----------------------------------------------------------------------------
(* The helpers, on tables t = [buckets, order].                            *)

CapacityOf(t) == Cardinality(DOMAIN t.buckets)

LoadFactorNum == 7
LoadFactorDen == 10

\* next_power_of_two, from MinBuckets up, which is a power of two.
PowerFrom(n) ==
  LET doubled[i \in 0..n] == IF i = 0 THEN MinBuckets ELSE 2 * doubled[i - 1]
  IN  Min({c \in {doubled[i] : i \in 0..n} : c >= n})

\* buckets_for: room for n entries below the load threshold.
BucketsFor(n) ==
  IF n = 0 THEN MinBuckets
  ELSE PowerFrom(((n * LoadFactorDen) \div LoadFactorNum) + 1)

\* phx_map_alloc
FreshTable(capacity) ==
  [buckets |-> [i \in 0..(capacity - 1) |-> Empty], order |-> <<>>]

\* The n-th bucket that a probe for k visits.
Visit(t, k, n) == (Hash[k] + n) % CapacityOf(t)

Holds(t, i, k) == Occupied(t.buckets[i]) /\ t.buckets[i].key = k

\* probe: the walk stops at the key or at an empty bucket; a vacant place is the
\* first tombstone passed, if any.  When every bucket is occupied and none holds
\* the key, the runtime aborts: there is no such place.
NoPlace == [found |-> FALSE, at |-> Empty]

Probe(t, k) ==
  LET walk  == 0..(CapacityOf(t) - 1)
      stops == {n \in walk : \/ t.buckets[Visit(t, k, n)] = Empty
                             \/ Holds(t, Visit(t, k, n), k)}
      tombs == {n \in walk : /\ t.buckets[Visit(t, k, n)] = Tombstone
                             /\ \A s \in stops : n < s}
      found == stops # {} /\ Holds(t, Visit(t, k, Min(stops)), k)
  IN  CASE found -> [found |-> TRUE, at |-> Visit(t, k, Min(stops))]
        [] ~found /\ tombs # {} -> [found |-> FALSE, at |-> Visit(t, k, Min(tombs))]
        [] ~found /\ tombs = {} /\ stops # {} ->
             [found |-> FALSE, at |-> Visit(t, k, Min(stops))]
        [] OTHER -> NoPlace

\* The pair goes to bucket i and i to the end of the order array.
PutAt(t, i, k, v) ==
  [buckets |-> [t.buckets EXCEPT ![i] = [key |-> k, val |-> v]],
   order   |-> Append(t.order, i)]

\* insert_into_fresh: into the first bucket of the walk that is not occupied.
InsertIntoFresh(t, k, v) ==
  LET free == {n \in 0..(CapacityOf(t) - 1) : ~Occupied(t.buckets[Visit(t, k, n)])}
  IN  PutAt(t, Visit(t, k, Min(free)), k, v)

\* Mutant: a rehash walks the old buckets instead of the order array.
M_RehashByBucket(t, capacity) ==
  FoldLeft(LAMBDA u, i : InsertIntoFresh(u, t.buckets[i].key, t.buckets[i].val),
           FreshTable(capacity), SetToSortSeq(Range(t.order), <))

\* rehash_into: the entries in insertion order into a table of another capacity.
Rehash(t, capacity) ==
  LET moved[n \in 0..Len(t.order)] ==
        IF n = 0 THEN FreshTable(capacity)
        ELSE LET p == t.buckets[t.order[n]]
             IN  InsertIntoFresh(moved[n - 1], p.key, p.val)
  IN  moved[Len(t.order)]

\* One pair of phx_map_from_pairs: a duplicate key overwrites the value in place.
AddPair(t, p) ==
  LET at == Probe(t, p.key)
  IN  IF at.found
      THEN [t EXCEPT !.buckets[at.at] = p]
      ELSE PutAt(t, at.at, p.key, p.val)

\* phx_map_from_pairs, and with no pairs phx_map_alloc.
FromPairs(pairs) ==
  LET built[n \in 0..Len(pairs)] ==
        IF n = 0 THEN FreshTable(BucketsFor(Len(pairs)))
        ELSE AddPair(built[n - 1], pairs[n])
  IN  built[Len(pairs)]

-----------------------------------------------------------------------------
(* The operations.                                                         *)

Table == [buckets |-> buckets, order |-> order]
Length == Len(order)

Becomes(t) == buckets' = t.buckets /\ order' = t.order

\* A literal; an empty one may be of an unresolved type.
InitFrom(pairs) ==
  /\ buckets = FromPairs(pairs).buckets
  /\ order = FromPairs(pairs).order
  /\ placeholder \in IF pairs = <<>> THEN BOOLEAN ELSE {FALSE}

\* Mutant: the new table keeps the unresolved sizes.
M_SetRecoveringKeepsShape(k, v) ==
  /\ Length = 0 /\ placeholder
  /\ Becomes(InsertIntoFresh(FreshTable(MinBuckets), k, v))
  /\ UNCHANGED placeholder

\* The first insertion into an empty map of unresolved type starts afresh, with
\* the caller's sizes.
SetRecovering(k, v) ==
  /\ Length = 0 /\ placeholder
  /\ Becomes(InsertIntoFresh(FreshTable(MinBuckets), k, v))
  /\ placeholder' = FALSE

SetExisting(k, v) ==
  LET at == Probe(Table, k)
  IN  /\ ~placeholder /\ at.found
      /\ buckets' = [buckets EXCEPT ![at.at].val = v]
      /\ UNCHANGED <<placeholder, order>>

\* Mutant: the load is that of the table before the insertion.
M_NeedsGrowLate(length, capacity) ==
  (length - 1) * LoadFactorDen > capacity * LoadFactorNum

NeedsGrow(length, capacity) == length * LoadFactorDen > capacity * LoadFactorNum

SetNew(k, v) ==
  LET at       == Probe(Table, k)
      capacity == CapacityOf(Table)
  IN  /\ ~placeholder /\ ~at.found /\ at # NoPlace
      /\ IF NeedsGrow(Length + 1, capacity)
         THEN /\ capacity * 2 <= MaxCapacity
              /\ Becomes(InsertIntoFresh(Rehash(Table, capacity * 2), k, v))
         ELSE Becomes(PutAt(Table, at.at, k, v))
      /\ UNCHANGED placeholder

\* phx_map_set_raw
SetRaw(k, v) == SetRecovering(k, v) \/ SetExisting(k, v) \/ SetNew(k, v)

\* An empty map is replaced by a fresh one of the same stored sizes.
RemoveFromEmpty ==
  /\ Length = 0
  /\ Becomes(FreshTable(BucketsFor(0)))
  /\ UNCHANGED placeholder

\* Mutant: the bucket becomes empty.
M_RemoveFoundEmpties(k) ==
  LET at == Probe(Table, k)
  IN  /\ Length > 0 /\ at.found
      /\ buckets' = [buckets EXCEPT ![at.at] = Empty]
      /\ order' = RemoveFirst(order, at.at)
      /\ UNCHANGED placeholder

\* Mutant: the order array loses its last entry instead of the removed one.
M_RemoveFoundTruncates(k) ==
  LET at == Probe(Table, k)
  IN  /\ Length > 0 /\ at.found
      /\ buckets' = [buckets EXCEPT ![at.at] = Tombstone]
      /\ order' = Front(order)
      /\ UNCHANGED placeholder

\* The bucket becomes a tombstone, and the order array closes the gap; a key that
\* is absent leaves a copy.
RemoveFound(k) ==
  LET at == Probe(Table, k)
  IN  /\ Length > 0
      /\ IF at.found
         THEN /\ buckets' = [buckets EXCEPT ![at.at] = Tombstone]
              /\ order' = RemoveFirst(order, at.at)
         ELSE UNCHANGED <<buckets, order>>
      /\ UNCHANGED placeholder

\* phx_map_remove_raw
RemoveRaw(k) == RemoveFromEmpty \/ RemoveFound(k)

-----------------------------------------------------------------------------
(* What the table means.                                                   *)

\* phx_map_keys and phx_map_values list the buckets of the order array.
Entries == [i \in DOMAIN order |-> buckets[order[i]]]

\* phx_map_get_raw
Get(k) ==
  LET at == Probe(Table, k)
  IN  IF Length > 0 /\ at.found THEN {buckets[at.at].val} ELSE {}

-----------------------------------------------------------------------------
(* Properties.                                                             *)

\* Buckets hold tags or pairs and the order array holds bucket numbers; a table
\* of unresolved type has no entries.
TypeOK ==
  /\ placeholder \in BOOLEAN
  /\ buckets \in [0..(CapacityOf(Table) - 1) -> {Empty, Tombstone} \cup Pair]
  /\ order \in Seq(DOMAIN buckets)
  /\ placeholder => order = <<>>

\* Every entry that iteration lists can be looked up, whatever removals and tombstone
\* reuse happened between the home of its key and its bucket, and nothing else can:
\* a lookup answers from the entries and from nothing more.
LookupMatchesIteration ==
  \A k \in Key : Get(k) = {Entries[i].val : i \in {j \in DOMAIN order : Entries[j].key = k}}

\* The order array lists each occupied bucket once, and no other bucket.
OrderListsOccupied ==
  /\ IsInjective(order)
  /\ Range(order) = {i \in DOMAIN buckets : Occupied(buckets[i])}

\* The load factor holds, counting no tombstones, and so every probe ends: even in
\* a table without an empty bucket there is a place for a new key, and the abort of
\* probe is never reached.
ProbeEnds ==
  /\ Length * LoadFactorDen <= CapacityOf(Table) * LoadFactorNum
  /\ \A k \in Key : Probe(Table, k) # NoPlace

-----------------------------------------------------------------------------
(* The inductive invariant: what the properties rest on, for tables t.     *)

Shape(t) ==
  /\ CapacityOf(t) \in Nat \ {0}
  /\ t.buckets \in [0..(CapacityOf(t) - 1) -> {Empty, Tombstone} \cup Pair]
  /\ t.order \in Seq(0..(CapacityOf(t) - 1))

\* The order array has each occupied bucket once.
OrderExact(t) ==
  /\ \A i \in DOMAIN t.order : Occupied(t.buckets[t.order[i]])
  /\ \A b \in DOMAIN t.buckets :
       Occupied(t.buckets[b]) => \E i \in DOMAIN t.order : t.order[i] = b
  /\ \A i, j \in DOMAIN t.order : t.order[i] = t.order[j] => i = j

KeysOnce(t) ==
  \A a, b \in DOMAIN t.buckets :
    Occupied(t.buckets[a]) /\ Holds(t, b, t.buckets[a].key) => a = b

\* A walk for k comes to bucket b, and to no empty one before.
ComesTo(t, k, b) ==
  \E n \in 0..(CapacityOf(t) - 1) :
    /\ Visit(t, k, n) = b
    /\ \A m \in 0..(n - 1) : t.buckets[Visit(t, k, m)] # Empty

NoneCutOff(t) ==
  \A b \in DOMAIN t.buckets :
    Occupied(t.buckets[b]) => ComesTo(t, t.buckets[b].key, b)

Sound(t) == Shape(t) /\ OrderExact(t) /\ KeysOnce(t) /\ NoneCutOff(t)

\* Room for n entries below the load threshold.
RoomFor(n, capacity) == n * LoadFactorDen <= capacity * LoadFactorNum

MapIInv ==
  /\ Sound(Table)
  /\ RoomFor(Length, CapacityOf(Table)) /\ CapacityOf(Table) >= 2
  /\ placeholder \in BOOLEAN /\ (placeholder => order = <<>>)
=============================================================================
