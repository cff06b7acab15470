---------------------------- MODULE OrderedMap -----------------------------
(***************************************************************************)
(* A Phoenix Map as the IR interpreter keeps it: the vector of its pairs,  *)
(* in the order in which the keys were first inserted                      *)
(* (phoenix-ir-interp/src/builtins/collections.rs).  `set` of a key that   *)
(* is present keeps its place; `remove` closes the gap; a builder collects *)
(* pairs and is frozen into a map.  It is the specification of the maps of *)
(* both back ends (PhoenixMap with MapBuilder, and WasmGcMap), which have  *)
(* to give the same answers in the same order.                             *)
(***************************************************************************)
EXTENDS Naturals, Sequences, SequencesExt

CONSTANTS Key, Value,
          MaxLiteral   \* bound: the pairs of a map literal

VARIABLES
  entries,   \* the pairs of the newest map, in insertion order
  items,     \* the pairs given to the builder, as they came
  status     \* the builder: "none", "open" or "frozen"

vars == <<entries, items, status>>

Pair == [key : Key, val : Value]

KeysOf(es) == {es[i].key : i \in DOMAIN es}

\* Map.set: the entries once k is bound to v.
Bind(es, k, v) ==
  IF k \in KeysOf(es)
  THEN [i \in DOMAIN es |-> IF es[i].key = k THEN [key |-> k, val |-> v] ELSE es[i]]
  ELSE Append(es, [key |-> k, val |-> v])

\* Op::MapAlloc, a map literal, binds its pairs in order: the last one wins.
FromPairs(pairs) ==
  LET bound[n \in 0..Len(pairs)] ==
        IF n = 0 THEN <<>> ELSE Bind(bound[n - 1], pairs[n].key, pairs[n].val)
  IN  bound[Len(pairs)]

Init ==
  /\ \E pairs \in BoundedSeq(Pair, MaxLiteral) : entries = FromPairs(pairs)
  /\ items = <<>>
  /\ status = "none"

\* Map.set and Map.remove make a new map.
Set(k, v) ==
  /\ entries' = Bind(entries, k, v)
  /\ UNCHANGED <<items, status>>

Without(es, k) ==
  LET kept[n \in 0..Len(es)] ==
        IF n = 0 THEN <<>>
        ELSE IF es[n].key = k THEN kept[n - 1] ELSE Append(kept[n - 1], es[n])
  IN  kept[Len(es)]

Unbind(k) ==
  /\ entries' = Without(entries, k)
  /\ UNCHANGED <<items, status>>

\* MapBuilder.alloc, and the end of a builder's use.
BuilderAlloc == status = "none" /\ status' = "open" /\ UNCHANGED <<entries, items>>

BuilderDrop == status' = "none" /\ items' = <<>> /\ UNCHANGED entries

\* MapBuilder.set appends the pair, whether or not its key is there.
BuilderSet(k, v) ==
  /\ status = "open"
  /\ items' = Append(items, [key |-> k, val |-> v])
  /\ UNCHANGED <<entries, status>>

\* MapBuilder.freeze: a map of its own; set and freeze of a frozen builder are errors.
BuilderFreeze ==
  /\ status = "open" /\ status' = "frozen"
  /\ entries' = FromPairs(items)
  /\ UNCHANGED items

Next ==
  \/ \E k \in Key : Unbind(k) \/ \E v \in Value : Set(k, v) \/ BuilderSet(k, v)
  \/ BuilderAlloc \/ BuilderDrop \/ BuilderFreeze

Spec == Init /\ [][Next]_vars
=============================================================================
