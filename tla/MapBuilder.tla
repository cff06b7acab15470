---------------------------- MODULE MapBuilder -----------------------------
(***************************************************************************)
(* The MapBuilder of the native runtime                                    *)
(* (phoenix-runtime/src/map_builder_methods.rs): a handle object that      *)
(* names a buffer of pairs, both on the collected heap.  A call allocates, *)
(* and an allocation may collect everything that neither the caller's      *)
(* frame nor the call's own transient frame reaches; so each allocation    *)
(* ends a step.  ListBuilder (list_builder_methods.rs) is the same with    *)
(* elements for pairs.                                                     *)
(*                                                                         *)
(* The program has one builder at a time.  Compiled code roots the handle  *)
(* in its frame for as long as it uses the builder (gc_roots.rs).          *)
(***************************************************************************)
EXTENDS Naturals, Sequences, SequencesExt, FiniteSets

CONSTANTS
  Key, Value,
  InitialCapacity,   \* INITIAL_CAPACITY (8 in the code)
  Buffer             \* the addresses a buffer object may have

VARIABLES
  buffers,    \* the contents of the buffer objects that are allocated
  handle,     \* the handle object, NoHandle when there is none
  transient,  \* the buffers rooted by the frame that a call pushed
  call        \* the runtime call under way and its locals

Pair == [key : Key, val : Value]

NoHandle == [allocated |-> FALSE]
NoCall == [op |-> "none"]

InitialState ==
  /\ buffers = <<>>
  /\ handle = NoHandle
  /\ transient = {}
  /\ call = NoCall

-----------------------------------------------------------------------------
(* Allocation.                                                             *)

\* What the collector reaches: the transient frame's root, and what the handle names.
Reachable ==
  transient \cup {h.data : h \in {handle} \ {NoHandle}}

Surviving(collected) ==
  IF collected THEN Restrict(buffers, DOMAIN buffers \cap Reachable) ELSE buffers

\* phx_gc_alloc of a buffer at address b, with or without a collection before it.
AllocBuffer(b, contents) ==
  \E collected \in BOOLEAN :
    /\ b \notin DOMAIN Surviving(collected)
    /\ buffers' = [a \in DOMAIN Surviving(collected) \cup {b} |->
                     IF a = b THEN contents ELSE Surviving(collected)[a]]

\* phx_gc_alloc of another object.
AllocOther == \E collected \in BOOLEAN : buffers' = Surviving(collected)

-----------------------------------------------------------------------------
(* phx_map_builder_alloc.                                                  *)

\* Mutant: the buffer is not rooted before the handle is allocated.
M_AllocTheBuffer(b) ==
  /\ call.op = "none" /\ ~handle.allocated
  /\ AllocBuffer(b, <<>>)
  /\ call' = [op |-> "alloc", buffer |-> b]
  /\ UNCHANGED <<handle, transient>>

\* The buffer first, rooted on a transient frame.
AllocTheBuffer(b) ==
  /\ call.op = "none" /\ ~handle.allocated
  /\ AllocBuffer(b, <<>>)
  /\ call' = [op |-> "alloc", buffer |-> b]
  /\ transient' = {b}
  /\ UNCHANGED handle

\* Then the handle, which the caller roots.
AllocHandle ==
  /\ call.op = "alloc"
  /\ AllocOther
  /\ handle' = [allocated |-> TRUE, length |-> 0, capacity |-> InitialCapacity,
                frozen |-> FALSE, data |-> call.buffer]
  /\ transient' = {}
  /\ call' = NoCall

-----------------------------------------------------------------------------
(* phx_map_builder_set.                                                    *)

Mutable == call.op = "none" /\ handle.allocated /\ ~handle.frozen

\* The pair goes to slot length of buffer b; one step with what precedes it.
Store(contents, b, pair) ==
  buffers' = [contents EXCEPT ![b] = Append(SubSeq(@, 1, handle.length), pair)]

SetInPlace(k, v) ==
  /\ Mutable /\ handle.length # handle.capacity
  /\ Store(buffers, handle.data, [key |-> k, val |-> v])
  /\ handle' = [handle EXCEPT !.length = @ + 1]
  /\ UNCHANGED <<transient, call>>

\* A full buffer: a larger one is allocated and rooted, while the old one is a local.
Grow(k, v, b) ==
  /\ Mutable /\ handle.length = handle.capacity
  /\ AllocBuffer(b, <<>>)
  /\ call' = [op |-> "grow", old |-> handle.data, new |-> b,
              pair |-> [key |-> k, val |-> v]]
  /\ transient' = {b}
  /\ UNCHANGED handle

\* The pairs are copied, the handle names the new buffer, the pair is stored.
SetInNewBuffer ==
  /\ call.op = "grow"
  /\ Store([buffers EXCEPT ![call.new] = buffers[call.old]], call.new, call.pair)
  /\ handle' = [handle EXCEPT !.data = call.new, !.capacity = 2 * @, !.length = @ + 1]
  /\ transient' = {}
  /\ call' = NoCall

-----------------------------------------------------------------------------
(* phx_map_builder_freeze.                                                 *)

\* The builder is marked frozen before anything is allocated.
Freeze ==
  /\ Mutable
  /\ handle' = [handle EXCEPT !.frozen = TRUE]
  /\ call' = [op |-> "freeze", data |-> handle.data, length |-> handle.length]
  /\ UNCHANGED <<buffers, transient>>

\* phx_map_from_pairs allocates the table, with the buffer's address in a local.
FreezeAllocs ==
  /\ call.op = "freeze"
  /\ AllocOther
  /\ call' = [call EXCEPT !.op = "fill"]
  /\ UNCHANGED <<handle, transient>>

\* The pairs phx_map_from_pairs reads.
FrozenPairs == SubSeq(buffers[call.data], 1, call.length)

\* The table is filled and returned.
FreezeReturns ==
  /\ call.op = "fill"
  /\ call' = NoCall
  /\ UNCHANGED <<buffers, handle, transient>>

\* assert_unfrozen aborts.
SetOrFreezeAborts == call.op = "none" /\ handle.allocated /\ handle.frozen

\* The caller's slot no longer holds the handle; a later collection frees it.
Drop ==
  /\ call.op = "none" /\ handle.allocated
  /\ handle' = NoHandle
  /\ buffers' = <<>>
  /\ UNCHANGED <<transient, call>>

-----------------------------------------------------------------------------
(* What the builder holds, and properties.                                 *)

Items ==
  IF handle.allocated THEN SubSeq(buffers[handle.data], 1, handle.length) ELSE <<>>

Status ==
  CASE ~handle.allocated -> "none"
    [] handle.allocated /\ handle.frozen /\ call.op = "none" -> "frozen"
    [] OTHER -> "open"

\* Every buffer that the handle names, or that a call has in a local and will read or
\* write, is allocated, at whichever allocations a collection ran; and the pairs fit.
BuilderIntact ==
  /\ handle.allocated =>
       /\ handle.data \in DOMAIN buffers
       /\ Len(buffers[handle.data]) = handle.length
       /\ handle.length <= handle.capacity
  /\ call.op = "alloc" => call.buffer \in DOMAIN buffers
  /\ call.op = "grow" => {call.old, call.new} \subseteq DOMAIN buffers
  /\ call.op \in {"freeze", "fill"} => call.data \in DOMAIN buffers

-----------------------------------------------------------------------------
(* The inductive invariant: what the property rests on.                    *)

Handle ==
  [allocated : {TRUE}, length : Nat, capacity : Nat \ {0}, frozen : BOOLEAN, data : Buffer]

\* The transient frame roots what only a local names, and the rest of a call's locals is
\* what the handle names.
CallIsRooted ==
  /\ call.op \in {"none", "alloc", "grow", "freeze", "fill"}
  /\ call.op \in {"none", "freeze", "fill"} => transient = {}
  /\ call.op \in {"grow", "freeze", "fill"} => handle.allocated
  /\ call.op = "alloc" =>
       /\ ~handle.allocated /\ transient = {call.buffer} /\ call.buffer \in Buffer
       /\ buffers[call.buffer] = <<>>
  /\ call.op = "grow" =>
       /\ transient = {call.new} /\ call.new \in Buffer
       /\ call.old = handle.data /\ call.new # call.old
       /\ handle.length = handle.capacity /\ call.pair \in Pair /\ ~handle.frozen
  /\ call.op \in {"freeze", "fill"} =>
       call.data = handle.data /\ call.length = handle.length /\ handle.frozen
  /\ call.op = "freeze" => DOMAIN call = {"op", "data", "length"}

IInv ==
  /\ handle \in {NoHandle} \cup Handle
  /\ \A b \in DOMAIN buffers : buffers[b] \in Seq(Pair)
  /\ CallIsRooted
  /\ BuilderIntact
=============================================================================
