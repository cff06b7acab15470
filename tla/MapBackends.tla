---------------------------- MODULE MapBackends ----------------------------
(***************************************************************************)
(* One program, compiled by both back ends: its newest map and its builder *)
(* in the native runtime (PhoenixMap, MapBuilder) and in wasm32-gc         *)
(* (WasmGcMap).  The program makes a map, from a literal or with a         *)
(* builder, and then sets and removes keys; each operation runs in both.   *)
(* Both have to behave as the interpreter does (OrderedMap).               *)
(***************************************************************************)
EXTENDS PhoenixMap

CONSTANTS
  GcHash, MinIndex,                 \* the hash and the shortest index of wasm32-gc
  InitialCapacity, InitialArray,    \* the pairs a new builder has room for
  Buffer,                           \* the addresses of native buffers
  MaxItems                          \* bound: the pairs given to the builder

ASSUME BuilderAssumption == InitialCapacity \in Nat \ {0}
ASSUME LiteralAssumption == MaxLiteral \in Nat
ASSUME GcAssumption ==
  GcHash \in [Key -> Nat] /\ MinIndex \in Nat \ {0, 1} /\ InitialArray \in Nat \ {0}

VARIABLES
  buffers, handle, transient, call,  \* the native builder
  gcPairs, gcIdx, gcBuilder,         \* the wasm32-gc back end
  phase   \* "build": up to the builder's end; "map": after it; "aborted"

B == INSTANCE MapBuilder
Gc == INSTANCE WasmGcMap WITH Hash <- GcHash

builderVars == <<buffers, handle, transient, call>>
gcVars == <<gcPairs, gcIdx, gcBuilder>>
allVars == <<vars, builderVars, gcVars, phase>>

-----------------------------------------------------------------------------

FromLiteral ==
  /\ phase = "map"
  /\ \E pairs \in BoundedSeq(Pair, MaxLiteral) :
       /\ InitFrom(pairs)
       /\ Gc!InitFrom(pairs)

WithBuilder ==
  /\ phase = "build"
  /\ InitFrom(<<>>) /\ ~placeholder
  /\ Gc!InitFrom(<<>>)

BackendsInit == B!InitialState /\ (FromLiteral \/ WithBuilder)

MapSet(k, v) ==
  /\ phase = "map"
  /\ SetRaw(k, v) /\ Gc!MapSet(k, v)
  /\ UNCHANGED <<builderVars, phase>>

MapRemove(k) ==
  /\ phase = "map"
  /\ RemoveRaw(k) /\ Gc!MapRemove(k)
  /\ UNCHANGED <<builderVars, phase>>

\* The steps of the native calls; wasm32-gc does its part in the last one.
BuilderAlloc ==
  \/ \E b \in Buffer : B!AllocTheBuffer(b) /\ UNCHANGED gcVars
  \/ B!AllocHandle /\ Gc!BuilderAlloc

BuilderSet(k, v) ==
  /\ Len(B!Items) < MaxItems
  /\ \/ B!SetInPlace(k, v) /\ Gc!BuilderSet(k, v)
     \/ \E b \in Buffer : B!Grow(k, v, b) /\ UNCHANGED gcVars

BuilderSetAfterGrowth ==
  B!SetInNewBuffer /\ Gc!BuilderSet(call.pair.key, call.pair.val)

FreezeBegins == (B!Freeze \/ B!FreezeAllocs) /\ UNCHANGED gcVars

Building ==
  /\ phase = "build"
  /\ \/ BuilderAlloc
     \/ \E k \in Key, v \in Value : BuilderSet(k, v)
     \/ BuilderSetAfterGrowth
     \/ FreezeBegins
  /\ UNCHANGED <<vars, phase>>

\* The map that freeze returns; phx_map_from_pairs builds its table.
BuilderFreeze ==
  /\ phase = "build"
  /\ B!FreezeReturns /\ Gc!BuilderFreeze
  /\ Becomes(FromPairs(B!FrozenPairs)) /\ UNCHANGED placeholder
  /\ UNCHANGED phase

\* The program uses the builder once more, and ends ...
UseAfterFreeze ==
  /\ phase = "build" /\ phase' = "aborted"
  /\ B!SetOrFreezeAborts /\ Gc!BuilderTraps
  /\ UNCHANGED <<vars, builderVars>>

\* ... or goes on with the map alone.
BuilderDrop ==
  /\ phase = "build" /\ phase' = "map"
  /\ B!SetOrFreezeAborts /\ B!Drop /\ Gc!BuilderDrop
  /\ UNCHANGED vars

BackendsNext ==
  \/ \E k \in Key : MapRemove(k) \/ \E v \in Value : MapSet(k, v)
  \/ Building
  \/ BuilderFreeze \/ UseAfterFreeze \/ BuilderDrop

BackendsSpec == BackendsInit /\ [][BackendsNext]_allVars

-----------------------------------------------------------------------------
(* Properties.                                                             *)

\* Types of the tables, the index and the builders.
BackendsTypeOK == TypeOK /\ Gc!TypeOK

\* The native builder and its buffers survive every collection while they are used.
BuilderIntact == B!BuilderIntact

\* The index of the wasm32-gc map answers from the pairs of that map ...
IndexMatchesPairs == Gc!IndexMatchesPairs

\* ... and has empty slots, without which its lookups would not end.
HalfEmpty == Gc!HalfEmpty

InterpretedNatively ==
  INSTANCE OrderedMap WITH entries <- Entries, items <- B!Items, status <- B!Status

GcStatus ==
  IF gcBuilder.frozen THEN "frozen" ELSE IF gcBuilder.capacity > 0 THEN "open" ELSE "none"

InterpretedInWasm ==
  INSTANCE OrderedMap WITH
    entries <- gcPairs, items <- gcBuilder.pairs, status <- GcStatus

\* The native map and builder implement those of the interpreter: the same entries in
\* the same order after the same operations, however the table and the buffers grew.
Refines == InterpretedNatively!Spec

\* So do the map and builder of wasm32-gc.
GcRefines == InterpretedInWasm!Spec

-----------------------------------------------------------------------------
(* The inductive invariant.                                                *)

\* Both back ends have their builder at the same point, with the same pairs; a map that
\* a builder is to make has its types.
BackendsIInv ==
  /\ MapIInv /\ B!IInv /\ Gc!IInv
  /\ gcBuilder.pairs = B!Items /\ GcStatus = B!Status
  /\ phase = "build" => ~placeholder
=============================================================================
