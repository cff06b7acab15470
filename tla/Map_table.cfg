SPECIFICATION BackendsSpec
CONSTANTS
  k1 = k1
  k2 = k2
  k3 = k3
  k4 = k4
  k5 = k5
  Key = {k1, k2, k3, k4, k5}
  Value = {v1, v2}
  Hash <- MCHash
  GcHash <- MCGcHash
  Empty = Empty
  Tombstone = Tombstone
  MinBuckets = 4
  MinIndex = 4
  InitialCapacity = 1
  InitialArray = 1
  Buffer = {b1, b2, b3}
  MaxLiteral = 2
  MaxItems = 3
  MaxCapacity = 8
SYMMETRY BufferSymmetry
CHECK_DEADLOCK FALSE
INVARIANTS BackendsTypeOK LookupMatchesIteration OrderListsOccupied ProbeEnds BuilderIntact IndexMatchesPairs HalfEmpty
PROPERTIES Refines GcRefines
