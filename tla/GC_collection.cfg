SPECIFICATION FairSpec
CONSTANTS
  Thread = {t1}
  Addr = {a1, a2}
  Null = Null
  NoThread = NoThread
  RequestSize = {4}
  MaxPayload = 8
  WordSize = 4
  SizeModulus = 4096
  DefaultThreshold = 8
  Threshold = {16}
  MaxFrames = 1
  MaxSlots = 2
  MaxPins = 0
  MaxShutdowns = 0
INVARIANTS NoDangling AccountingExact MarksClearBetweenCollections
PROPERTIES SweepExact CollectionTerminates
