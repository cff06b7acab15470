SPECIFICATION Spec
CONSTANTS
  Thread = {t1, t2}
  Addr = {a1, a2}
  Null = Null
  NoThread = NoThread
  RequestSize = {0}
  MaxPayload = 8
  WordSize = 8
  SizeModulus = 4096
  DefaultThreshold = 8
  Threshold = {}
  MaxFrames = 1
  MaxSlots = 1
  MaxPins = 1
  MaxShutdowns = 1
INVARIANTS TypeOK OthersHoldNothing FrameCountsExact SweepInv
SYMMETRY ThreadSymmetry
