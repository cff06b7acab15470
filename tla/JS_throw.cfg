SPECIFICATION Spec
CONSTANTS
  Addr = {a1, a2, a3}
  None = None
  MaxClosures = 1
  MaxWrappers = 1
  MaxDepth = 2
  MaxFrames = 2
  MaxStringArgs = 0
CHECK_DEADLOCK FALSE
SYMMETRY Symmetry
INVARIANTS PopMatches
