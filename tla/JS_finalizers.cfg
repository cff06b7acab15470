SPECIFICATION FairSpec
CONSTANTS
  Addr = {a1}
  None = None
  MaxClosures = 2
  MaxWrappers = 3
  MaxDepth = 2
  MaxFrames = 2
  MaxStringArgs = 0
CHECK_DEADLOCK FALSE
PROPERTIES DroppedIsUnpinned
