SPECIFICATION Spec
CONSTANTS
  Addr = {a1, a2}
  None = None
  MaxClosures = 2
  MaxWrappers = 2
  MaxDepth = 2
  MaxFrames = 3
  MaxStringArgs = 1
CHECK_DEADLOCK FALSE
SYMMETRY Symmetry
INVARIANTS TypeOK RetainedCallable OnePinPerEntry WrapperOwnsPin CallsRooted
