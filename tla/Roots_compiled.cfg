SPECIFICATION Spec
CONSTANTS
  Obj = {o1, o2, o3, o4}
  None = None
  MaxValue = 2
  MaxDepth = 2
  MaxFields = 1
  MayDefer = FALSE
  Programs <- MCPrograms
CHECK_DEADLOCK FALSE
SYMMETRY Symmetry
INVARIANTS TypeOK NothingFreedIsUsed PopsNewest
