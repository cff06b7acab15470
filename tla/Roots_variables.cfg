SPECIFICATION VariableSpec
CONSTANTS
  Obj = {o1, o2, o3}
  None = None
  MaxValue = 2
  Variable = {x}
  MaxDepth = 1
  MaxFields = 1
  MayDefer = TRUE
  Programs <- MCPrograms
CHECK_DEADLOCK FALSE
INVARIANT VariablesLive
