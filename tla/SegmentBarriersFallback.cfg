CONSTANTS
  Bufs <- SlotAndArena
  Nodes <- FillNodes
  MaxSubmitNodes = 0
  MaxSubmitBindings = 0
  Profiling = FALSE
  Sync2 = TRUE
  ViewFallback = TRUE
SPECIFICATION Spec
INVARIANTS
  ComputeIsOrdered
CHECK_DEADLOCK FALSE
