CONSTANTS
  Bufs <- SlotAndArena
  Nodes <- AllNodes
  MaxSubmitNodes = 3
  MaxSubmitBindings = 6
  Profiling = FALSE
  Sync2 = TRUE
  ViewFallback = FALSE
SPECIFICATION Spec
INVARIANTS
  ComputeIsOrdered
  OutputsAreVisible
  NoNeedlessBarrier
CHECK_DEADLOCK FALSE
