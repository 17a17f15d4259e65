CONSTANTS
  Bufs <- SlotAndArena
  Nodes <- CopyNodes
  MaxSubmitNodes = 0
  MaxSubmitBindings = 0
  Profiling = FALSE
  Sync2 = TRUE
  ViewFallback = FALSE
SPECIFICATION Spec
INVARIANTS
  CopyReadsAreOrdered
CHECK_DEADLOCK FALSE
