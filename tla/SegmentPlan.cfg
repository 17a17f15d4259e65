SPECIFICATION Spec
CONSTANTS
  Shapes <- Blocks
INVARIANTS
  PlanIsExact
  NoDispatchOverlaps
  RoutingMatchesRecording
CHECK_DEADLOCK FALSE
