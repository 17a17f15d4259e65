CONSTANTS
  Drivers = {"chat", "vlm"}
  C = 7
  Windows = {0, 1, 2, 3}
  Prompts = {1, 2, 3, 4}
  MaxNew = 4
  MaxTurns = 5
  MayResetInCall = FALSE
  Failures = {"link", "read", "pass", "step"}
SPECIFICATION Spec
INVARIANTS
  CacheIsConversation
  PositionsAgree
PROPERTIES
  ImplementsConversation
CHECK_DEADLOCK FALSE
