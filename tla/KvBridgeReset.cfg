CONSTANTS
  Drivers = {"chat"}
  C = 5
  Windows = {2}
  Prompts = {1, 2}
  MaxNew = 2
  MaxTurns = 3
  MayResetInCall = TRUE
  Failures = {}
SPECIFICATION Spec
INVARIANTS
  CacheIsConversation
CHECK_DEADLOCK FALSE
