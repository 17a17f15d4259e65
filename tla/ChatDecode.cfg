CONSTANTS
  C = 6
  MaxTokens = 3
  Drafts = 2
  ChainSteps = 3
  PrefillS = 2
  ChunkS = 2
  MaxPrompt = 3
  MaxTurns = 3
  Corners = {}
SPECIFICATION Spec
INVARIANTS
  StreamIsGreedy
  CacheIsConversation
  TurnStops
PROPERTIES
  TurnCompletes
CHECK_DEADLOCK FALSE
