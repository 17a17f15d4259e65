CONSTANTS
  C = 6
  MaxTokens = 3
  Drafts = 2
  ChainSteps = 3
  PrefillS = 2
  ChunkS = 2
  MaxPrompt = 3
  MaxTurns = 2
  Corners = {"edge"}
SPECIFICATION Spec
INVARIANTS
  CacheIsConversation
CHECK_DEADLOCK FALSE
