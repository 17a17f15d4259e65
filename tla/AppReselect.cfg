CONSTANTS
  Modes <- TwoModes
  Keys <- AllKeys
  Offered <- TwoOffered
  Installs <- OneVariant
  Deletable <- Nothing
  Quick <- Reselecting
  MayFail = FALSE
  MaxClears = 0
  None = None
SPECIFICATION Spec
INVARIANTS
  AtMostOneSession
CHECK_DEADLOCK FALSE
