CONSTANTS
  Modes <- TwoModes
  Keys <- AllKeys
  Offered <- TwoOffered
  Installs <- Complete
  Deletable <- Nothing
  Quick <- Nothing
  MayFail = FALSE
  MaxClears = 1
  None = None
SPECIFICATION Spec
INVARIANTS
  NeverTornDownMidRun
CHECK_DEADLOCK FALSE
