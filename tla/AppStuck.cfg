CONSTANTS
  Modes <- TwoModes
  Keys <- AllKeys
  Offered <- TwoOffered
  Installs <- Complete
  Deletable <- Nothing
  Quick <- Nothing
  MayFail = FALSE
  MaxClears = 1
  None = None
SPECIFICATION Spec
PROPERTIES
  LoadsGetTheSlot
CHECK_DEADLOCK FALSE
