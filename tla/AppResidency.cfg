CONSTANTS
  Modes <- TwoModes
  Keys <- AllKeys
  Offered <- TwoOffered
  Installs <- OneVariant
  Deletable <- Catalogue
  Quick <- Nothing
  MayFail = TRUE
  MaxClears = 1
  None = None
SPECIFICATION Spec
INVARIANTS
  AtMostOneSession
  NoFreeDuringCall
  NoSessionLeaks
  ReadyIsLoaded
  ScreenIsTrue
PROPERTIES
  ReleasesComplete
CHECK_DEADLOCK FALSE
