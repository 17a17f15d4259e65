SPECIFICATION Spec
CONSTANTS
  Families <- MCNone
  Decoders <- MCHeads
  TiledMin = 3
  GemvMinK = 3
  GemvMaxN = 4
  GemvVec = 2
  MaxContext = 3
  MaxHeadDim = 3
  MaxStaging = 6
  MayTap = FALSE
  MayShare = FALSE
  MayGateTwice = FALSE
  MayMoveIndex = FALSE
  MaxSteps = 4
  MaxOperands = 2
  MaxRegs = 2
  MaxOuts = 1
INVARIANTS
  MeaningKept
CHECK_DEADLOCK FALSE
