SPECIFICATION Spec
CONSTANTS
  Families <- MCFamilies
  Decoders <- MCDecoders
  TiledMin = 3
  GemvMinK = 3
  GemvMaxN = 4
  GemvVec = 2
  MaxContext = 3
  MaxHeadDim = 2
  MaxStaging = 4
  MayTap = FALSE
  MayShare = FALSE
  MayGateTwice = FALSE
  MayMoveIndex = FALSE
  MaxSteps = 4
  MaxOperands = 2
  MaxRegs = 2
  MaxOuts = 1
INVARIANTS
  MeaningKept
  UnitsStayFloat
  KernelsAgree
  IntegersStayExact
CHECK_DEADLOCK FALSE
