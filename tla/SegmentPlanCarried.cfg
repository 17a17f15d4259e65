SPECIFICATION Spec
CONSTANTS
  Shapes <- Carriers
INVARIANTS
  CarriedIsExact
CHECK_DEADLOCK FALSE
