SPECIFICATION FairSpec
CONSTANTS
  Callers = {c1, c2}
  c1 = c1
  c2 = c2
  None = None
  MaxTasks = 3
  MaxDispatch = 2
INVARIANTS
  RegionComplete
  NoDanglingTask
  ErrorDelivered
  NestingIsInline
  IInv
PROPERTIES
  TaskStableWhileActive
  ImplementsParallelRegion
  ExitCompletes
