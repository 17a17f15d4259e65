SPECIFICATION Spec
CONSTANTS
  cache = cache
  present = present
  fd1 = fd1
  fileA = fileA
  fileB = fileB
  Ins <- MCIns
  Outs <- MCOuts
  ImageIns <- MCImageIns
  KvqIns = {}
  Links <- MCLinks
  Fds <- MCFds
  Files <- MCOneFile
  None = None
  Modes = {"convert"}
  StepsMax = 1
  BodyChunks = 1
  MaxCapacity = 2
  AllocFails = TRUE
INVARIANTS
  EveryArgMaxHasResult
