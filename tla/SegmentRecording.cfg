SPECIFICATION Spec
CONSTANTS
  cache = cache
  present = present
  fd1 = fd1
  fileA = fileA
  fileB = fileB
  Ins <- MCIns
  Outs <- MCOuts
  ImageIns <- MCImageIns
  KvqIns = {}
  Links <- MCLinks
  Fds <- MCFds
  Files <- MCFiles
  None = None
  Modes = {"convert"}
  StepsMax = 2
  BodyChunks = 2
  MaxCapacity = 2
  AllocFails = FALSE
SYMMETRY Symmetry
INVARIANTS
  SubmittedIsCurrent
  DeclaredBufferIsUsed
  RecordsOnlyOnChange
