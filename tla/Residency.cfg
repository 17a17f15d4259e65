SPECIFICATION Spec
CONSTANTS
  x = x
  cache = cache
  present = present
  h = h
  g = g
  y = y
  wx = wx
  wcache = wcache
  wy = wy
  v0 = v0
  v1 = v1
  v2 = v2
  None = None
  Values <- InputValues
  Plans <- SessionPlans
SYMMETRY Symmetry
INVARIANTS
  InputsAreCurrent
  ResultsAreCurrent
  ResidentIsCurrent
  ArgMaxIsCurrent
