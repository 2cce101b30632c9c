SPECIFICATION Spec
CONSTANTS
  c1 = c1  c2 = c2
  Call = {c1, c2}  Model = Model  NoCall = NoCall
  MaxSteps = 2  MaxBatch = 2
  Failures = FALSE  Stops = FALSE
INVARIANTS EveryCallHasItsMessage
SYMMETRY CallSymmetry
CHECK_DEADLOCK FALSE
