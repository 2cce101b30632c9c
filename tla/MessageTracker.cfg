SPECIFICATION Spec
CONSTANTS
  c1 = c1  c2 = c2
  Call = {c1, c2}  Model = Model  NoCall = NoCall
  MaxSteps = 3  MaxBatch = 2
  Failures = TRUE  Stops = TRUE
INVARIANTS TypeOK DoneOnce StoppedIsMarked
PROPERTIES ImplementsLife
SYMMETRY CallSymmetry
CHECK_DEADLOCK FALSE
