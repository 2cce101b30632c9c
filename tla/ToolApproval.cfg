SPECIFICATION Spec
CONSTANTS
  k1 = k1  k2 = k2  q1 = q1  a = a  b = b
  Tool = {k1, k2}  Question = {q1}
  Op = {a, b}  OpOf <- Ops  Matches <- Globs
  Levels = {2}  Threshold = 2
  Modes = {"edit_automatically", "bypass_permissions"}
  MaxBatch = 2  MaxReports = 1  MaxSends = 1
  Faults = TRUE
  NoAnswer = NoAnswer
INVARIANTS TypeOK RunsWithConsent DeniedIsNotRun RunsOnce RememberedByUser WaitsForUser
CHECK_DEADLOCK FALSE
