SPECIFICATION Spec
CONSTANTS
  k1 = k1  k2 = k2  q1 = q1  a = a  b = b
  Tool = {k1, k2}  Question = {}
  Op = {a, b}  OpOf <- Ops  Matches <- Globs
  Levels = {2}  Threshold = 2
  Modes = {"ask_before_edits"}
  MaxBatch = 2  MaxReports = 1  MaxSends = 1
  Faults = FALSE
  NoAnswer = NoAnswer
INVARIANTS EveryCallApproved
CHECK_DEADLOCK FALSE
