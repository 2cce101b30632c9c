SPECIFICATION Spec
CONSTANTS
  c1 = c1  c2 = c2  p1 = p1  k1 = k1  k2 = k2  b1 = b1
  Conv = {c1, c2}  First = c1  NoConv = NoConv
  Post = {p1}  Compaction = {k1, k2}  Branch = {b1}
  Sync = {k1}
  Listed = {1, 2, 3, 4}
  MaxCalls = 1  Restored = {1}  ResetLimit = 3  Faults = {"model"}
INVARIANTS TypeOK ForgottenIsExplained NumberIsFree SummaryOpensWindow TreeShowsEach
CHECK_DEADLOCK FALSE
