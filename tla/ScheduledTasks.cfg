SPECIFICATION FairSpec
CONSTANTS
  Task = {t1}  Kinds = {"once", "every", "five"}
  Canceller = {c1}  Slot = {x1, x2}
  Delays = {0, 1}  Period = 1  Year = 2  MaxTime = 3  MaxStarts = 2
  Faults = TRUE
INVARIANTS TypeOK OneTimeSentOnce CancelHolds ActiveIsScheduled UnsentIsExplained
PROPERTIES DueIsSent
CHECK_DEADLOCK FALSE
