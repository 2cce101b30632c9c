\* A conversation, its sub-conversation and a question: stops, failures, overflows, timeouts.
SPECIFICATION FairSpec
CONSTANTS
  c1 = c1  c2 = c2  m1 = m1  m2 = m2
  Conv = {c1, c2}
  Run = {r1, r2}
  Interrupt = {i1}
  NoConv = NoConv  NoRun = NoRun  NoParams = NoParams  NoSession = NoSession
  Msg = {m1, m2}
  StopReq = {s1}
  NoText = NoText
  Dest <- TwoConvs
  ParentOf <- Nested
  Prompts = {m2}
  Faults = TRUE  Overflows = TRUE  Timeouts = TRUE
INVARIANTS SessionOwnerLive RunningIsNotStopped
PROPERTIES RegisteredRunEnds StopReturns
\* A server with no request to serve does nothing.
CHECK_DEADLOCK FALSE
