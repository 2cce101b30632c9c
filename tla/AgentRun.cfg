\* Two messages and a question; no call fails and nobody stops a run.
SPECIFICATION Spec
CONSTANTS
  c1 = c1  c2 = c2  m1 = m1  m2 = m2
  Conv = {c1}
  Run = {r1, r2, r3, r4}
  Interrupt = {i1}
  NoConv = NoConv  NoRun = NoRun  NoParams = NoParams  NoSession = NoSession
  Msg = {m1, m2}
  StopReq = {}
  NoText = NoText
  Dest <- OneConv
  ParentOf <- NoParents
  Prompts = {}
  Faults = FALSE  Overflows = FALSE  Timeouts = FALSE
SYMMETRY Symmetry
INVARIANTS TypeOK Exclusive DeliveredOnce UnansweredIsExplained
PROPERTIES ImplementsLock
\* A server with no request to serve does nothing.
CHECK_DEADLOCK FALSE
