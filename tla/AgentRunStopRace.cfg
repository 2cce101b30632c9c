\* A stopped run drains while messages start other runs.
SPECIFICATION Spec
CONSTANTS
  c1 = c1  c2 = c2  m1 = m1  m2 = m2
  Conv = {c1}
  Run = {r1, r2, r3}
  Interrupt = {}
  NoConv = NoConv  NoRun = NoRun  NoParams = NoParams  NoSession = NoSession
  Msg = {m1, m2, m3}
  StopReq = {s1}
  NoText = NoText
  Dest <- OneConv
  ParentOf <- NoParents
  Prompts = {}
  Faults = FALSE  Overflows = FALSE  Timeouts = FALSE
SYMMETRY Symmetry
INVARIANTS OneLiveAgent
\* A server with no request to serve does nothing.
CHECK_DEADLOCK FALSE
