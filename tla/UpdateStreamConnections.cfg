\* A client connects a second time before its first connection is noticed to be gone.
SPECIFICATION Spec
CONSTANTS
  Writer = {w1}
  Socket = {k1, k2}
  NoSocket = NoSocket
  PageLimit = 1  ReplayLimit = 2  SendCap = 1  MaxConns = 2
  Faults = FALSE  CounterLost = FALSE
SYMMETRY Symmetry
INVARIANTS TotalIsCurrent
\* A server with nothing to publish does nothing.
CHECK_DEADLOCK FALSE
