\* Two updates race to a client that connects, is refused or loses its connection and
\* polls, while Redis may lose the counter.
SPECIFICATION FairSpec
CONSTANTS
  Writer = {w1, w2}
  Socket = {k1}
  NoSocket = NoSocket
  PageLimit = 1  ReplayLimit = 2  SendCap = 1  MaxConns = 1
  Faults = TRUE  CounterLost = TRUE
INVARIANTS TypeOK CursorIsPublished MissedIsExplained
PROPERTIES PollingCatchesUp
\* A server with nothing to publish does nothing.
CHECK_DEADLOCK FALSE
