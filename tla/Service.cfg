SPECIFICATION ServiceSpec
CONSTANTS
  Clients = {c1, c2}
  MaxCalls = 1
  MaxStarts = 2
CHECK_DEADLOCK FALSE
INVARIANT NoLeakedThread
PROPERTY ShutdownStops
PROPERTY StopEndsThreads
