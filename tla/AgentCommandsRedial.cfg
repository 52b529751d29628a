SPECIFICATION FairSpec
CONSTANTS
  Cmd = {a}
  MaxPending = 1
  MaxCalls = 1
  MaxConns = 2
  MaxFaults = 1
PROPERTY RedialsAfterSession
CHECK_DEADLOCK FALSE
