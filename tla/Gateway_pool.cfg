\* Requests of every kind share a small pool; clients leave, the daemon restarts once.
SPECIFICATION FairSpec
CONSTANTS
  r1 = r1
  r2 = r2
  Requests = {r1, r2}
  Kinds = {"call", "create", "send", "resume"}
  MaxConns = 1
  MaxIdle = 1
  MaxSockets = 2
  MaxEvents = 2
  MaxRestarts = 1
  None = None
CHECK_DEADLOCK FALSE
INVARIANTS
  PoolInv
  RelayHasNoGap
PROPERTIES
  StreamsEnd
