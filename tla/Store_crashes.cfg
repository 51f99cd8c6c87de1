\* Two servers in turn and a doctor over any old file, two callers of two calls each.
SPECIFICATION FairSpec
CONSTANTS
  s1 = s1
  s2 = s2
  c1 = c1
  c2 = c2
  Servers = {s1, s2}
  Doctor = Doctor
  Callers = {c1, c2}
  Target = 2
  MaxIdle = 1
  MaxStarts = 1
  MaxCalls = 2
  None = None
INVARIANT StoreInv
PROPERTY EveryCallEnds
CHECK_DEADLOCK FALSE
