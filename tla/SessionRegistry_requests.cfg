\* Three requests for the session that may be evicted, three probes.
SPECIFICATION FairSpec
CONSTANTS
  main = main
  side = side
  c1 = c1
  c2 = c2
  c3 = c3
  Sessions = {main, side}
  Main = main
  Clients = {c1, c2, c3}
  Target <- ThreeToSide
  None = None
  QueueCap = 0
  MaxProbes = 3
INVARIANTS
  RegistryInv
PROPERTIES
  AllIsAnswered
