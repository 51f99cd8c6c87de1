\* A page reloads while a run of five events writes; the ring holds two; one write may fail.
SPECIFICATION FairSpec
CONSTANTS
  Pages = {p1}
  Cap = 2
  MaxEvents = 5
  MaxEntries = 4
  MaxFailures = 1
INVARIANTS
  LogInv
PROPERTIES
  ForwarderFinishes
