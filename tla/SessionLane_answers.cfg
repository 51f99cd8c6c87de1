\* Three turns, a queue for one, a channel for two commands, one control command.
SPECIFICATION FairSpec
CONSTANTS
  t1 = t1
  t2 = t2
  t3 = t3
  Turns = {t1, t2, t3}
  Detached = {t1}
  None = None
  QueueCap = 1
  MailboxCap = 2
  MaxControls = 1
  MaxPersists = 0
INVARIANTS
  TypeOK
  AcceptedIsTracked
  OutputsFollowTurns
PROPERTIES
  TurnsAreServed
