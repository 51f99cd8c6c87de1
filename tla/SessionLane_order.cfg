\* Three turns, all of which fit into the queue; what is written and in which order.
SPECIFICATION Spec
CONSTANTS
  t1 = t1
  t2 = t2
  t3 = t3
  Turns = {t1, t2, t3}
  Detached = {t1, t2, t3}
  None = None
  QueueCap = 2
  MailboxCap = 2
  MaxControls = 1
  MaxPersists = 1
SYMMETRY SameKind
INVARIANTS
  AtMostOneRunning
  NoStrandedTurn
  EvictionLosesNothing
  TranscriptSerial
PROPERTIES
  HistoryIsComplete
  NoResumeAfterFinish
  LaneIsSerial
