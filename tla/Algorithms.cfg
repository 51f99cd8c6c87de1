SPECIFICATION Spec
CONSTANTS
  None = None
  Lengths <- LengthsSmall
INVARIANTS
  LoopInv
  FormsInv
  ModelStreamInv
  ScheduleInv
  PromptInv
  ClientInv
  DaemonInv
CHECK_DEADLOCK FALSE
