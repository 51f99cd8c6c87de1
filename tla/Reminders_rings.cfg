\* Two jobs, two attempts of one cron.add, a restart or a failing store call.
SPECIFICATION FairSpec
CONSTANTS
  MaxJobs = 2
  Attempts = {a1, a2}
  MaxTime = 3
  Period = 2
  Delays = {1, 2}
  MaxAhead = 2
  Horizon = 1
  Ttl = 2
  MaxMishaps = 1
CHECK_DEADLOCK FALSE
INVARIANTS
  RemindersInv
PROPERTIES
  RetriesCreateOnce
  DueIsServed
