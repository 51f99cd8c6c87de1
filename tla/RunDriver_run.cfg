\* Any sink, with and without run timeout; a provider that may never answer.
SPECIFICATION SilentProviderSpec
CONSTANTS
  Calls = {c1, c2}
  None = None
  OutCap = 1
  LoopThreshold = 2
  MaxRounds = 2
  MaxContinuations = 1
  MaxDeltas = 2
  MaxFailures = 1
INVARIANTS
  DriverInv
PROPERTIES
  EndsInTime
