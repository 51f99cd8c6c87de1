\* A run of two tool calls with prompts, commands and a background process.
SPECIFICATION FairSpec
CONSTANTS
  Setups <- TriedSetups
  Risks = {"Safe", "Blocked"}
  MaxCalls = 2
  MaxFailures = 1
  Tasks <- FirstCalls
CHECK_DEADLOCK FALSE
INVARIANTS
  BridgeInv
  ConsentComesFirst
PROPERTIES
  AbortFrees
  PromptsAreRemoved
