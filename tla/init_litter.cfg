\* One run of `server init` under one CA and one step that fails.
CONSTANTS
  Runs = {"i1"}
  CAs = {"production"}
  MaxFaults = 1
  MaxKills = 0
  MaxHands = 0
SPECIFICATION Spec
CHECK_DEADLOCK FALSE
INVARIANTS
  FailedRunLeavesNothing
