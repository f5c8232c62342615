\* The hub moves and moves back.
CONSTANTS
  Procs = {"p1", "p2"}
  Codes = {"c1", "c2"}
  Names = {"n1"}
  MaxAttempts = 1
  MaxVersion = 1
  MaxFaults = 1
  MaxChanges = 2
  Reverts = TRUE
SPECIFICATION Spec
CHECK_DEADLOCK FALSE
PROPERTIES
  FineMeansCurrent
