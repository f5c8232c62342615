\* Two processes, two attempts, two settings of the hub, two faults, two changes.
CONSTANTS
  Procs = {"p1", "p2"}
  Codes = {"c1", "c2"}
  Names = {"n1"}
  MaxAttempts = 2
  MaxVersion = 1
  MaxFaults = 2
  MaxChanges = 2
  Reverts = FALSE
SPECIFICATION FairSpec
CHECK_DEADLOCK FALSE
INVARIANTS
  PairMatches
  NothingHalfJoined
  NoSilentOrphan
  RecordedIsApplied
PROPERTIES
  FilesOfOthersKept
  CatchesUp
