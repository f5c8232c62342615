\* Two runs of `server init`, under either CA and every combination of flags:
\* two steps that fail, one kill, two files put in place or moved aside.  Or one
\* schedule, of each kind, with the same bounds.  Or two writers of one file.  Or
\* two codes and two devices on a subnet with one host: the second finds it
\* full until the first is removed; codes of 2 ticks on a clock of 0..2, so that
\* they expire, and one issued at 2 saturates at 3.
CONSTANTS
  Runs = {i1, i2}
  CAs = {production, staging}
  Kinds = {"systemd", "launchd", "neither"}
  MaxFaults = 2
  MaxKills = 1
  MaxHands = 2
  TimerFaults = 2
  TimerKills = 1
  TimerHands = 2
  Writers = {w1, w2}
  Pids = {p1, p2}
  MaxErrors = 1
  MaxCuts = 1
  Codes = {"c1", "c2"}
  Names = {"n1", "n2"}
  Tokens = {"t1", "t2"}
  LastHost = 2
  Ttl = 2
  MaxTime = 2
  MaxInt = 3
SPECIFICATION SetupSpec
SYMMETRY Symmetry
CHECK_DEADLOCK FALSE
INVARIANTS
  HubWhole
  NothingLeftBehind
  LeftIsTold
  ReportsTrue
  FilesWhole
  NoShadowedCode
  OneDevicePerCode
  RedeemedInTime
  CodesAccountForDevices
PROPERTIES
  OthersKept
  RemovalRepairs
