\* A hub and its successor proving one name at once, one nameserver, one fault;
\* or one hub renewing at one CA of two, with certificates that live 9; or one
\* input of a function.
CONSTANTS
  Hosts = {"hub", "next"}
  Servers = {"ns1"}
  Ids = {1, 2, 3}
  Lifetime = 6
  PollInterval = 2
  PollTimeout = 3
  BlindAfter = 1
  Settle = 1
  Validation = 1
  CallTime = 0
  PerPage = 3
  MaxFaults = 1
  Directories = {"d1", "d2"}
  Accounts = {"a1"}
  Lifetimes = {9}
  Unknown = 5
  Lead = 2
  CheckEvery = 2
  RetryBase = 1
  RetryCap = 2
  RateLimitedFloor = 1
  RetryAfters = {0, 3}
  MaxCount = 2
  MaxTime = 25
  MaxAttempt = 1
  MaxFailures = 2
  MaxChanges = 1
SPECIFICATION PartsSpec
CHECK_DEADLOCK FALSE
INVARIANTS
  LiveKept
  EndsClean
  CommandsHeard
  DecisionsSound
  DocumentsHonest
  FormatsHonest
PROPERTIES
  OthersStay
  ScheduleKept
  RenewedInTime
