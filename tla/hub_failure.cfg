\* One wg syncconf that had its effect and still reported failure.
CONSTANTS
  c1 = c1
  c2 = c2
  c3 = c3
  n1 = n1
  n2 = n2
  n3 = n3
  t1 = t1
  t2 = t2
  t3 = t3
  Codes = {c1, c2}
  Names = {n1, n2}
  Tokens = {t1, t2}
  LastHost = 3
  Ttl = 1
  MaxTime = 0
  MaxInt = 3
  Handlers = {h1}
  Clis = {}
  CliOps = {}
  Starter = starter
  OperatorWaits = TRUE
  MaxRequests = 2
  MaxCrashes = 0
  MaxFailures = 1
  MaxOutages = 0
SPECIFICATION OneDeviceSpec
PROPERTIES
  AppliedMeansCurrent
