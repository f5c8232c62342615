\* `anago rm` typed while `server run` is starting.
CONSTANTS
  c1 = c1
  c2 = c2
  c3 = c3
  n1 = n1
  n2 = n2
  n3 = n3
  t1 = t1
  t2 = t2
  t3 = t3
  Codes = {c1, c2, c3}
  Names = {n1, n2, n3}
  Tokens = {t1, t2, t3}
  LastHost = 4
  Ttl = 1
  MaxTime = 0
  MaxInt = 3
  Handlers = {h1}
  Clis = {k1}
  CliOps = {"rm"}
  Starter = starter
  OperatorWaits = FALSE
  MaxRequests = 1
  MaxCrashes = 0
  MaxFailures = 0
  MaxOutages = 0
SPECIFICATION TwoDevicesSpec
PROPERTIES
  NeverRewound
