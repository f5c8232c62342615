\* One server thread and one command line from an empty state file: five
\* requests take a code, the join that spends it, its removal and two more.
\* One crash or interrupt, one failed command, lock or write.
CONSTANTS
  c1 = c1
  c2 = c2
  c3 = c3
  n1 = n1
  n2 = n2
  n3 = n3
  t1 = t1
  t2 = t2
  t3 = t3
  Codes = {c1, c2}
  Names = {n1, n2}
  Tokens = {t1, t2}
  LastHost = 3
  Ttl = 1
  MaxTime = 1
  MaxInt = 3
  Handlers = {h1}
  Clis = {k1}
  CliOps = {"code", "rm"}
  Starter = starter
  OperatorWaits = TRUE
  MaxRequests = 5
  MaxCrashes = 1
  MaxFailures = 1
  MaxOutages = 0
SPECIFICATION Spec
SYMMETRY EmptySymmetry
PROPERTIES
  Implements
  RemovalReported
