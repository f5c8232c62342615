\* Two server threads and `anago code`: a hub with one device and one usable
\* code.  Three requests (two joins racing, a remove against a join, a listing
\* after either), one crash of the server anywhere, one wg-quick down; fair, so
\* that the server comes back and catches up.
CONSTANTS
  c1 = c1
  c2 = c2
  c3 = c3
  n1 = n1
  n2 = n2
  n3 = n3
  t1 = t1
  t2 = t2
  t3 = t3
  Codes = {c1, c2, c3}
  Names = {n1, n2}
  Tokens = {t1, t2, t3}
  LastHost = 3
  Ttl = 1
  MaxTime = 0
  MaxInt = 3
  Handlers = {h1, h2}
  Clis = {k1}
  CliOps = {"code"}
  Starter = starter
  OperatorWaits = TRUE
  MaxRequests = 3
  MaxCrashes = 1
  MaxFailures = 0
  MaxOutages = 1
SPECIFICATION FairSpec
INVARIANTS
  AppliesExclusive
  QuietMeansCurrent
PROPERTIES
  AppliedMeansCurrent
  NeverRewound
  Answered
  Converges
