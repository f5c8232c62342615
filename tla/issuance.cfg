\* The renewal task beside a terminal that runs one `server renew`, to the end; or
\* beside two terminals, with the Cloudflare token of the hub.
CONSTANTS
  Timer = timer
  Clis = {k}
  CAs <- Directories
  Production = "production"
  Contacts = {"a"}
  MaxCerts = 3
  MaxAccounts = 2
  MaxCommands = 1
  MaxFailures = 1
  MaxCrashes = 1
  MaxEdits = 1
  Renewer = renewer
  Terminals = {k1, k2}
  Zones = {z1, z2}
  MaxFaults = 1
  MaxMoves = 1
\* A kill between the two renames leaves a pair that will not load, and a hub
\* that does not start until somebody orders another.
SPECIFICATION RenewSpec
CHECK_DEADLOCK FALSE
INVARIANTS
  ManualHubKeepsItsPair
  RecordedFromItsCa
  TornIsReported
PROPERTIES
  AllOrNothing
  TokensKept
  ServedCatchesUp
