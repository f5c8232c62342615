\* One `server renew` on a hub at the staging directory, and nothing going wrong.
CONSTANTS
  Timer = timer
  Clis = {k}
  CAs <- Directories
  Production = "production"
  Contacts = {"a"}
  MaxCerts = 3
  MaxAccounts = 3
  MaxCommands = 1
  MaxFailures = 0
  MaxCrashes = 0
  MaxEdits = 0
\* A kill between the two renames leaves a pair that will not load, and a hub
\* that does not start until somebody orders another.
CHECK_DEADLOCK FALSE
SPECIFICATION StagedSpec
PROPERTIES
  RecordedAccountAccepted
