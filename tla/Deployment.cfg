\* Two scripts, any of them, one after the other.
SPECIFICATION FairSpec
CONSTANTS
  Folders = {"credential_manager", "hello_world", "kyc_verifier"}
  MaxRuns = 2
  MaxTotal = 2
INVARIANTS
  RecordNamesApps
  NoneMadeInVain
PROPERTIES
  RecordStaysComplete
  EveryRunEnds
CHECK_DEADLOCK FALSE
