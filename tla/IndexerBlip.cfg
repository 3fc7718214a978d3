\* One RPC error while tailing: nothing polls any more.
SPECIFICATION IndexerFairSpec
CONSTANTS
  StartLedger = 1
  RollbackWindow = 1
  FinalityLag = 1
  PageSize = 1
  Depth = 2
  MaxHead = 2
  MaxForks = 1
  MaxFailures = 0
  MaxBlips = 1
  Kinds = {"none", "event"}
  NoRun = NoRun
PROPERTIES RecoversFromBlips
CHECK_DEADLOCK FALSE
