\* Forks as deep as the re-read range, crashes, replays; or four operations
\* of a channel and a job.
SPECIFICATION MCSpec
CONSTANTS
  StartLedger = 1
  RollbackWindow = 1
  FinalityLag = 1
  PageSize = 1
  Depth = 2
  MaxHead = 3
  MaxForks = 2
  MaxFailures = 1
  MaxBlips = 1
  Kinds = {"event", "none", "garbled"}
  NoRun = NoRun
  Amounts = {1, 2}
  Deposit = 3
  Fee = 1
  MaxFees = 1
  MaxOps = 4
  LastLedger = 1
  
PROPERTIES BecomesConsistent
CHECK_DEADLOCK FALSE
