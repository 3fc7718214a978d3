\* An event indexed late, and a crash between two transactions.
SPECIFICATION FairSpec
CONSTANTS
  Workers = {w1}
  Destinations = {d1}
  MaxAttempts = 2
  MaxCatchUpRuns = 1
  ClaimLimit = 2
  MaxRuns = 1
  MaxIncidents = 2
  MaxOverruns = 0
  Edited = FALSE
  Absent = Absent
PROPERTIES EveryRunSettles
CHECK_DEADLOCK FALSE
