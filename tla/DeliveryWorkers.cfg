\* Two workers within their leases, and one incident: a crash, a late event or an edit.
SPECIFICATION FairSpec
CONSTANTS
  Workers = {w1, w2}
  Destinations = {d1}
  MaxAttempts = 2
  MaxCatchUpRuns = 1
  ClaimLimit = 1
  MaxRuns = 2
  MaxIncidents = 1
  MaxOverruns = 0
  Edited = TRUE
  Absent = Absent
INVARIANTS ExclusiveClaim OneReportPerRun NoRunSkipped
PROPERTIES DeliveredIsFinal OtherRunsSettle
CHECK_DEADLOCK FALSE
