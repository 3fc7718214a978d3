\* A cancelled call that had reached its quorum.
SPECIFICATION Spec
CONSTANTS
  Accounts = {a, b, c}
  Timelocks = {0, 1}
  Ttls = {1, 2}
  Requests <- MCCalls
  MaxProposals = 1
  MaxLedger = 4
  a = a
  b = b
  c = c
PROPERTY CancelledIsNotExecuted
CHECK_DEADLOCK FALSE
