\* Two proposals of any kind over three ledgers.
SPECIFICATION Spec
CONSTANTS
  Accounts = {a, b, c}
  Timelocks = {0, 1}
  Ttls = {1, 2}
  Requests <- MCRequests
  MaxProposals = 2
  MaxLedger = 3
  a = a
  b = b
  c = c
SYMMETRY MCSymmetry
INVARIANTS Governable
PROPERTIES ExecutedWithQuorum ExecutedOnce
CHECK_DEADLOCK FALSE
