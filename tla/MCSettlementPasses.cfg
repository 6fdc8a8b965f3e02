SPECIFICATION Spec
CONSTANTS
  Rows = {0}
  MaxEvents = 7
  TxPerLedger = 1
  Workers = {w1,w2}
  PageLimit = 7
  FailingKinds <- FirstInLedger
  FailureLimit = 0
  OwnPayments = FALSE
  ClaimFirst = TRUE
  Roles = {}
  Reconciling = FALSE
PROPERTY TerminalStays
SYMMETRY PassSymmetry
CHECK_DEADLOCK FALSE
