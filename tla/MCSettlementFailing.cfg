SPECIFICATION Spec
CONSTANTS
  Rows = {0}
  MaxEvents = 7
  TxPerLedger = 1
  Workers = {w1}
  PageLimit = 7
  FailingKinds <- EventKind
  FailureLimit = 1
  OwnPayments = TRUE
  ClaimFirst = TRUE
  Roles = {}
  Reconciling = FALSE
INVARIANT NothingPassedOver
CHECK_DEADLOCK FALSE
