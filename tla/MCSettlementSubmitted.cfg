SPECIFICATION Spec
CONSTANTS
  Rows = {0}
  MaxEvents = 7
  TxPerLedger = 1
  Workers = {w1}
  PageLimit = 7
  FailingKinds <- FirstInLedger
  FailureLimit = 0
  OwnPayments = TRUE
  ClaimFirst = TRUE
  Roles = {"OWNER"}
  Reconciling = TRUE
PROPERTY DisagreementIsRecorded
CHECK_DEADLOCK FALSE
