SPECIFICATION FairSpec
CONSTANTS
  Rows = {0}
  MaxEvents = 8
  TxPerLedger = 1
  Workers = {w1}
  PageLimit = 8
  FailingKinds <- FirstInLedger
  FailureLimit = 1
  OwnPayments = TRUE
  ClaimFirst = TRUE
  Roles = {}
  Reconciling = FALSE
INVARIANTS
  Deterministic
  VerifiedIsCurrent
PROPERTY EventuallyApplied
CHECK_DEADLOCK FALSE
