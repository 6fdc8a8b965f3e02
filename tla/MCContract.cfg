\* It stops when the escrows are closed, because MaxEscrows are used up.
CHECK_DEADLOCK FALSE
CONSTANTS
  mia = mia
  fin = fin
  usdc = usdc
  xlm = xlm
  k1 = k1
  Accounts = {mia, fin}
  Contract = contract
  Tokens = {usdc, xlm}
  MaxBalance = 6
  NoAccount = none
  PinnedAdmin = mia
  OracleKeys = {k1, k2}
  Builds = {w1, w2}
  FirstBuild = w1
  Batches <- MCBatches
  NoEscrow = noEscrow
  InitialBalances <- MCBalances
  Hours <- MCHours
  MaxBatchSize = 2
  MaxEscrows = 2
  MaxRotations = 1
  NonceLimit = 3
SPECIFICATION Spec
CONSTRAINT Exercised
INVARIANTS
  TypeOK
  ProofsAreCurrent
  AcceptedOnce
  SettledUnderDualControl
  RefundAlwaysAvailable
  BalancesExplained
PROPERTIES
  ClosedForGood
  ImplementsCustody
