SPECIFICATION FundingSpec
CONSTANTS
  t1 = t1
  t2 = t2
  ann = ann
  bob = bob
  Payments = {p1}
  Tabs = {t1, t2}
  Wallets = {ann, bob}
  WalletOf <- MCWalletOf
  Members <- MCMembers
  Hashes = {h1, h2}
  NoHash = none
  AttemptLimit = 2
INVARIANT OneEscrow
CHECK_DEADLOCK FALSE
