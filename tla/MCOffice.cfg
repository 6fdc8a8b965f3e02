SPECIFICATION Spec
CONSTANTS
  MaxChars = 5
  RowChoices <- MCRows
  MaxFileRows = 3
  MaxRows = 2
  Headers <- MCHeaders
  Uploads = {one, two}
  Files <- MCFiles
  UploadKeys = {key}
  References = {2}
  MaxAttempts = 2
  MaxReconfigured = 1
  Lines = 2
  Approver <- MCApprover
  MaxApprovals = 1
  t1 = t1
  t2 = t2
  ann = ann
  bob = bob
  Payments = {p1, p2}
  Tabs = {t1, t2}
  Wallets = {ann, bob}
  WalletOf <- MCWalletOf
  Members <- MCMembers
  Hashes = {one, two}
  NoHash = none
  AttemptLimit = 2
  Payrolls <- MCPayrolls
  Strangers <- MCStrangers
  LookBack = 4
  MaxRead = 3
  MaxLedger = 5
  Workers = {one, two}
  Subjects <- MCSubjects
  Closers = {op}
  MaxFindings = 2
  mia = mia
  fin = fin
  Callers = {0, 1, 2, 3}
  Here = 0
  Page = 3
  Accounts = {mia, fin}
  Escrow1 <- MCEscrow
  MaxSent <- MCSent
  MaxOthers = 1
  Admin = mia
SYMMETRY Sym
INVARIANTS
  TypeOK
  ReadsBack
  FileIsJustified
  AnsweredWithOwnBatch
  NoSilentTwin
  HeadlineIsHonest
  OneAttemptInFlight
  ConfirmedIsFunded
  AdoptedIsPlanned
  SettledIsConfirmed
  RunsDoNotRepeat
  BadgesReflectChain
CHECK_DEADLOCK FALSE
