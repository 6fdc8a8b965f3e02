SPECIFICATION Spec
CONSTANTS
  Users = {f, a, b}
  Founder = f
  Emails = {e}
  Roles = {"OWNER", "ADMIN", "MANAGER"}
  Slots = {s1, s2}
  MaxTokens = 2
  MaxRequests = 4
  Signers = {w1, w2}
  Allowlist = {w1}
  Bootstrapping = TRUE
  Browsers = {s1, s2}
  MaxChallenges = 2
  MaxSessions = 2
  olu = olu
  fin = fin
  Payments = {s1, s2}
  Members = {olu, fin}
  RoleOf <- MCRoleOf
  Calls = {a, b}
  Keys = {k1}
  CallLimit = 2
  Issuers = {"k1", "k2"}
  ClaimTypes = {"marketplace.delivery.v1"}
  Orders = {"order"}
  ClaimIds = {"id"}
  Statements <- MCStatements
  MaxU64 = 1
  Traders = {a, b}
  Vault = "vault"
  HoldAdmin = "root"
  FirstIssuer = "k1"
  Coins = {"coin"}
  Prices = {0, 1}
  Deadlines = {0}
  FirstPurses <- MCPurses
  MaxHolds = 2
  MaxClock = 2
SYMMETRY Sym
INVARIANTS
  TypeOK
  SeatsAreInvited
  OneSessionPerChallenge
  KeyMeansOneAttempt
  AttemptedStaysSubmitted
  HalvesKeptApart
  HeldIsThere
PROPERTIES
  OwnershipIsNotMinted
  ImplementsPromise
CHECK_DEADLOCK FALSE
