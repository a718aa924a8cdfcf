\* Shields, transfers, swaps in one call, unshields, freezes and recoveries.
SPECIFICATION Spec
CONSTANTS
  alice = alice
  bob = bob
  pair = pair
  x = x
  y = y
  swap = swap
  other = other
  Assets = {x}
  Owners = {alice}
  MAX_VALUE = 2
  FR_MODULUS = 7
  FR_BITS = 3
  TREE_CAPACITY = 4
  RECENT_ROOTS_CAPACITY = 2
  COMPLIANCE_WINDOW_CAPACITY = 2
  KycRoots = {{alice}}
  SanctionRoots <- Nobody
  AssetsRoots <- OneRegistry
  IntentIds = {}
  Terms <- NoTerms
  Deadlines = {}
  AccountHolders = {alice}
  Supply <- TwoEach
  REUSED = {1}
  EARLY <- SecondNote
  FRESH_RESERVE = 0
  MAX_LEDGER = 0
  MAX_FROZEN = 1
  MAX_RECOVERED = 1
  ISSUER_LAGS = FALSE
INVARIANTS
  TypeOK
  TreeMatchesLog
  NoDoubleSpend
  SpendsAreRecorded
  Backed
PROPERTIES
  AppendOnly
  FrozenUnspendable
CHECK_DEADLOCK FALSE
