\* Two freezes, the second computed from a late view of the frozen set.
SPECIFICATION Spec
CONSTANTS
  alice = alice
  bob = bob
  pair = pair
  x = x
  y = y
  swap = swap
  other = other
  Assets = {x}
  Owners = {alice}
  MAX_VALUE = 1
  FR_MODULUS = 5
  FR_BITS = 3
  TREE_CAPACITY = 3
  RECENT_ROOTS_CAPACITY = 2
  COMPLIANCE_WINDOW_CAPACITY = 2
  KycRoots = {{alice}}
  SanctionRoots <- Nobody
  AssetsRoots <- OneRegistry
  IntentIds = {}
  Terms <- NoTerms
  Deadlines = {}
  AccountHolders = {alice}
  Supply <- TwoEach
  REUSED = {}
  EARLY = {}
  FRESH_RESERVE = 0
  MAX_LEDGER = 0
  MAX_FROZEN = 2
  MAX_RECOVERED = 0
  ISSUER_LAGS = TRUE
PROPERTIES
  FrozenUnspendable
CHECK_DEADLOCK FALSE
