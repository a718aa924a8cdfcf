\* Three kyc roots, the first of them published twice.
SPECIFICATION Spec
CONSTANTS
  alice = alice
  bob = bob
  pair = pair
  x = x
  y = y
  swap = swap
  other = other
  Assets = {x}
  Owners = {alice, bob}
  MAX_VALUE = 1
  FR_MODULUS = 5
  FR_BITS = 3
  TREE_CAPACITY = 1
  RECENT_ROOTS_CAPACITY = 2
  COMPLIANCE_WINDOW_CAPACITY = 2
  KycRoots <- AliceThenBob
  SanctionRoots <- Nobody
  AssetsRoots <- OneRegistry
  IntentIds = {}
  Terms <- NoTerms
  Deadlines = {}
  AccountHolders = {}
  Supply <- OneEach
  REUSED = {}
  EARLY = {}
  FRESH_RESERVE = 0
  MAX_LEDGER = 0
  MAX_FROZEN = 0
  MAX_RECOVERED = 0
  ISSUER_LAGS = FALSE
PROPERTIES
  PriorRootAccepted
CHECK_DEADLOCK FALSE
