\* Compliance roots that change under transfers, swaps, recoveries and exits.
SPECIFICATION Spec
CONSTANTS
  alice = alice
  bob = bob
  pair = pair
  x = x
  y = y
  swap = swap
  other = other
  Assets = {x}
  Owners = {alice, bob}
  MAX_VALUE = 1
  FR_MODULUS = 5
  FR_BITS = 3
  TREE_CAPACITY = 3
  RECENT_ROOTS_CAPACITY = 2
  COMPLIANCE_WINDOW_CAPACITY = 2
  KycRoots <- AliceThenBob
  SanctionRoots <- NobodyThenAlice
  AssetsRoots <- RegistryOrNone
  IntentIds = {}
  Terms <- NoTerms
  Deadlines = {}
  AccountHolders = {}
  Supply <- OneEach
  REUSED = {}
  EARLY = {}
  FRESH_RESERVE = 0
  MAX_LEDGER = 0
  MAX_FROZEN = 0
  MAX_RECOVERED = 0
  ISSUER_LAGS = FALSE
INVARIANTS
  CurrentRootAccepted
PROPERTIES
  RevokedReceivesNothing
  OnlyListedAssets
CHECK_DEADLOCK FALSE
