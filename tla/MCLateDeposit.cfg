\* One intent, with a deposit that arrives after the deadline.
SPECIFICATION Spec
CONSTANTS
  alice = alice
  bob = bob
  pair = pair
  x = x
  y = y
  swap = swap
  other = other
  Assets = {x, y}
  Owners = {alice, bob, pair}
  MAX_VALUE = 1
  FR_MODULUS = 5
  FR_BITS = 3
  TREE_CAPACITY = 4
  RECENT_ROOTS_CAPACITY = 2
  COMPLIANCE_WINDOW_CAPACITY = 2
  KycRoots <- Everyone
  SanctionRoots <- Nobody
  AssetsRoots <- OneRegistry
  IntentIds = {swap}
  Terms <- SwapTerms
  Deadlines = {2}
  AccountHolders = {bob}
  Supply <- OneEach
  REUSED = {}
  EARLY = {}
  FRESH_RESERVE = 2
  MAX_LEDGER = 2
  MAX_FROZEN = 0
  MAX_RECOVERED = 0
  ISSUER_LAGS = FALSE
PROPERTIES
  OnlyRefundAfterDeadline
CHECK_DEADLOCK FALSE
