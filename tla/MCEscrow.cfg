\* Two intents over the same assets, next to shields, transfers and swaps in one call.
SPECIFICATION Spec
CONSTANTS
  alice = alice
  bob = alice
  pair = pair
  x = x
  y = y
  swap = swap
  other = other
  Assets = {x, y}
  Owners = {alice, pair}
  MAX_VALUE = 1
  FR_MODULUS = 5
  FR_BITS = 3
  TREE_CAPACITY = 5
  RECENT_ROOTS_CAPACITY = 2
  COMPLIANCE_WINDOW_CAPACITY = 2
  KycRoots <- Everyone
  SanctionRoots <- Nobody
  AssetsRoots <- OneRegistry
  IntentIds = {swap, other}
  Terms <- TwoSwaps
  Deadlines = {1}
  AccountHolders = {}
  Supply <- TwoForOne
  REUSED = {}
  EARLY = {}
  FRESH_RESERVE = 2
  MAX_LEDGER = 1
  MAX_FROZEN = 0
  MAX_RECOVERED = 0
  ISSUER_LAGS = FALSE
INVARIANTS
  EscrowExclusive
  EscrowHeld
PROPERTIES
  EscrowExits
  SwapsAtomically
CHECK_DEADLOCK FALSE
