\* A tree of four leaves, none or two in use at first; two transactions, freezes or looks.
SPECIFICATION Spec
CONSTANTS
  Assets <- TwoAssets
  Owners = {1, 2, 3}
  MAX_VALUE = 4
  TREE_CAPACITY = 4
  TREE_DEPTH = 2
  RECENT_ROOTS_CAPACITY = 2
  IMT_MAX = 12
  FR_MODULUS = 13
  FR_BITS = 4
  GATE_DEPTH = 3
  QUORUM = 2
  AUTHORITIES = 3
  PartyA = 1
  PartyB = 2
  IntentKey = 3
  SacX = 7
  SacY = 8
  SCENARIO_VIEW_KEY = 1
  Seedings <- Three
  Kyc <- TwoEnrolled
  Sanctioned <- OneSanctioned
  Registry <- OneRegistered
  Deposits <- OneDeposit
  K_VIEW = 2
  Split <- OneSplit
  MAX_EVENTS = 2
INVARIANTS
  TypeOK
  TreesAgree
  FrozenExact
  BuildersAgree
  HonestAccepted
  RevealRight
  QuorumExact
  ScanFinds
  GatesTell
PROPERTIES
  FrozenUnspent
