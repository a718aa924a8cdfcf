\* One tab that shields, transfers and unshields, with others, freezes and faults.
SPECIFICATION FairSpec
CONSTANTS
  me = me
  bank = bank
  other = other
  bond = bond
  Assets = {bond}
  Owners = {me, bank, other}
  MAX_VALUE = 4
  FR_MODULUS = 13
  FR_BITS = 4
  TREE_CAPACITY = 5
  RECENT_ROOTS_CAPACITY = 2
  Me = me
  Bank = bank
  Other = other
  Token = bond
  LIMIT = 2
  Requests <- OneOfEach
  Seeds <- OneSeed
  Sources = {"indexer", "rpc"}
  LEAVES_LIMIT = 4
  INSISTENT = TRUE
  MAX_DISTURBANCES = 1
INVARIANTS
  TypeOK
  StoreIndexed
  OpeningsHeld
  RefusedOnlyIfStale
PROPERTIES
  MovesAsAsked
  Progress
CHECK_DEADLOCK FALSE
