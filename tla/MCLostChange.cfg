\* Nothing fails: the change of an unshield is not in the note store.
SPECIFICATION Spec
CONSTANTS
  me = me
  bank = bank
  other = other
  bond = bond
  Assets = {bond}
  Owners = {me, bank, other}
  MAX_VALUE = 4
  FR_MODULUS = 13
  FR_BITS = 4
  TREE_CAPACITY = 4
  RECENT_ROOTS_CAPACITY = 2
  Me = me
  Bank = bank
  Other = other
  Token = bond
  LIMIT = 2
  Requests <- Unshields
  Seeds <- OneSeed
  Sources = {"indexer", "rpc"}
  LEAVES_LIMIT = 4
  INSISTENT = FALSE
  MAX_DISTURBANCES = 0
INVARIANT OpeningsKept
CHECK_DEADLOCK FALSE
