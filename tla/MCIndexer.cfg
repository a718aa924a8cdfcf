\* Ingestion with a crash, a failed call or a lost reply, repeated commitments, and path
\* requests.
SPECIFICATION FairSpec
CONSTANTS
  Topics = {"transfer", "unshield", "exact_unshield", "escrowdep", "freeze"}
  PathRequests <- OneAndTwo
  EVENT_PAGE_LIMIT = 2
  MAX_EVENTS = 2
  MAX_ERRORS = 1
  MAX_CRASHES = 1
INVARIANTS
  TypeOK
  NoFalseHalt
  RootsServed
  HeadIsPublished
  NothingSkipped
  LedgerComplete
  PathsVerify
PROPERTIES
  FollowsLog
  Settles
CHECK_DEADLOCK FALSE
