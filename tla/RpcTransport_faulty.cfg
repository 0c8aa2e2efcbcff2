SPECIFICATION FairSpec

CONSTANTS
  get = get
  bulk = bulk
  dump = dump
  Ops = {get, bulk, dump}
  LargeRequests = {bulk}
  LargeReplies = {dump}
  Statuses = {"unknown-service-or-op"}
  Multiplexed = TRUE
  ClientVersion = 1
  ServerVersion = 1
  MaxCalls = 4
  MaxPushes = 1
  MaxTimeouts = 2

INVARIANTS
  TypeOK
  ExecutedInOrder
  RepliesInOrder

PROPERTY CallEventuallyReturns

CHECK_DEADLOCK FALSE
