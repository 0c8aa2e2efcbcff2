SPECIFICATION Spec

CONSTANTS
  get = get
  put = put
  bulk = bulk
  dump = dump
  Ops = {get, put, bulk, dump}
  LargeRequests = {bulk}
  LargeReplies = {dump}
  Statuses = {"unknown-service-or-op"}
  Multiplexed = TRUE
  ClientVersion = 1
  ServerVersion = 1
  MaxCalls = 4
  MaxPushes = 0
  MaxTimeouts = 0

INVARIANT ResponseForOutstandingCall

PROPERTY ImplementsRpcCall

CHECK_DEADLOCK FALSE
