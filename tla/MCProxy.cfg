SPECIFICATION Spec
CONSTANTS
  Programs = {"http_proxy", "scatter_gather", "tcp_pool", "fanout_requests"}
  Clients = {c1, c2}
  Shards = {1, 2}
  Capacity = 1
  MaxRequests = 2
  Requests <- MCRequests
  Replies <- MCReplies
  MaxBody = 1
CHECK_DEADLOCK FALSE
INVARIANTS
  OwnAnswer
  CleanWhenIdle
  FailedNotReused
  InflightExact
PROPERTY ExchangesEnd
