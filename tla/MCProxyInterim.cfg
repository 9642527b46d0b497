SPECIFICATION Spec
CONSTANTS
  Programs = {"http_proxy"}
  Clients = {c1, c2}
  Shards = {1, 2}
  Capacity = 1
  MaxRequests = 2
  Requests <- MCRequests
  Replies <- InterimReplies
  MaxBody = 1
CHECK_DEADLOCK FALSE
INVARIANT OwnAnswer
