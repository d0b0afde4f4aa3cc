CONSTANTS
  Calls <- FirstCalls
  Requests <- FirstRequests
  None = None
  WorkerPoolSize = 1
  QueueSize = 1
  MaxAsks = 1
  MaxCancels = 1
SPECIFICATION FairSpec
CHECK_DEADLOCK FALSE
INVARIANTS ListenLeavesNothing CancellationLostOnlyToLateReply
PROPERTIES ServesToTheEnd
