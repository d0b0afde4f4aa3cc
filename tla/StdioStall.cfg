CONSTANTS
  Calls <- OwnCalls
  Requests <- NoRequests
  None = None
  WorkerPoolSize = 1
  QueueSize = 1
  MaxAsks = 1
  MaxCancels = 1
SPECIFICATION FairSpec
CHECK_DEADLOCK FALSE
PROPERTIES NeverStalls
