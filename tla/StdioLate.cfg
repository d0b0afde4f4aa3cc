CONSTANTS
  Calls <- FirstIds
  Requests <- NoRequests
  None = None
  WorkerPoolSize = 1
  QueueSize = 1
  MaxAsks = 1
  MaxCancels = 1
SPECIFICATION Spec
CHECK_DEADLOCK FALSE
INVARIANTS CancellationReaches
