\* The documented meaning of the status cancelled, without any client cancel.
CONSTANTS
  t1 = t1
  t2 = t2
  s1 = s1
  s2 = s2
  none = none
  r1 = r1
  r2 = r2
  NoSession = none
  TaskIds <- OneTask
  Sessions <- NoSessions
  Requests <- OneRequest
  MaxConcurrentTasks = 0
  HasTaskHooks = FALSE
SPECIFICATION Spec
CHECK_DEADLOCK FALSE
INVARIANTS CancelledByClient
