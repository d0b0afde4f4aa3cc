\* Two tasks that compete for one slot.
CONSTANTS
  t1 = t1
  t2 = t2
  s1 = s1
  s2 = s2
  none = none
  r1 = r1
  r2 = r2
  NoSession = none
  TaskIds <- TwoTasks
  Sessions <- NoSessions
  Requests <- OneRequest
  MaxConcurrentTasks = 1
  HasTaskHooks = FALSE
SPECIFICATION Spec
CHECK_DEADLOCK FALSE
INVARIANTS SlotAccounting
PROPERTIES ImplementsLifecycle
