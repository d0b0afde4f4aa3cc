\* One task, every race of its goroutines with two clients' requests.
CONSTANTS
  t1 = t1
  t2 = t2
  s1 = s1
  s2 = s2
  none = none
  r1 = r1
  r2 = r2
  NoSession = none
  TaskIds <- OneTask
  Sessions <- TwoSessions
  Requests <- TwoRequests
  MaxConcurrentTasks = 1
  HasTaskHooks = TRUE
SPECIFICATION FairSpec
CHECK_DEADLOCK FALSE
INVARIANTS HookOrder CancellationReachesHandler AnswersAgree
PROPERTIES TaskEnds WaiterAnswered TerminalHookRuns
