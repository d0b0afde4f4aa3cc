SPECIFICATION Spec
CONSTANTS
  Callers = {c1}
  Inits = {i1, i2}
  MaxSessions = 2
  MaxForgets = 1
  MaxBreaks = 1
INVARIANTS NoWaiterOnOldChannel
PROPERTIES DroppedOnlyIfForgotten StreamFollowsSession
CHECK_DEADLOCK FALSE
