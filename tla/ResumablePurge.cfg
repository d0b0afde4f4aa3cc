CONSTANTS
  Post = Post
  None = None
  MaxConns = 2
  MaxEvents = 3
  SinkCap = 1
SPECIFICATION Spec
CHECK_DEADLOCK FALSE
INVARIANTS PurgedForGood
