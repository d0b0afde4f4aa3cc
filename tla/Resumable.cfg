CONSTANTS
  Post = Post
  None = None
  MaxConns = 2
  MaxEvents = 3
  SinkCap = 1
SPECIFICATION FairSpec
CHECK_DEADLOCK FALSE
INVARIANTS NeverBothNeverNeither ClientReadsRun EndsOnlyComplete
PROPERTIES CatchesUp ProducerReleased
