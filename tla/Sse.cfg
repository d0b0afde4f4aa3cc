SPECIFICATION Spec
CONSTANTS
  Starters = {s1, s2}
  Requests = {r1}
  None = none
  QueueCap = 1
  Feeders = {"ping"}
  MaxFed = 1
INVARIANTS NoStreamOutlivesClose ChannelsInTheMapAreOpen
PROPERTIES AcceptedIsAnswered WorkersReleased
CHECK_DEADLOCK FALSE
