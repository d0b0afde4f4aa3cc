SPECIFICATION Spec
CONSTANTS
  Main = main
  Background = {}
  Detached = {left}
  Casters = {caster}
  MaxSends = 2
  MaxAsks = 2
  ScopedCap = 1
  ChanCap = 1
  None = none
INVARIANTS
  NothingStranded
  InOrder
  AnswerRoutable
CHECK_DEADLOCK FALSE
PROPERTIES
  PostEnds
