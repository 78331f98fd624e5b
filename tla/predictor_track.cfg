SPECIFICATION Spec
CONSTANTS
  Kinds <- MCKinds
  Capacity = 5
  MaxIterations = 4
  Wrap = 4
  MeanDelta = 2
  Gaps = {1, 3}
  Scores = {1, 7}
  Threshold = 2
  MaxMessages = 9
  Null = Null
INVARIANTS TypeOK GraphIsChain GraphFollowsTrack OneReference IntervalIsElapsed
CHECK_DEADLOCK FALSE
