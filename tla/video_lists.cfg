SPECIFICATION RelaySpec
CONSTANTS
  k1 = k1
  k2 = k2
  k3 = k3
  s1 = s1
  s2 = s2
  Streams = {k1, k2, k3}
  Sources = {s1, s2}
  SourceOf <- MCSourceOf
  Relayed = {k1, k3}
  Null = Null
INVARIANTS TypeOK AlignedWhenIdle VictimIsRequested MessageWhole OwnFrameUnlessOvertaken
PROPERTIES DeletesOnlyVictim RetiresTheRegistered
CHECK_DEADLOCK FALSE
