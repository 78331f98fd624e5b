SPECIFICATION FairSpec
CONSTANTS
  k1 = k1
  k2 = k2
  k3 = k3
  s1 = s1
  s2 = s2
  Streams = {k1, k2, k3}
  Sources = {s1, s2}
  SourceOf <- MCSourceOf
  Null = Null
PROPERTY KilledStops
CHECK_DEADLOCK FALSE
