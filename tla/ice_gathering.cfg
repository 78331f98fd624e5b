SPECIFICATION FairSpec
CONSTANTS
  Streams = {s1, s2}
  Components = {rtp, rtcp}
  Null = Null
INVARIANTS TypeOK PortsLimited CompleteWhenGathered DoneMeansComplete
PROPERTY ToldOfTheEnd
CHECK_DEADLOCK FALSE
