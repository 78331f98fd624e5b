SPECIFICATION FairSpec
CONSTANTS
  c1 = c1
  c2 = c2
  c3 = c3
  ann = ann
  bob = bob
  cam = cam
  r1 = r1
  Conns = {c1, c2, c3}
  Uids = {ann, bob}
  Rooms = {}
  NamesOf <- MCReconnecting
  Session = Session
  Null = Null
INVARIANTS TypeOK NoGhostPeers
PROPERTY ClosedIsForgotten
