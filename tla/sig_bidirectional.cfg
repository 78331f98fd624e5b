SPECIFICATION Spec
CONSTANTS
  c1 = c1
  c2 = c2
  c3 = c3
  ann = ann
  bob = bob
  cam = cam
  r1 = r1
  Conns = {c1, c2, c3}
  Uids = {ann, bob, cam}
  Rooms = {r1}
  NamesOf <- MCOwnName
  Session = Session
  Null = Null
INVARIANT SessionsBidirectional
SYMMETRY OwnNameSymmetry
