SPECIFICATION Spec
CONSTANTS
  Workers = {w1}
  d1 = d1
  d2 = d2
  Datatypes = {d1, d2}
  Descriptors = {d1, d2}
  TypeNames = {t1, t2}
  NsNames <- MCNsNames
  NsName <- SharedNsName
  Resources = {cpu}
  Demands <- SmallOnly
  Allocatable <- TwoOfEach
  InstanceIds = {i1, i2, i3}
  Refs = {p1, p2, p3}
  Faults = {"database", "restart"}
  Null = Null
  Gone = Gone
SYMMETRY Symmetry
INVARIANTS UniquePipeline
PROPERTIES NoSharedTermination LastRowTakesPipeline ImplementsRegistry
