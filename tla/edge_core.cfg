SPECIFICATION Spec
CONSTANTS
  Workers = {w1, w2}
  d1 = d1
  d2 = d2
  Datatypes = {d1, d2}
  Descriptors = {d1}
  TypeNames = {t1}
  NsNames <- MCNsNames
  NsName <- MCNsName
  Resources = {cpu}
  Demands <- SmallAndOversize
  Allocatable <- TwoOfEach
  InstanceIds = {i1, i2}
  Refs = {p1, p2}
  Faults = {"orchestrator", "database", "restart"}
  Null = Null
  Gone = Gone
SYMMETRY Symmetry
INVARIANTS TypeOK DeployedFits OneDeploymentPerThread ReservationReadsTotal
