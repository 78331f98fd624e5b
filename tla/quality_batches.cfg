SPECIFICATION Spec
CONSTANTS
  s1 = s1
  s2 = s2
  f1 = f1
  f2 = f2
  Stations = {s1, s2}
  Flows = {f1, f2}
  FlowsOf <- MCSharedFlow
  Scores = {4, 7}
  BatchSize = 4
  Null = Null
INVARIANTS TypeOK MeanOfBatch EnoughIsEvaluated
PROPERTY EvaluatedWhenEnough
