CONSTANTS
  tDoc = tDoc
  tUser = tUser
  p1 = p1
  p2 = p2
  Types = {tDoc, tUser}
  Registry <- SiblingRegistry
  WorkerLoaded = {1}
  MaxRetries = 1
  CeleryMaxRetries = 0
  BatchSize = 2
  Pollers = {p1, p2}
  Faults = {"poll", "crash"}
  MaxPublished = 3
  MaxGroupLoss = 0
SPECIFICATION Spec
SYMMETRY PollerSymmetry
INVARIANTS AtMostOnceDispatch EndsAreTraced
CHECK_DEADLOCK FALSE
