CONSTANTS
  tDoc = tDoc
  tUser = tUser
  p1 = p1
  p2 = p2
  Types = {tDoc}
  Registry <- SiblingRegistry
  WorkerLoaded = {1, 2}
  MaxRetries = 3
  CeleryMaxRetries = 3
  BatchSize = 1
  Pollers = {p1}
  Faults = {}
  MaxPublished = 1
  MaxGroupLoss = 0
SPECIFICATION Spec
INVARIANT DeadLetterMeansFailed
CHECK_DEADLOCK FALSE
