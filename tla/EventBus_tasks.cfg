CONSTANTS
  tDoc = tDoc
  tUser = tUser
  p1 = p1
  p2 = p2
  Types = {tDoc}
  Registry <- SiblingRegistry
  WorkerLoaded = {1, 2}
  MaxRetries = 2
  CeleryMaxRetries = 3
  BatchSize = 2
  Pollers = {p1}
  Faults = {"poll", "crash", "db", "broker"}
  MaxPublished = 1
  MaxGroupLoss = 1
SPECIFICATION Spec
INVARIANTS
  TypeOK
  ProcessedHasWitness
  SuccessBound
  BoundedAttempts
  UniqueRecorder
  AckedMeansDispatched
