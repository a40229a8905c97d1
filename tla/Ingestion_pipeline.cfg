CONSTANTS
  MaxUploads = 2
  MaxRetries = 3
  Faults = {"storage", "redis", "db", "broker", "crash"}
SPECIFICATION FairSpec
INVARIANTS TypeOK CreatedMeansPublished RepublishedOnlyInDoubt SettledWhenDone
PROPERTY EveryTaskEnds
CHECK_DEADLOCK FALSE
