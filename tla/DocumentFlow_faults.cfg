CONSTANTS
  p1 = p1
  p2 = p2
  MaxUploads = 1
  PipelineRetries = 1
  PipelineFaults = {"redis", "db"}
  HandlerRetries = 2
  Pollers = {p1}
  BusFaults = {"poll", "crash", "db", "broker"}
  MaxPublished = 1
  MaxGroupLoss = 1
  HandlerMayRaise = TRUE
SPECIFICATION Spec
INVARIANTS ProcessedHasDocument ExtraDocumentsExplained
PROPERTY KeepsBusSpec
CHECK_DEADLOCK FALSE
