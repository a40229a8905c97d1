CONSTANTS
  p1 = p1
  p2 = p2
  w1 = w1
  w2 = w2
  MaxUploads = 1
  PipelineRetries = 1
  PipelineFaults = {"storage"}
  HandlerRetries = 2
  Pollers = {p1, p2}
  BusFaults = {}
  FlowPublished = 1
  MaxGroupLoss = 1
  HandlerMayRaise = TRUE
  Workers = {w1, w2}
  BatchSize = 2
  MaxPublished = 3
  MaxQueued = 3
SPECIFICATION ProgressSpec
INVARIANT DeliveredOnce
PROPERTIES UploadAccountedFor EventuallySettled HandledUnlessStarved
CHECK_DEADLOCK FALSE
