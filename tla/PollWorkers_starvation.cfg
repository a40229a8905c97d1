CONSTANTS
  w1 = w1
  w2 = w2
  Workers = {w1, w2}
  BatchSize = 2
  MaxPublished = 1
  MaxQueued = 2
SPECIFICATION FairSpec
PROPERTY EventuallyHandled
CHECK_DEADLOCK FALSE
