SPECIFICATION FairSpec
CONSTANTS
  Alerts = {a, b, c}
  None = None
  MaxRetries = 1
  Faults = {"answer", "disk", "crash"}
  MaxSlips = 1
INVARIANTS DeliveredOnce OnlyMeanwhileIsLost
PROPERTIES QueuedEnds
CHECK_DEADLOCK FALSE
