SPECIFICATION FairSpec
CONSTANTS
  MaxErrorCount = 2
  QueueLength = 2
  MaxFaults = 2
  FaultKinds = {"txerr"}
PROPERTY RetryIsSent
CHECK_DEADLOCK FALSE
