SPECIFICATION FairSpec
CONSTANTS
  MaxErrorCount = 2
  QueueLength = 2
  MaxFaults = 5
  FaultKinds = {"nak", "stall", "txerr", "disconnect", "rootstop"}
INVARIANTS TypeOK OkMeansServed ControlInv NoLostWakeup
PROPERTY ServiceKept SetupOnQuietBus RequestEnds
CHECK_DEADLOCK FALSE
