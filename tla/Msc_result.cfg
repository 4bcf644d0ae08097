SPECIFICATION Spec
CONSTANTS
  MaxLun = 1
  Packets = 2
  MaxCommands = 1
  MaxFaults = 1
  FaultKinds = {"fail"}
INVARIANT OkMeansServed
CHECK_DEADLOCK FALSE
