SPECIFICATION FairSpec
CONSTANTS
  MaxLun = 2
  Packets = 2
  MaxCommands = 3
  MaxFaults = 3
  FaultKinds = {"fail", "stall", "slow"}
INVARIANTS TypeOK CompletedMeansServed MscInv
PROPERTIES BecomesActive CommandEnds
CHECK_DEADLOCK FALSE
