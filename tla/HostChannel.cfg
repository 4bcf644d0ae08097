SPECIFICATION FairSpec
CONSTANTS
  Kinds = {"bulk_in", "bulk_out", "intr_in"}
  MaxPackets = 3
  MaxFaults = 7
  MaxPollFaults = 3
  FaultKinds = {"txerr", "lost", "stall", "frmor"}
INVARIANTS TypeOK ChannelInv
PROPERTIES StreamKept ErrorAfterStrikes AllTransferred ReportsRead
CHECK_DEADLOCK FALSE
