SPECIFICATION FairSpec
CONSTANTS
  QueueLength = 2
  VbusSwitched = FALSE
  Haste = {}
  Devices = {"class", "other"}
  MaxPlugs = 3
  MaxFails = 2
PROPERTY PluggedIsServed
CHECK_DEADLOCK FALSE
