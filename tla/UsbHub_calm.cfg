SPECIFICATION FairSpec
CONSTANTS
  NumPorts = 3
  NumPipes = 15
  NumAddresses = 4
  Msc = {2}
  Aoa = {}
  Refused = {}
  AoaTakesAll = FALSE
  Haste = {}
INVARIANTS OneAtDefaultAddress NothingLeaks NeverFaults
PROPERTIES PluggedIsAttended UnpluggedIsRemoved
CHECK_DEADLOCK FALSE
