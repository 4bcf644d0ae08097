SPECIFICATION Spec
CONSTANTS
  NumPorts = 2
  NumPipes = 8
  NumAddresses = 3
  Msc = {2}
  Aoa = {1}
  Refused = {2}
  AoaTakesAll = TRUE
  Haste = {"root", "timeout", "stall"}
INVARIANTS TypeOK HubInv
CHECK_DEADLOCK FALSE
