SPECIFICATION Spec
CONSTANTS
  NumPorts = 2
  NumPipes = 9
  NumAddresses = 3
  Msc = {2}
  Aoa = {1}
  Refused = {}
  AoaTakesAll = TRUE
  Haste = {"early", "slow"}
INVARIANTS PipesExclusive BusAddressesDiffer
PROPERTIES RemovedIsGone
CHECK_DEADLOCK FALSE
