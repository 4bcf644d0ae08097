SPECIFICATION Spec
CONSTANTS
  NumPorts = 2
  NumPipes = 11
  NumAddresses = 3
  Msc = {1, 2}
  Aoa = {}
  Refused = {}
  AoaTakesAll = TRUE
  Haste = {}
INVARIANTS PipesExclusive
CHECK_DEADLOCK FALSE
