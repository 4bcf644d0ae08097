SPECIFICATION FairSpec
CONSTANTS
  Size = 4
  Width = 8
  Requests = 7
  PacketSizes = {1, 2, 3}
  Total = 10
INVARIANTS TypeOK RingInOrder
PROPERTIES StopEnds AllLogged
CHECK_DEADLOCK FALSE
