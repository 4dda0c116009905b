CONSTANTS
  Op = {o1, o2}
  Conn = {p1, p2}
  Reader = {p2}
  Capacity = 1
  Backend = "memory"
  None = None
  MaxFaults = 0
SPECIFICATION FairRoomSpec
CHECK_DEADLOCK FALSE
CONSTRAINT NoCompaction
PROPERTY OpsArrive
