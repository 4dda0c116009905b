CONSTANTS
  Op = {o1, o2, o3}
  Conn = {p1, p2}
  Reader = {}
  Capacity = 1
  Backend = "memory"
  None = None
  MaxFaults = 0
SPECIFICATION RoomSpec
CHECK_DEADLOCK FALSE
SYMMETRY Interchangeable
INVARIANT HolesHaveKnownCauses
PROPERTY ImplementsLog
