CONSTANTS
  Op = {o1, o2}
  Conn = {p1, p2}
  Backend = "postgres"
  None = None
  MaxFaults = 1
SPECIFICATION Spec
CHECK_DEADLOCK FALSE
SYMMETRY Interchangeable
INVARIANT RoomReopens
