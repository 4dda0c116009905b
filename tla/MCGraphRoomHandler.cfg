CONSTANTS
  Op = {o1, o2, o3}
  Conn = {p1, p2}
  Backend = "memory"
  None = None
  MaxFaults = 0
SPECIFICATION Spec
SYMMETRY Interchangeable
CHECK_DEADLOCK FALSE
INVARIANT LogIsDense
INVARIANT Recoverable
INVARIANT MirrorAtHead
INVARIANT AnswersReachHead
INVARIANT CompactionWaitsForAcks
