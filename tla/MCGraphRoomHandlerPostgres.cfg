CONSTANTS
  Op = {1, 2}
  Conn = {p1, p2}
  Backend = "postgres"
  None = None
  MaxFaults = 1
SPECIFICATION FairSpec
ACTION_CONSTRAINT LowestOpFirst
CHECK_DEADLOCK FALSE
INVARIANT MirrorFoldsLog
PROPERTY SubmitReturns
