CONSTANTS
  CrdtId = {1, 2, 3, 4}
  OrderKey = {k1}
  None = None
  Client = {c1, c2}
  Mirror = m
  MaxOps = 4
  MaxQueue = 1
SPECIFICATION Spec
SYMMETRY Interchangeable
ACTION_CONSTRAINT MintInOrder
CHECK_DEADLOCK FALSE
CONSTRAINT TwoNodesFirst
CONSTRAINT MirrorIdle
INVARIANT ReplicaFoldsLog
INVARIANT NoOrphanEdges
INVARIANT NoResurrection
INVARIANT NoTreeCycles
