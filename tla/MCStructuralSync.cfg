SPECIFICATION Spec
CONSTANTS
    Client = {1, 2}
    First = {1}
    Settled <- MCSettled
    MaxIds <- MCMaxIds
    MaxActs = 3
    MaxPeerOps = 1
    None = None
INVARIANT IndexIsExact
INVARIANT TombstonesAreOwn
INVARIANT RestingWorldIsTheRoom
INVARIANT EdgesDieWithTheirNodes
CHECK_DEADLOCK FALSE
