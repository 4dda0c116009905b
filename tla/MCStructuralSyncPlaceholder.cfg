SPECIFICATION Spec
CONSTANTS
    Client = {1, 2}
    First = {1}
    Settled <- MCSettled
    MaxIds <- MCMaxIds
    MaxActs = 3
    MaxPeerOps = 1
    None = None
INVARIANT EntitiesExist
CHECK_DEADLOCK FALSE
