SPECIFICATION Spec
CONSTANTS
    Client = {a, b}
    States = {s, t}
    Unsaid = Unsaid
    MaxMints = 3
    MaxSets = 2
    MaxRestarts = 1
SYMMETRY Alike
INVARIANT IdsCollideOnlyIf
INVARIANT PresenceAgrees
CHECK_DEADLOCK FALSE
