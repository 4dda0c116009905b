SPECIFICATION MCSpec
CONSTANTS
    None = None
    Default = 1
    Wrap = 2
    Client = {1, 2, 3}
    Holder = {1}
    Kinds = {"lww", "or_set", "counter", "narrow", "sequence", "map", "tree"}
    Items = {1, 2}
    MaxEdits = 3
    MaxOps = 3
ACTION_CONSTRAINT FirstItemFirst
INVARIANT DocsMeanTheLog
INVARIANT HydratedIsReplayed
INVARIANT ForestHasNoCycle
INVARIANT DiffReaches
INVARIANT RestingComponentsAgree
INVARIANT EditsCountOnce
INVARIANT RepeatsHeal
PROPERTY OrderIsKept
CHECK_DEADLOCK FALSE
