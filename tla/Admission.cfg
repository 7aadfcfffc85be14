SPECIFICATION FairSpec
CONSTANTS
    Services = {"a", "b"}
    Addresses = {1, 2}
    HangUps = {"delete", "found"}
    CutShort = FALSE
    MaxEvents = 5
CHECK_DEADLOCK FALSE
INVARIANT ObjectsAreSound
INVARIANT EmptiedBeforeGone
PROPERTY NamespacesComplete
