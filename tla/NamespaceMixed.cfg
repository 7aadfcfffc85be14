SPECIFICATION Spec
CONSTANTS
    Services = {"a"}
    Addresses = {1}
    HangUps = {}
    CutShort = TRUE
    MaxEvents = 6
CHECK_DEADLOCK FALSE
INVARIANT EmptiedBeforeGone
