SPECIFICATION Spec
CONSTANTS
    Services = {"a"}
    Addresses = {1}
    HangUps = {}
    CutShort = FALSE
    MaxEvents = 2
CHECK_DEADLOCK FALSE
INVARIANT NothingOutlives
