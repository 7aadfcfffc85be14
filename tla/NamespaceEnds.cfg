SPECIFICATION FairSpec
CONSTANTS
    Services = {"a"}
    Addresses = {1, 2}
    HangUps = {}
    CutShort = TRUE
    MaxEvents = 2
CHECK_DEADLOCK FALSE
PROPERTY MarkedNamespacesGo
