SPECIFICATION Spec
CONSTANTS
    Services = {"a", "b"}
    Addresses = {1, 2}
    HangUps = {"create"}
    CutShort = FALSE
    MaxEvents = 3
CHECK_DEADLOCK FALSE
INVARIANT AddressesAreUnique
