SPECIFICATION Spec
CONSTANTS
    a = a
    b = b
    Templates = {a, b}
    Settings <- MCRollback
INVARIANT AvailabilityKept
