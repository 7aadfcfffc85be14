SPECIFICATION FairSpec
CONSTANTS
    a = a
    b = b
    Templates = {a, b}
    Settings <- MCSettings
INVARIANT PodsHaveSets
PROPERTY RolloutCompletes
PROPERTY CascadeCompletes
INVARIANT StrategyKept
CHECK_DEADLOCK FALSE
