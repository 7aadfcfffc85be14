SPECIFICATION FairSpec
CONSTANTS
    Keys = {1, 2, 3}
    Labels = {"", "a"}
    Requirements <- MCRequirements
    Limit = 1
    Scan = 2
    MaxRevision = 5
    MaxEvents = 2
PROPERTY CatchesUp
INVARIANT KnowsOneSnapshot
