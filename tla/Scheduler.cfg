SPECIFICATION FairSpec
CONSTANTS
    low = low
    high = high
    odd = odd
    Pods = {low, high, odd}
    Nodes = {1, 2}
    Resources <- Kinds
    Request <- Load
    Capacity <- Room
    Unaccounted = {odd}
    Gated = {}
    Priority <- Priorities
    Rank <- Ranks
    Schedulers = {s}
    ListLimit = 2
    MaxEdits = 2
PROPERTY NoOvercommit
PROPERTY ConditionFollowsBinding
PROPERTY NoneWaitsInVain
