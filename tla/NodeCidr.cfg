SPECIFICATION FairSpec
CONSTANTS
    x = x
    y = y
    Nodes = {1, 2}
    Size = 1
    Servers = {x, y}
    MaxOps = 2
INVARIANT CidrsDisjoint
INVARIANT LedgerCovers
PROPERTY NodesGetSubnets
PROPERTY SubnetsAreKept
