SPECIFICATION FairSpec
CONSTANTS
    v = v
    c1 = c1
    c2 = c2
    db = db
    w = w
    Keys = {1, 2}
    Values = {v}
    Prefixes = {{1, 2}, {2}}
    Clients = {c1, c2}
    Conns = {db}
    Watchers = {w}
    Batch = 2
    Page = 1
    Window = 1
    MaxRevision = 3
INVARIANT TypeOK
INVARIANT SnapshotsSurviveCompaction
INVARIANT CacheIsASnapshot
PROPERTY WindowIsKept
PROPERTY NoLostUpdate
PROPERTY ImplementsContract
PROPERTY ChangesAreDelivered
