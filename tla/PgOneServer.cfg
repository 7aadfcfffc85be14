SPECIFICATION PgSpec
CONSTANTS
    Keys = {1, 2}
    Values = {v}
    Prefixes = {{1, 2}, {2}}
    Clients = {c1, c2}
    Watchers = {w}
    Servers = {s1}
    EmptyWatch = FALSE
    Batch = 2
    Page = 1
    Window = 1
    MaxRevision = 4
INVARIANT HistoryIsKept
INVARIANT CacheIsASnapshot
PROPERTY PgNoLostUpdate
SYMMETRY Symmetry
