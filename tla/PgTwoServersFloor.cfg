SPECIFICATION PgSpec
CONSTANTS
    Keys = {1}
    Values = {v}
    Prefixes = {}
    Clients = {c1}
    Watchers = {}
    Servers = {s1, s2}
    EmptyWatch = FALSE
    Batch = 2
    Page = 1
    Window = 1
    MaxRevision = 4
INVARIANT SnapshotsSurviveCompaction
