SPECIFICATION PgSpec
CONSTANTS
    Keys = {1}
    Values = {v1, v2}
    Prefixes = {}
    Clients = {c1, c2}
    Watchers = {}
    Servers = {s1, s2}
    EmptyWatch = FALSE
    Batch = 2
    Page = 1
    Window = 1
    MaxRevision = 3
PROPERTY PgNoLostUpdate
