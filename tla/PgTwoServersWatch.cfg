SPECIFICATION PgSpec
CONSTANTS
    Keys = {1}
    Values = {v}
    Prefixes = {{1}}
    Clients = {c1}
    Watchers = {w}
    Servers = {s1, s2}
    EmptyWatch = FALSE
    Batch = 2
    Page = 1
    Window = 1
    MaxRevision = 3
PROPERTY DeliveryIsMonotonic
