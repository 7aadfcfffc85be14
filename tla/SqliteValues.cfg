SPECIFICATION Spec
CONSTANTS
    v = v
    v2 = v2
    c1 = c1
    c2 = c2
    db = db
    Keys = {1, 2}
    Values = {v, v2}
    Prefixes = {{1, 2}, {2}}
    Clients = {c1, c2}
    Conns = {db}
    Watchers = {}
    Batch = 2
    Page = 1
    Window = 1
    MaxRevision = 4
PROPERTY NoLostUpdate
