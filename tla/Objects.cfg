SPECIFICATION OSpec
CONSTANTS
    Kinds = {"Deployment", "Secret"}
    Managers = {1, 2}
    Clients = {"c"}
    s1 = s1
    s2 = s2
    Servers = {s1, s2}
    Words <- MCWords
    Order <- MCOrder
    Bodies <- MCBodies
    Edits <- MCEdits
    Statuses = {"new", "ready"}
    RevisionLimit = 3
INVARIANT OwnersDeclared
PROPERTY OwnershipKept
PROPERTY UpdatesAreSound
SYMMETRY Symmetry
