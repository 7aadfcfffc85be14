SPECIFICATION OSpec
CONSTANTS
    s1 = s1
    s2 = s2
    Kinds = {"Deployment"}
    Managers = {1, 2}
    Clients = {"c"}
    Servers = {s1}
    Words <- MCWords
    Order <- MCOrder
    Bodies <- MCBodies
    Edits <- MCEdits
    Statuses = {"new", "ready"}
    RevisionLimit = 3
PROPERTY DroppedFieldsGo
