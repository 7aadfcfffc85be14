SPECIFICATION TSpec
CONSTANTS
    Pods = {1, 2}
    Local = {1}
    Ports = {80, 81}
    Remade <- MCRemade
    SliceSize = 2
    MaxEvents = 2
PROPERTY RefusedIsUnready
