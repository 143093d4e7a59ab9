SPECIFICATION Spec
CONSTANTS
    c1 = c1
    c2 = c2
    None = None
    MaxRows = 1
    Replicas = {c1, c2}
    Drivers = {"static"}
    ListLimit = 1
    Faults = {}
    MaxFaults = 0
    MaxDeletes = 0
    MaxBusy = 2
INVARIANTS OneServer
CHECK_DEADLOCK FALSE
