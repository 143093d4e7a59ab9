SPECIFICATION FairSpec
CONSTANTS
    c1 = c1
    None = None
    MaxRows = 2
    Replicas = {c1}
    Drivers = {"docker", "k8s", "static"}
    ListLimit = 2
    Faults = {"driver_error", "reply_lost", "row_busy", "api_crash", "restart"}
    MaxFaults = 1
    MaxDeletes = 1
    MaxBusy = 2
INVARIANTS TypeOK ClaimedByOne
PROPERTIES OnlyOrphansSwept FleetSettles
CHECK_DEADLOCK FALSE
