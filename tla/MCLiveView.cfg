SPECIFICATION FairViewSpec
CONSTANTS
    d1 = d1
    l1 = l1
    Devices = {d1}
    InFlight = 1
    Threshold = 1
    ScanPeriod = 1
    Latency = 1
    KeepsUp = TRUE
    MaxFailures = 0
    MaxRestarts = 1
    Loads = {l1}
    Cap = 1
    NetworkDrops = TRUE
    FetchesMayFail = TRUE
INVARIANTS
    ViewTypeOK
    CardFollowsFeed
PROPERTY
    ReconnectRepairs
CHECK_DEADLOCK FALSE
