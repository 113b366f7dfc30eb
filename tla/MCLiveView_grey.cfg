SPECIFICATION ViewSpec
CONSTANTS
    d1 = d1
    l1 = l1
    Devices = {d1}
    InFlight = 1
    Threshold = 1
    ScanPeriod = 1
    Latency = 1
    KeepsUp = TRUE
    MaxFailures = 0
    MaxRestarts = 0
    Loads = {l1}
    Cap = 2
    NetworkDrops = FALSE
    FetchesMayFail = FALSE
INVARIANT
    SettledCardGreys
CHECK_DEADLOCK FALSE
