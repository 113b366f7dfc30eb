SPECIFICATION FairSpec
CONSTANTS
    d1 = d1
    Devices = {d1}
    InFlight = 2
    Threshold = 6
    ScanPeriod = 2
    Latency = 2
    KeepsUp = TRUE
    MaxFailures = 1
    MaxRestarts = 1
INVARIANTS
    TypeOK
    GreyInTime
PROPERTIES
    OutageAnnounced
    SetBackIsRecent
    ComesBack
CHECK_DEADLOCK FALSE
