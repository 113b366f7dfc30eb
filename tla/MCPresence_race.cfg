SPECIFICATION Spec
CONSTANTS
    d1 = d1
    Devices = {d1}
    InFlight = 1
    Threshold = 2
    ScanPeriod = 2
    Latency = 1
    KeepsUp = TRUE
    MaxFailures = 0
    MaxRestarts = 0
INVARIANT
    OfflineMeansSilent
CHECK_DEADLOCK FALSE
