SPECIFICATION Spec
CONSTANTS
    d1 = d1
    Devices = {d1}
    q1 = q1
    q2 = q2
    Slots = {q1}
    MaxOverlap = 0
    Activities <- TwoActivities
    TicksPerSecond = 1
    HourLen = 3
    MaxGap = 4
    MaxNow = 6
    MaxTick = 6
    Retention = 4
    MaxTwice = 2
    Faults = {"upsert"}
INVARIANTS
    HourNeverOverfull
CHECK_DEADLOCK FALSE
