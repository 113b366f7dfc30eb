SPECIFICATION Spec
CONSTANTS
    d1 = d1
    Devices = {d1}
    q1 = q1
    q2 = q2
    Slots = {q1, q2}
    MaxOverlap = 2
    Activities <- TwoActivities
    TicksPerSecond = 2
    HourLen = 2
    MaxGap = 2
    MaxNow = 6
    MaxTick = 22
    Retention = 1
    MaxTwice = 2
    Faults = {"read", "add", "upsert", "crash"}
INVARIANTS
    TypeOK
    OverfullExplained
    BooksBalance
    SplitIsExact
SYMMETRY AnySlot
CHECK_DEADLOCK FALSE
