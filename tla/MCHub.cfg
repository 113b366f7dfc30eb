SPECIFICATION FairSpec
CONSTANTS
    s1 = s1
    s2 = s2
    b1 = b1
    b2 = b2
    Streams = {s1, s2}
    Readers = {s1}
    Callers = {b1, b2}
    Cap = 1
    MaxEvents = 2
    NoProc = NoProc
INVARIANTS
    TypeOK
    NoPanic
    NoGap
    NoLeak
PROPERTIES
    ImplementsFeed
    BroadcastReturns
    DroppedStreamEnds
    EventsArrive
CHECK_DEADLOCK FALSE
