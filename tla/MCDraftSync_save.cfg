SPECIFICATION Spec
CONSTANTS
    good = good
    padded = padded
    better = better
    halfTyped = halfTyped
    badDuration = badDuration
    blank = blank
    defaults = defaults
    Drafts <- AllDrafts
    Parsable <- ParsableDrafts
    Compiles <- CompilingDrafts
    Valid <- ValidDrafts
    Normal <- Normalised
    Blank = blank
    None = None
    Empty = Empty
    Torn = Torn
    MaxActs = 2
    MaxFaults = 0
INVARIANT CleanMeansOnDisk
CHECK_DEADLOCK FALSE
