SPECIFICATION FairSpec
CONSTANTS
    today = today
    week = week
    Windows = {today, week}
    Today = today
    Devices = {1, 2, 3}
    None = None
    MaxClicks = 4
    DayHours = 2
    Apps = {1, 2}
    NoApp = 0
INVARIANTS
    TypeOK
    ShownIsSelected
    GuardsSeparate
    BooksAgree
    BarsFit
PROPERTIES
    PickedStays
    PanelSettles
CHECK_DEADLOCK FALSE
