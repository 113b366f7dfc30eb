SPECIFICATION FairSpec
CONSTANTS
    chrome = chrome
    Chrome = Chrome
    mail = mail
    blank = blank
    empty = empty
    word = word
    broken = broken
    None = None
    Names <- TheNames
    Blank = blank
    Normal <- Lowered
    Matches = {empty, word, broken}
    NoMatch = empty
    Compiles = {empty, word}
    Found = {chrome, mail}
    Suggested = word
    Stored <- StoredDrafts
    MaxEdits = 3
    MaxAsked = 2
INVARIANTS
    TypeOK
    OrphansByRename
    ExposedByConsent
    AnswersArePresent
    MarksMatchJudgement
    EditsTouchTheirTarget
PROPERTIES
    SuggestionLandsHome
    HintSettles
CHECK_DEADLOCK FALSE
