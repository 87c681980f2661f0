SPECIFICATION FairSpec

CONSTANTS
    MaxVersion = 2
    MaxBreaks = 3
    Mixes = FALSE
    None = None
    Half = Half
    Torn = Torn
    Whole = Whole

INVARIANTS
    FailedRunIsOffered
    NothingLeftHalf
    ThemeNeverHidesBundle

PROPERTIES
    OldOrNew
    EveryJobIsFinished
