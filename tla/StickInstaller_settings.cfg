SPECIFICATION Spec

CONSTANTS
    MaxVersion = 2
    MaxBreaks = 1
    Mixes = FALSE
    None = None
    Half = Half
    Torn = Torn
    Whole = Whole

INVARIANTS
    SettingsAreKept
