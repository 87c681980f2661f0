SPECIFICATION Spec
CONSTANTS
    discA = discA
    discB = discB
    coreA = coreA
    coreB = coreB
    Slots <- TwoSlots
    Discs <- TwoDiscs
    RaName = RaName
    Pcsx = Pcsx
    Cores <- TwoCores
    Ps1 = Ps1
    Torn = Torn
    None = None
    CutMarking = FALSE
    MaxRuns = 3
    MaxRemoved = 1
    MaxCuts = 1
    MaxFull = 1
INVARIANTS
    ResumedWhereWritten
    ResumesWhatWasKept
    SlotsAreKept
CHECK_DEADLOCK FALSE
