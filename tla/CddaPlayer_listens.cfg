SPECIFICATION FairSpec

CONSTANTS
    NoPlace = NoPlace
    Tocs <- TwoDiscs
    Capacity = 2
    PrevRestart = 1
    MaxJumps = 3
    MaxTurns = 2

INVARIANTS
    AwakeForWork
    OnlyMusicIsRead

PROPERTIES
    HeardInOrder
    DiscEnds

CHECK_DEADLOCK FALSE
