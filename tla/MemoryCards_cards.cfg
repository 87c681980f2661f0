SPECIFICATION Spec
CONSTANTS
    g1 = g1
    g2 = g2
    s1 = s1
    s2 = s2
    Games <- TwoGames
    Sets <- TwoSets
    FirstSets <- OneSet
    SONY = SONY
    Blank = Blank
    RaSave = RaSave
    Torn = Torn
    None = None
    CutStages <- Covered
    MaxSaves = 2
    MaxVisits = 4
    MaxCuts = 2
SYMMETRY Same
INVARIANTS
    SetsKeepTheirSaves
    GamesKeepTheirSaves
    PlaysItsCards
    NothingLeftBehind
CHECK_DEADLOCK FALSE
