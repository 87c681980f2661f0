SPECIFICATION Spec
CONSTANTS
    g1 = g1
    g2 = g2
    s1 = s1
    s2 = s2
    Games <- TwoGames
    Sets <- TwoSets
    FirstSets <- OneSet
    SONY = SONY
    Blank = Blank
    RaSave = RaSave
    Torn = Torn
    None = None
    CutStages <- PuttingBack
    MaxSaves = 1
    MaxVisits = 3
    MaxCuts = 1
SYMMETRY Same
INVARIANTS
    SetsKeepTheirSaves
CHECK_DEADLOCK FALSE
