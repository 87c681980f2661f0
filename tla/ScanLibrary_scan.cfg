SPECIFICATION Spec

CONSTANTS
    top = top
    sub = sub
    a = a
    b = b
    d1 = d1
    d2 = d2
    half = half
    Dirs = {top, sub}
    Names = {a}
    Discs = {d1, d2, half}
    Verifying = {d1, d2}
    NoGame = NoGame
    NoTree = NoTree
    MaxEdits = 2
    MaxRequests = 0
    MaxCuts = 0
    EditsDuringScan = TRUE
    TreesReturn = TRUE

INVARIANTS
    TypeOK
    OneRowPerFolder
    ShownGamesExist
    RosterFollowsDatabase
    VanishedAreTheirRows
    NothingLeftAside

PROPERTIES
    MovedGameKeepsItsRow
