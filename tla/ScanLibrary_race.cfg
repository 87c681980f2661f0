SPECIFICATION FairSpec

CONSTANTS
    top = top
    sub = sub
    a = a
    b = b
    d1 = d1
    d2 = d2
    half = half
    Dirs = {top, sub}
    Names = {a}
    Discs = {d1, half}
    Verifying = {d1}
    NoGame = NoGame
    NoTree = NoTree
    MaxEdits = 2
    MaxRequests = 0
    MaxCuts = 0
    EditsDuringScan = TRUE
    TreesReturn = FALSE

PROPERTIES
    LibraryConverges
