SPECIFICATION FairSpec

CONSTANTS
    top = top
    sub = sub
    a = a
    b = b
    d1 = d1
    d2 = d2
    half = half
    Dirs = {top, sub}
    Names = {a}
    Discs = {d1, half}
    Verifying = {d1}
    NoGame = NoGame
    NoTree = NoTree
    MaxEdits = 1
    MaxRequests = 1
    MaxCuts = 1
    EditsDuringScan = FALSE
    TreesReturn = FALSE

INVARIANTS
    SkippedScanIsNotOwed

PROPERTIES
    LibraryConverges
