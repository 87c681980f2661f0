SPECIFICATION FairSpec

CONSTANTS
    tekken = tekken
    ridge = ridge
    photos = photos
    scratched = scratched
    NoDisc = NoDisc
    Games = {tekken, ridge}
    Others = {photos}
    Broken = {scratched}
    ReadTries = 3
    SpinUp = 2
    QuickSwaps = FALSE
    MaxTouches = 3
    MaxGames = 2
    MaxStops = 1

INVARIANTS
    DriveIsTheGames

PROPERTIES
    StatusFollowsDisc
    AnswerStands
