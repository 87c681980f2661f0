SPECIFICATION FairSpec

CONSTANTS
    crash = crash
    spyro = spyro
    index = index
    unzip = unzip
    pack = pack
    zip = zip
    iso = iso
    bin = bin
    NoLine = NoLine
    Tree = Tree
    Games <- TwoGames
    FolderChain <- IndexOnly
    GameChain <- PackThenUnzip
    Contents = {zip, iso, bin}
    Arrives <- ArrivesAs
    Takes <- TakesOf
    Effect <- EffectOf
    Modifies = {unzip, pack}
    Events = {"change", "suspend", "cut", "fail", "update", "request", "stop"}
    MaxEvents = 2

INVARIANTS
    SkippedWasSeen
    NextScanCatchesUp

PROPERTIES
    DoneOnce
    ScansEnd

CHECK_DEADLOCK FALSE
