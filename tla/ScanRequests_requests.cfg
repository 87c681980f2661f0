SPECIFICATION FairSpec

CONSTANTS
    scanApps = scanApps
    scanPs1 = scanPs1
    scanPackages = scanPackages
    Apps = scanApps
    Packages = scanPackages
    Trees = {scanPs1, scanPackages}
    Processed = {scanPs1}
    MaxChanges = 2
    MaxRequests = 1
    MaxSuspends = 1
    MaxStops = 1

PROPERTIES
    EveryRequestIsTaken
    IndexIsBuilt
    Debounced
    
    ScansEnd
    SuspendedProcessorsStop
    StopReturns
