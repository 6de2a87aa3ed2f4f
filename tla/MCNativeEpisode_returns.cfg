SPECIFICATION FairSpec
CONSTANTS
    Clients = {c1}
    Handlers = {h1}
    MaxLeases = 1
    MaxAttempts = 1
    MaxCrashes = 1
    MaxFaults = 1
    SupersedesRecovered = FALSE
INVARIANT TypeOK
PROPERTY AttachedReturns
