SPECIFICATION Spec
CONSTANTS
    Clients = {c1}
    Handlers = {h1}
    MaxLeases = 1
    MaxAttempts = 1
    MaxCrashes = 0
    MaxFaults = 0
    SupersedesRecovered = FALSE
INVARIANT HealthyWhenAccepted
