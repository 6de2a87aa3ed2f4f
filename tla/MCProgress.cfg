SPECIFICATION ProgressSpec
CONSTANTS
    Jobs = {j1}
    CodeJobs = {}
    Agents = {a1, a2}
    Capacity = 1
    HasStore = TRUE
    GivesUp = FALSE
    Cancels = FALSE
    Restarts = FALSE
    Disconnects = FALSE
    Fragile = {a1}
    MaxRuns = 2
    MaxCrashes = 0
    Results = {r1}
    Fixed = FALSE
    Degraded = TRUE
    MaxAttempts = 2
    MaxFaults = 2
PROPERTY JobsComplete
PROPERTY WorkerReconnects
PROPERTY LogDrains
CHECK_DEADLOCK FALSE
