SPECIFICATION LinkSpec
CONSTANTS
    Results = {r1}
    Fixed = TRUE
    Degraded = FALSE
    MaxAttempts = 2
    MaxFaults = 1
PROPERTY Reconnects
CHECK_DEADLOCK FALSE
