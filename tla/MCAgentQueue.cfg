CONSTANTS
    Jobs = {j1}
    CodeJobs = {}
    Agents = {a1, a2}
    Capacity = 1
    HasStore = TRUE
    GivesUp = TRUE
    Cancels = FALSE
    Restarts = FALSE
    Disconnects = FALSE
    Fragile = {a1, a2}
    MaxRuns = 3
    MaxCrashes = 1
SPECIFICATION QueueSpec
SYMMETRY Symmetry
INVARIANT UnheldIsReachable
INVARIANT LeaseAgrees
INVARIANT AcceptedIsRecorded
INVARIANT AnswersAreRecorded
