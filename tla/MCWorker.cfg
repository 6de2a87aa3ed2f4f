CONSTANTS
    Graded = {g1}
    Variants = {"verified", "pro", "smith"}
    MaxDirs = 0
    PullByDefault = TRUE
    MaxEdits = 2
    MaxRecycles = 1
    none = none
    noSession = noSession
    \* Two executions and three instances: one may be evicted or fail while
    \* both executions hold another.
    Tasks = {t1, t2}
    Instances = {i1, i2, i3}
    WarmupSize = 1
    MaxEpisodes = 2
    MaxSteps = 1
    \* Four requests for a pool of one.
    Jobs = {t1, t2, t3, t4}
    Sessions = {i1, i2, i3}
    Capacity = 1
    \* Two turns; retries come only from the request.
    MaxTurns = 2
    DefaultRetries = 0
SPECIFICATION Spec
SYMMETRY Symmetry
INVARIANT ExclusiveUse
INVARIANT OneTrajectory
INVARIANT SessionsFitCapacity
INVARIANT SubmitOnce
INVARIANT RolloutAligned
INVARIANT GoldResolves
INVARIANT NoFreeReward
CHECK_DEADLOCK FALSE
