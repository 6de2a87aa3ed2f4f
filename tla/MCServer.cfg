CONSTANTS
    w1 = w1
    e1 = e1
    t1 = t1
    x2 = x2
    nobody = nobody
    Workers = {w1, w2}
    Episodes = {e1, e2}
    MaxCapacity = 2
    MaxChanges = 5
    MayDrain = FALSE
    MayDrainAgain = FALSE
    MaySupersede = TRUE
    Agents = {a1, a2}
    Pools = {1, 2}
    Offers <- PoolOffers
    VariantPool <- ProPool
    Requests <- PoolRequests
    PoolEpisodes = {e1}
    MaxRegistrations = 3
    MaxAges = 1
    Sealers = {x1, x2}
    Ids = {t1, t2}
    Refused <- RefusedSecond
    MaxRetries = 2
    MayExpire = TRUE
    MayLose = TRUE
    AgentEpisodes = {"one", "two"}
    Tasks = {"first", "again", "other"}
    EpisodeOf <- Submissions
    AgentRequests <- SweAsks
    HasStore = TRUE
    PoolPermits = 1
    Slots = 1
    MayFail = TRUE
    EpisodesExpire = TRUE
    MaxSessions = 2
    MaxCrashes = 1
    OEpisodes = {e1}
    OWorkers = {w1}
    Posters = {p1}
    QueueSize = 2
    MaxEmits = 1
    PostScripts <- Posts
    MaxClock = 2
    MaxRestarts = 1
    OStatuses = {"IDLE"}
    Calls = {"k1", "k2", "k3", "t1", "t2"}
    Scripts <- CallScripts
    MaxPending = 2
    MaxStream = 2
    ChannelSize = 1
    Outcomes <- Ends
    Stops = TRUE
SPECIFICATION ServerSpec
INVARIANT NeverUnderAdmits
INVARIANT GrantFollowsRegistrations
INVARIANT RunningIsKnown
INVARIANT SessionsAreAccounted
INVARIANT ReplayAgrees
INVARIANT AnsweredInFull
INVARIANT SealedIsReadable
PROPERTY FinalStatusStays
CHECK_DEADLOCK FALSE
