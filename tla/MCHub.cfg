CONSTANTS
    e1 = e1
    p1 = p1
    c1 = c1
    c2 = c2
    c3 = c3
    v1 = v1
    v3 = v3
    good = good
    other = other
    older = older
    extra = extra
    bad = bad
    a = a
    b = b
    c = c
    UserEnvs = {"qa", "scitab"}
    UserVersions = {100}
    UserIdentities <- Identities
    Changing = {"verified", "rubric"}
    Contents = {1, 2}
    MaxChanges = 2
    MaxStarts = 2
    Commands = {c1, c2, c3}
    Versions = {v1, v2, v3}
    NFiles = 2
    OutOfBand = {v3}
    MaxRuns = 2
    MaxStaging = 3
    MaxFailures = 1
    MaxKills = 1
    Envs = {e1}
    Packages = {}
    EnvVersions = {1, 2, 3}
    PreReleases = {3}
    Stacks = {}
    GatewayBound = {e1}
    Drives <- NoDrives
    Calls = {c1, c2}
    Recorded = {}
    MaySync = FALSE
    MaxClock = 1
    MaxYanks = 2
    Publishers = {c1, c2}
    PackageVersions = {v1}
    Releases = {good, other, older, extra, bad}
    FilesOf <- Files5
    EntryOf <- Entry5
    WellFormed = {good, other, older, extra}
    MaxPublishRuns = 2
    MaxStops = 1
    Projects <- Plain
    Images = {}
    Contracts <- NoContract
    Options <- NoOptions
    Metrics <- Measured
    Evidence = {1, 2}
    ProjectEvidence = {}
    Allowlists = {}
    Lifecycles = {"canonical"}
    MaxRules = 2
    MaxPublished = 2
SPECIFICATION Spec
INVARIANT LatestIsEligible
INVARIANT PublishedAsSent
INVARIANT InstalledIsConsistent
INVARIANT ImportedAsDeclared
INVARIANT FetchedRulesWereMeasured
INVARIANT SeededIsOffered
CHECK_DEADLOCK FALSE
