SPECIFICATION Spec
CONSTANTS
    Clients = {c1}
    Handlers = {h1}
    MaxLeases = 2
    MaxAttempts = 2
    MaxCrashes = 1
    MaxFaults = 0
    SupersedesRecovered = FALSE
INVARIANT AcceptedIsDurable
INVARIANT PendingIsAwaited
INVARIANT RecoveryWaitsForLatest
PROPERTY ImplementsEpisodeOutcome
