CONSTANTS
    WorkerIds = {w1, w2}
    Tasks = {t1, t2}
    EnvTypes = {envA}
    Packages = {}
    DrainOps = {d1}
    MaxAge = 1
    DynamicReports = {FALSE}
    w1 = w1
    w2 = w2
    t1 = t1
    t2 = t2
    envA = envA
    envB = envB
    pkg = pkg
    NoPackage = NoPackage
    NoWorker = NoWorker
    EndpointOf <- OneEndpoint
    EnvOf <- AllEnvA
    PackageOf <- NoPackages
    NeedOf <- NoNeeds
    Loads <- WireLoads
    MaxLoads <- WireMaxLoads
    MaxConcurrents <- LegacyConcurrency
    Resources = {0}
    EnvReports <- OnlyEnvA
    PackageReports <- NoPackageReport
SYMMETRY Interchangeable
SPECIFICATION Spec
INVARIANTS
    TypeOK
    ReservationsMatchLeases
    LeasedStaysRegistered
    OneLivePerEndpoint
PROPERTIES
    DrainingIsFinalUnderLease
