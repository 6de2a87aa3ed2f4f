CONSTANTS
    WorkerIds = {w1}
    Tasks = {t1, t2}
    EnvTypes = {envA, envB}
    Packages = {pkg}
    DrainOps = {}
    MaxAge = 2
    DynamicReports = {TRUE, FALSE}
    w1 = w1
    w2 = w2
    t1 = t1
    t2 = t2
    envA = envA
    envB = envB
    pkg = pkg
    NoPackage = NoPackage
    NoWorker = NoWorker
    EndpointOf <- OneEndpoint
    EnvOf <- PrepareEnvs
    PackageOf <- PreparePackages
    NeedOf <- PrepareNeeds
    Loads <- WireLoads
    MaxLoads <- WireMaxLoads
    MaxConcurrents <- LegacyConcurrency
    Resources = {0, 1}
    EnvReports <- OnlyEnvA
    PackageReports <- NoPackageReport
SPECIFICATION Spec
PROPERTY GrantsFitCapacity
