SPECIFICATION Spec
CONSTANTS
    h1 = h1
    h2 = h2
    s1 = s1
    s2 = s2
    zen = zen
    avalai = avalai
    Handlers <- TwoHandlers
    NoHandler = NoHandler
    Subscription <- TwoServers
    NoServer = NoServer
    TunnelProviders <- OneTunnelled
    DirectProviders <- OneDirect
    NoProvider = NoProvider
    CacheSeed <- SeedSecond
    ProbeBatch = 1
    MaxLeases = 2
    MaxReports = 1
    MaxRefreshes = 1
    MaxRestarts = 1
    MaxFaults = 1
INVARIANTS
    TypeOK
    OneEgress
    NoOrphanLease
    LeaseNamesTunnel
PROPERTIES
    EveryRequestAnswered
CHECK_DEADLOCK FALSE
