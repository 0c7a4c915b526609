CONSTANTS
    Workers = {w1, w2}
    AddressBits = 3
    Clients <- MCClients
    Ports = {1, 2}
    Kinds = {"malformed", "unauthenticated", "request"}
    Configs <- MCConfigs
    SecondsPerMinute = 2
    MaxClock = 2
    MaxPackets = 3
    None = None
SYMMETRY WorkerSymmetry
SPECIFICATION Spec
INVARIANTS
    TypeOK
    RateLimiterExact
    DdosBurstBounded
    RequestLimiterExact
    
    ConnectionAccounting
    DeniedLeaveNoTrace
    MatchesNetworks
