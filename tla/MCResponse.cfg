CONSTANTS
    Workers = {w1, w2}
    upstream_servers <- TwoServers
    Configs <- MCConfigs
    InitialStratum = 14
    MinRequests = 0
    MaxRequests = 5
    NoServer = NoServer
SPECIFICATION Spec
CHECK_DEADLOCK FALSE
SYMMETRY WorkerSymmetry
INVARIANTS
    StatsAccurate
    
    StratumOvershoot
