CONSTANTS
    Workers = {w1, w2}
    HasUpstreams = TRUE
    HasConfigFile = TRUE
    RestartLimit = 1
    MaxSignals = 2
SPECIFICATION FairSpec
CHECK_DEADLOCK FALSE
INVARIANTS
    CleanExit
    
PROPERTIES
    
    SocketClosedLast
