CONSTANTS
    Workers = {w1, w2}
    HasUpstreams = FALSE
    HasConfigFile = TRUE
    RestartLimit = 0
    MaxSignals = 0
SPECIFICATION Spec
CHECK_DEADLOCK FALSE
INVARIANTS
    StartedServerHasWorker
