CONSTANTS
    Workers = {w1, w2, w3}
    Fds = {f1, f2, f3, f4, f5}
    INVALID_SOCKET = INVALID_SOCKET
    enable_self_healing = TRUE
    service_restart_limit = 2
SYMMETRY Symmetry
SPECIFICATION Spec
INVARIANTS
    TypeOK
    RestartBound
    LeakBounded
    HealedWhenQuiet
    NoSocketLeak
