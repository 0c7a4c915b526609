CONSTANTS
    BYTE = 2
    NANOS = 6
    MICROS = 3
    EPOCH = 8
    Span = 7
    Scenarios <- MCScenarios
SPECIFICATION Spec
CHECK_DEADLOCK FALSE
INVARIANTS
    OffsetAccurate
    DelayAccurate
    ResponseOnTime
