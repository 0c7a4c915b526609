CONSTANTS
    MaxControls = 3
    MaxStarts = 2
SPECIFICATION ServiceSpec
CHECK_DEADLOCK FALSE
INVARIANTS
    ViewAccurate
PROPERTIES
    StopTakesEffect
