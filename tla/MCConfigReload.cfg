CONSTANTS
    Settings <- MCSettings
    Values = {0, 1, 2}
    Bad = Bad
    Garbled = Garbled
    Absent = Absent
    Environment <- MCEnvironment
    Missing = Missing
    Defaults <- MCDefaults
    Contents <- MCContents
    FromFile = FromFile
    CommandLines <- MCCommandLines
    MaxWrites = 3
    MaxHups = 2
SPECIFICATION FairSpec
CHECK_DEADLOCK FALSE
PROPERTIES
    
    OnlyValidInstalled
INVARIANTS
    OptionsKept
    LoggerFollowsConfig
