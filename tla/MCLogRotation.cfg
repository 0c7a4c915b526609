CONSTANTS
    Threads = {t1, t2}
    Names = {"a", "b"}
    NoName = "none"
    Levels = {0, 1}
    Configs <- MCConfigs
    MostFiles = 3
    None = None
    MaxMessages = 5
    MaxReloads = 2
    MaxCrashes = 1
    MaxFaults = 1
SPECIFICATION Spec
CHECK_DEADLOCK FALSE
INVARIANTS
    FilesOrdered
    
PROPERTIES
    OnlyLastRemoved
    
