\* A low power node that settings reconfigure while connections break.
SPECIFICATION FairSpec
CONSTANTS
    Keys <- KeysDef
    Values <- ValuesDef
    Default <- DefaultDef
    Trim <- TrimDef
    InitialFlash <- InitialFlashDef
    Messages <- MessagesDef
    MaxMessages = 2
    MaxCuts = 1
    MaxReports = 3
    Null = Null
    Empty = Empty
INVARIANTS
    PersistedConfig
    HelloIsCurrent
PROPERTIES
    LowPowerSleeps
CHECK_DEADLOCK FALSE
