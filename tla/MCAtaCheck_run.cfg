SPECIFICATION Spec
CONSTANTS
    Configs <- AllConfigs
    Changes <- AllChanges
    Day = 2
    MaxPending = 1
    MaxErrors = 2
    LogSize = 2
    MaxEvents = 3
    MaxFails = 1
    MaxTime = 3
    MaxStarts = 2
INVARIANTS
    SkipsBounded
    ErrorsTold
    ImportantMailsSaved
PROPERTIES
    ReappearanceMailed
CHECK_DEADLOCK FALSE
