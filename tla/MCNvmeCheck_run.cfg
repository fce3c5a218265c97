SPECIFICATION Spec
CONSTANTS
    Configs <- AllConfigs
    Changes <- AllChanges
    Kelvins <- AllKelvins
    Day = 2
    MinDelay = 2
    Thresh = 10
    LogSize = 2
    SelfTestLogSize = 2
    MaxEvents = 3
    MaxFails = 1
    MaxTime = 3
    MaxStarts = 2
INVARIANTS
    WearTold
    ErrorsTold
    OverheatMailed
PROPERTIES
    ExtremesKept
CHECK_DEADLOCK FALSE
