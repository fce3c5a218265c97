SPECIFICATION Spec
CONSTANTS
    Configs <- AllConfigs
    Hour = 2
    MaxAge = 3
    MaxTime = 11
    MaxStarts = 3
    MaxFails = 1
    MaxBacks = 1
INVARIANTS
    NoTestForgotten
PROPERTIES
    EachHourOnce
CHECK_DEADLOCK FALSE
