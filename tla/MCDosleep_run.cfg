SPECIFICATION Spec
CONSTANTS
    d1 = d1
    d2 = d2
    Devices <- MCDevices
    Configs <- MCConfigs
    checktime = 5
    TooLong = 2
    SpinUp = 1
    MaxTime = 18
    MaxAdjust = 2
    MaxSignals = 1
INVARIANTS
    SleepBounded
    PhaseKept
PROPERTIES
    CheckedWhenDue
    NotCheckedEarly
CHECK_DEADLOCK FALSE
