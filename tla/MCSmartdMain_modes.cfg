SPECIFICATION Spec
CONSTANTS
    d1 = d1
    d2 = d2
    Devices <- MCDevices
    Confs <- AllConfs
    Options <- AllOptions
    MaxEdits = 1
    MaxSignals = 1
    MaxChanges = 1
    MaxWriteFails = 0
    MaxStarts = 1
INVARIANTS
    TypeOK
    QuitsInGoodOrder
    PromptExit
PROPERTIES
    FaultyReloadIgnored
CHECK_DEADLOCK FALSE
