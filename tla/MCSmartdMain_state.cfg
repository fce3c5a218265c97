SPECIFICATION FairSpec
CONSTANTS
    d1 = d1
    d2 = d2
    Devices <- OneDevice
    Confs <- FewConfs
    Options <- DaemonOptions
    MaxEdits = 1
    MaxSignals = 2
    MaxChanges = 1
    MaxWriteFails = 1
    MaxStarts = 2
INVARIANTS
    ImportantChangesSaved
    MinorChangesSaved
    HupHonoured
PROPERTIES
    ReloadKeepsState
    SignalsAnswered
CHECK_DEADLOCK FALSE
