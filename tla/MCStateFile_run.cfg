SPECIFICATION Spec
CONSTANTS
    NFields = 2
    MaxValue = 1
    MaxCycles = 3
    MaxFaults = 2
    MaxCrashes = 1
INVARIANTS
    OneCopyLeft
PROPERTIES
    NothingForgotten
    JsonFileAtomic
    OutputFilesFresh
CHECK_DEADLOCK FALSE
