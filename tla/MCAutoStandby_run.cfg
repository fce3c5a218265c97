SPECIFICATION StandbySpec
CONSTANTS
    d1 = d1
    d2 = d2
    Disks <- TwoDisks
    MaxEvents = 2
    MaxFails = 1
    MaxCycles = 2
    MaxReloads = 1
SYMMETRY Symmetry
INVARIANTS
    KeptAwake
PROPERTIES
    DisabledOnlyForTests
CHECK_DEADLOCK FALSE
