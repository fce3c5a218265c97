SPECIFICATION JmbSpec
CONSTANTS
    p1 = p1
    p2 = p2
    Procs <- MCProcs
    None = None
    MaxOpens = 3
    MaxCommands = 2
    MaxFails = 1
    MaxKills = 1
    MaxChanges = 1
SYMMETRY Symmetry
INVARIANTS
    DataKept
    OwnAnswers
CHECK_DEADLOCK FALSE
