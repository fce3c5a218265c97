SPECIFICATION Spec
CONSTANTS
    Names <- AllNames
    Types <- AllTypes
    Lines <- AllLines
    MaxLines = 4
    Target <- Links
    RaidTypes <- Raid
    RealDisks <- AllRealDisks
    ScanLists <- AllScanLists
    Identities <- AllIdentities
    Never = FALSE
    MaxEvents = 1
INVARIANTS
    LinesAsWritten
    NamedNotScanned
    NoneTwice
    NothingLost
CHECK_DEADLOCK FALSE
