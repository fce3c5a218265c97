SPECIFICATION Spec
CONSTANTS
    Names <- AllNames
    Types <- AllTypes
    Lines <- AllLines
    MaxLines = 3
    Target <- Links
    RaidTypes <- Raid
    RealDisks <- AllRealDisks
    ScanLists <- AllScanLists
    Identities <- AllIdentities
    Never = FALSE
    MaxEvents = 1
INVARIANT IgnoredDisk
CHECK_DEADLOCK FALSE
