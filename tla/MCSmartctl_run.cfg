SPECIFICATION Spec
CONSTANTS
    AtaOptions <- MCAtaOptions
    AtaDisks <- MCAtaDisks
    ScsiOptions <- MCScsiOptions
    ScsiDevices <- MCScsiDevices
    NvmeOptions <- MCNvmeOptions
    NvmeDevices <- MCNvmeDevices
INVARIANTS
    FailureReported
    ZeroMeansHealthy
    ReadOnlyIfEnabled
    RecordsReported
    NothingSentAfter
CHECK_DEADLOCK FALSE
