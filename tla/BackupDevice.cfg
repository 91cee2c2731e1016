SPECIFICATION FairSpec
CONSTANTS
    DeviceSizes <- MCDeviceSizes
    Buffer = 2
INVARIANTS
    DumpIsExact
    TrimCoversPartitions
    PsvHashMatchesFile
    FailedDumpLeavesNothing
    RestoreIsExact
    WipeIsComplete
    DeviceInv
PROPERTIES
    OperationEnds
