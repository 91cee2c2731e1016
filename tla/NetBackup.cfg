SPECIFICATION FairSpec
CONSTANTS
    Blocks = 6
    Window = 2
    WorkBuf = 2
    Stdio = 1
    NameLen = 79
    MaxFaults = 2
CHECK_DEADLOCK FALSE
INVARIANTS
    PatchSurvives
    NetInv
PROPERTIES
    BackupArrives
