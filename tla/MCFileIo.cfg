SPECIFICATION IoFairSpec
CONSTANTS
    MaxTid = 2
    AX_FILE_LIMIT = 2
    MaxObjs = 1
    Dup2Targets <- ValidTargets
    CallSets <- Programs
    Iovecs <- Buffers
    Bad <- Unmapped
    Input <- Keys
    FileSize = 1
    MaxLen = 2
    CAPACITY = 2
INVARIANTS NoOrphanDescriptor InputExact ResultHonest
PROPERTIES ZombiesClose InputRead

CHECK_DEADLOCK FALSE
