SPECIFICATION FairSpec
CONSTANTS
    MaxTid = 3
    FirstThreads = 1
    CallSets <- Programs
    ExitCodes = {1}
    KillPids <- Kills
    WaitOptions <- Waits
INVARIANTS TreeOK OneLastThread WaitsForOwnChildren OrphansAdopted
PROPERTIES ExitCodeFrozen KilledExits
CHECK_DEADLOCK FALSE
