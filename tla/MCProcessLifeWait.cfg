SPECIFICATION FairSpec
CONSTANTS
    MaxTid = 2
    FirstThreads = 1
    CallSets = {{"fork", "exit", "wait"}}
    ExitCodes = {1}
    KillPids <- Kills
    WaitOptions <- Blocking
PROPERTIES WaitReturns 
CHECK_DEADLOCK FALSE
