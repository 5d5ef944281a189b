SPECIFICATION FairSpec
CONSTANTS
    t1 = t1
    t2 = t2
    SIGKILL = SIGKILL
    SIGUSR1 = SIGUSR1
    SIGCONT = SIGCONT
    Threads <- TwoThreads
    Signals <- ThreeSignals
    Defaults <- DefaultActions
    Dispositions = {"handler"}
    Masks <- AllMasked
    SuspendMasks <- AllMasked
    MaxSent = 2
INVARIANTS MaskRestored NoRecursion SleepersQueued
PROPERTIES WaitsReturn KillEnds
CHECK_DEADLOCK FALSE
