SPECIFICATION FairSpec
CONSTANTS
    t1 = t1
    t2 = t2
    t3 = t3
    a1 = a1
    a2 = a2
    NoAddr = NoAddr
    Threads = {t1, t2, t3}
    Addrs = {a1, a2}
    Ctid <- MCCtid
    Words = {0, 1}
    Counts = {0, 1}
    Moves = {1}
    MaxStale = 1
    Commands <- MCCommands
INVARIANTS GuardsKeepEntry SleepersReachable
PROPERTIES ImplementsQueues TimedWaitReturns ExitWakesSleeper
CHECK_DEADLOCK FALSE
