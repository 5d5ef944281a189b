SPECIFICATION Spec
CONSTANTS
    t1 = t1
    t2 = t2
    t3 = t3
    c1 = c1
    c2 = c2
    Threads = {t1, t2, t3}
    Cpus = {c1, c2}
    PAGE_SIZE = 2
    PageCount = 2
    Zeros = {2}
    Arrays = {0, 3}
    ReadOnly = {1}
    Uses = {"scan", "region"}
    Interrupts = TRUE
SYMMETRY Symmetry
INVARIANTS FaultsHandled ScanExact RegionReady
CHECK_DEADLOCK FALSE
