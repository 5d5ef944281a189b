SPECIFICATION SpaceFairSpec
CONSTANTS
    p1 = p1
    p2 = p2
    Procs = {p1, p2}
    FirstProc = p1
    PAGE_SIZE_4K = 2
    SpacePageCount = 8
    ImagePages = {1}
    StackPages = {6}
    Trampoline = 7
    USER_HEAP_BASE = 4
    USER_HEAP_SIZE = 4
    Files <- MCFiles
    Kind <- MCKind
    MmapArgs <- Mmaps
    MunmapArgs <- Unmaps
    Breaks = {3, 8, 9}
    ExecArgs <- SameArgs
    CloneKinds = {"thread", "fork", "vm"}
INVARIANTS SpaceUsable
PROPERTIES MmapExact LockComesFree
