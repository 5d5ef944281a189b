SPECIFICATION Spec
CONSTANTS
    t1 = t1
    t2 = t2
    d1 = d1
    d2 = d2
    f1 = f1
    f2 = f2
    NoPath = NoPath
    Threads = {t1, t2}
    Paths = {d1, d2, f1, f2}
    Slash = {d1, d2}
INVARIANTS RefCountsExact
SYMMETRY Symmetry
