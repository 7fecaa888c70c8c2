SPECIFICATION FairSpec
CONSTANTS
    t1 = t1
    t2 = t2
    i1 = i1
    i2 = i2
    s1 = s1
    b1 = b1
    Threads = {t1, t2}
    Iters = {i1, i2}
    Snaps = {s1}
    Batches = {b1}
    Db = Db
    None = None
    MaxWrappers = 3
    ClosesPerWrapper = 1
INVARIANTS NativeSafe ReferencesSound DestroyTakesEffect
PROPERTIES CallsReturn
