SPECIFICATION Spec
CONSTANTS
    t1 = t1
    t2 = t2
    i1 = i1
    Threads = {t1, t2}
    Iters = {i1}
    Snaps = {}
    Batches = {}
    Db = Db
    None = None
    MaxWrappers = 3
    ClosesPerWrapper = 2
INVARIANTS WrapperIsOneReference
