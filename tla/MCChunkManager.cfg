SPECIFICATION Spec
CONSTANTS
    k1 = k1
    k2 = k2
    b1 = b1
    b2 = b2
    Keys = {k1, k2}
    Blocks = {b1, b2}
    Values = {0, 1}
    Air = 0
    UseAfterUnload = FALSE
    UseAfterError = FALSE
    None = None
    Orphan = Orphan
    Short = Short
SYMMETRY Symmetry
INVARIANTS CacheConsistent SavedMeansDurable
PROPERTIES SaveTouchesOnlyEdits
