SPECIFICATION Spec
CONSTANTS
    kBlockSize = 7
    Lengths = {0, 2, 12}
    MaxRecords = 3
    InitialOffsets = {0, 12}
    kRadix = 4
    Width32 = 32
    Width64 = 128
    kNumLevels = 7
    UserKeys <- MCKeys
    UserValues <- MCValues
    Sequences0 = {0, 12}
    Edits <- MCEdits
    MaxOps = 3
    SnappyInputs <- MCInputs
    kBlockSize_ = 72
    Buckets = {1, 8}
    OddBytes = {0, 2, 18, 254}
    SkipKeys = {1, 2, 3, 4}
    kMaxHeight = 2
    kArenaBlock = 16
    Align = 4
    ArenaSizes = {1, 3, 4, 5, 8}
    MaxAllocations = 5
    CacheThreads = {t1, t2}
    TableNumbers = {1, 2, 3}
    HashOf <- MCHashOf
    kFirstLength = 1
    CacheCapacity = 2
    MmapLimit = 1
    Users_ = {"first", "second", "other"}
    ProcessOf <- MCProcessOf
    MaxQueue = 2
    Directories <- MCDirectories
    MaxCrashes = 2
    MaxFaults = 1
    kMaxSequenceNumber = 9
INVARIANT OneProcessOpensIt
CHECK_DEADLOCK FALSE
