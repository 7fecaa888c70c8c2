SPECIFICATION Spec
CONSTANTS
    UserKeys = {1, 2}
    kNumLevels = 4
    kL0_CompactionTrigger = 2
    MaxBytesForLevel = 2
    kMaxGrandParentOverlapBytes = 1
    kExpandedCompactionByteSizeLimit = 6
    kAllowedSeeks = 1
    Readers = {"r"}
    Modes <- BoundaryModes
    MaxWrites = 3
    MaxFiles = 6
    MaxSnapshots = 2
INVARIANT ReadsFindNewest
CHECK_DEADLOCK FALSE
