SPECIFICATION Spec
CONSTANTS
    UserKeys = {1, 2}
    kNumLevels = 4
    kL0_CompactionTrigger = 2
    MaxBytesForLevel = 2
    kMaxGrandParentOverlapBytes = 1
    kExpandedCompactionByteSizeLimit = 6
    kAllowedSeeks = 1
    Readers = {"r"}
    Modes <- SafeModes
    MaxWrites = 5
    MaxFiles = 6
    MaxSnapshots = 2
INVARIANTS
    ReadsFindNewest
    LevelsDisjoint
    VersionsSound
    CompactionWellFormed
CHECK_DEADLOCK FALSE
