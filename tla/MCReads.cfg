SPECIFICATION Spec
CONSTANTS
    kMaxByte = 3
    kMaxSequenceNumber = 9
    block_size = 6
    block_restart_interval = 2
    kFilterBase = 8
    kWord = 6
    bits_per_key = 4
    num_probes = 2
    Layers = {"block", "table", "level", "merge", "db"}
    Workload <- MCWorkload
    SplitKey <- MCSplit
INVARIANTS
    IteratorsAreCursors
    DBIterShowsSnapshot
    DamageIsNeverHidden
    TableAnswers
CHECK_DEADLOCK FALSE
