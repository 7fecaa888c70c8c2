SPECIFICATION NothingGivenUp
CONSTANTS
    Writers = {"a", "b", "c"}
    Modes <- SafeModes
    write_buffer_size = 0
    max_group = 2
    kL0_CompactionTrigger = 2
    kL0_StopWritesTrigger = 2
    MaxOpens = 2
    MaxFaults = 1
INVARIANTS
    
    
    SequencesUnique
PROPERTIES
    EveryCallReturns
CHECK_DEADLOCK FALSE
