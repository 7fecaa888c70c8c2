CONSTANTS
    SECTOR_INTS = 2
    SECTOR_LIMIT = 3
    HasTimestamps = TRUE
    MaxSectors = 5
    Payloads = {short, edge, long, huge}
    Length <- MCLength
    UseAfterFault = FALSE
    Absent = Absent
    Torn = Torn
    short = short
    edge = edge
    long = long
    huge = huge
SPECIFICATION Spec
INVARIANTS DiskTableSound SectorMapExact WrittenIsReadBack
PROPERTIES OnlyWrittenSlotChanges ImplementsChunkStore
