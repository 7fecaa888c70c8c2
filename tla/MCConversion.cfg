SPECIFICATION FairSpec
CONSTANTS
    Regions <- RegionPair
    NCols = 2
    NRows = 2
    Sections = {0, 1, 2}
    MaxSection = 2
    Worlds <- MixedWorlds
    Limits = {TRUE, FALSE}
    PlayerChunk <- Corner
    Workers = {w1, w2}
    Outputs = {o1}
    MaxTries = 2
    w1 = w1
    w2 = w2
    o1 = o1
    Game = Game
    None = None
INVARIANTS OutputFaithful OutputComplete WritersHoldTheDatabase
PROPERTIES ConversionEnds ScreenReleased
