SPECIFICATION Spec
CONSTANTS
    Regions <- OneRegion
    NCols = 1
    NRows = 2
    Sections = {0, 1, 2}
    MaxSection = 2
    Worlds <- SmallWorlds
    Limits = {FALSE}
    PlayerChunk <- Origin
    Workers = {w1, w2}
    Outputs = {o1, o2}
    MaxTries = 2
    w1 = w1
    w2 = w2
    o1 = o1
    o2 = o2
    Game = Game
    None = None
INVARIANTS CompletionIsTrue
