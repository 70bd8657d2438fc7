CONSTANTS
    Thread = {t1, t2, t3}
    IdsPerMs = 2
    Tag = 2
    LowField = 4
    Epoch = 1
    StartClock = 1
    MaxClock = 4
    MaxJumps = 2
    MaxIds = 5
SPECIFICATION FairSpec
INVARIANTS TypeOK IncreasingIds
PROPERTY HolderReleases
CHECK_DEADLOCK FALSE
