CONSTANTS
    d1 = d1  d2 = d2
    Devices = {d1, d2}
    MaxWrites = 2
    Chunks = 2
    PageSize = 1
    MaxMishaps = 1
SPECIFICATION FairSpec
INVARIANTS NothingMissed RetentionIsSafe
PROPERTIES ReplicaNeverRegresses CatchUp
CHECK_DEADLOCK FALSE
