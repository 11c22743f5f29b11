CONSTANTS
    r1 = r1  c1 = c1  c2 = c2
    None = None
    Restores = {r1}
    Cuts = {c1, c2}
    Keep = 1
    MaxWrites = 1
    MaxSeconds = 2
    MaxMishaps = 2
    o1 = o1  o2 = o2
    Ops = {o1, o2}
    Images <- MCImages
    MaxOpenings = 3
    MaxStops = 2
SPECIFICATION MCSpec
INVARIANTS DataAreNeverLost MovesAlone PowerLossIsHarmless
PROPERTY SnapshotsAreReliable
CHECK_DEADLOCK FALSE
