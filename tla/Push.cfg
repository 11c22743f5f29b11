CONSTANTS
    e1 = e1  e2 = e2
    Entities = {e1, e2}
    Existing = {e1}
    Ids = {1, 2, 3}
    MaxEdits = 3
    MaxMishaps = 1
SPECIFICATION FairSpec
INVARIANTS AppliedOnce NoEditIsLost
PROPERTY EditsSettle
CHECK_DEADLOCK FALSE
