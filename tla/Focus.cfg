CONSTANTS
    s1 = s1  s2 = s2  i1 = i1  i2 = i2
    None = None  Absent = Absent
    Sessions = {s1, s2}
    Items = {i1, i2}
    SpaceOf <- MCSpaceOf
    InitialRows <- MCInitialRows
    MaxRevisions = 2
    MaxTasks = 2
    Starts = {start}
    Activations = {activate}
    Resolutions = {resolve}
    Ends = {end}
    Touches = {touch}
    TouchKinds = {"takeover", "pause"}
    MaxEpoch = 2
    MaxCommands = 3
    MaxEvents = 1
SPECIFICATION FairCoordinatorSpec
INVARIANTS EffortIsTotal EvidenceHolds
PROPERTY ResolutionCompletes
CHECK_DEADLOCK FALSE
