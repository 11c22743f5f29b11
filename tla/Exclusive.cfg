CONSTANTS
    p1 = p1  p2 = p2  e1 = e1  e2 = e2  e3 = e3
    Procs = {p1, p2}
    Entities = {e1, e2}
    Titles = {"A", "B"}
    Kind <- MixedKind
    Existing <- MixedExisting
    Request <- MixedRequest
    Modes = {"EXCLUSIVE"}
    MaxFaults = 2
    MaxLost = 1
SPECIFICATION FairSpec
INVARIANTS RowsFollowLedger ProjectionsFollowRows
PROPERTIES RecoveryConverges ImplementsAtomicBatch
CHECK_DEADLOCK FALSE
