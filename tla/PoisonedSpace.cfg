CONSTANTS
    p1 = p1  p2 = p2  e1 = e1  e2 = e2  e3 = e3
    Procs = {p1, p2}
    Entities = {e1}
    Titles = {"A", "B"}
    Kind <- RivalKind
    Existing <- RivalExisting
    Request <- RivalRequest
    Modes = {"SHARED", "EXCLUSIVE"}
    MaxFaults = 0
    MaxLost = 0
SPECIFICATION FairSpec
PROPERTY BatchesSettle
CHECK_DEADLOCK FALSE
