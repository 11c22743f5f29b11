CONSTANTS
    p1 = p1  p2 = p2  t1 = t1  t2 = t2  o1 = o1  o2 = o2  s1 = s1  s2 = s2
    Procs = {p1, p2}
    TabOf <- TwoPages
    Sessions = {o1, o2}
    SpaceOf <- Apart
    Planned = {"l3a"}
    Extra = {"l3b"}
    MaxRev <- Revisions
    MaxFaults = 1
SPECIFICATION Spec
INVARIANTS OneSessionRuns RowsHaveAuthority NothingIsMissing
PROPERTY AdmittedIsFrozen
SYMMETRY Symmetry
CHECK_DEADLOCK FALSE
