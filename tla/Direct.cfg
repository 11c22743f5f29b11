CONSTANTS
    p1 = p1  p2 = p2  c1 = c1  c2 = c2  i1 = i1  s1 = s1  x1 = x1  x2 = x2  None = None
    a = a  b = b  l = l  q1 = q1  q2 = q2  q3 = q3
    Pages = {p1, p2}
    Commands = {c1, c2}
    Items = {i1}
    Sessions = {s1}
    Contents = {x1, x2}
    MaxVersion = 1
    MaxFaults = 1
    Tasks = {a, b}
    Level2 = l
    Roots = {q1, q2, q3}
    Headings = {x1, x2}
    ReplaySafe = {"complete"}
    MaxVersions = 4
    MaxOutcomes = 2
    MaxEvents = 2
    Nil = Nil
    Scenes <- EveryScene
SPECIFICATION MCSpec
INVARIANTS OneRequestPerOperation OutcomesAreTrue ReceiptsAreTrue
PROPERTIES DraftsAreKept ResultsStay CommandsActOnFrozenTasks
CHECK_DEADLOCK FALSE
