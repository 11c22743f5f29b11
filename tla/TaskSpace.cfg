CONSTANTS
    r1 = r1  r2 = r2
    a = a  b = b  c = c  d = d
    l1 = l1  l2 = l2  k1 = k1  k2 = k2
    Requests = {r1, r2}
    Items = {a, b, c, d}
    Projects = {"P"}
    Labels = {l1, l2}
    Names = {"x", "y"}
    Titles = {"A", "B"}
    Blocks = {k1, k2}
    Edges <- SomeEdges
    Repertoires <- SomeRepertoires
    Push = Push
    None = None
    f1 = f1  f2 = f2  f3 = f3  n1 = n1  n2 = n2  q1 = q1  t1 = t1
    Folders = {f1, f2, f3}
    Notes = {n1, n2}
    Quicks = {q1}
    FolderNames = {"x", "y"}
    Headings = {"title", "Title", "other"}
    Slug <- MCSlug
    Askers = {t1}
    Casts <- SomeCasts
    Nothing = Nothing
SPECIFICATION MCSpec
INVARIANTS StructureHolds EventsShowRows KnowledgeHolds
PROPERTY NoEditIsUndone
CHECK_DEADLOCK FALSE
SYMMETRY Symmetric
