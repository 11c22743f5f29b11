--------------------------- MODULE MCTaskSpace ---------------------------
(***************************************************************************)
(* Instances of TaskSpace and of KnowledgeTree for TLC; a scene shows one  *)
(* or the other.  Each repertoire is explored to the end: what bounds a    *)
(* behaviour is which items, edges, labels and blocks there are, and which *)
(* kinds of command its clients send.  So is each cast: what bounds it are *)
(* the folders, notes and quick notes, their names and their titles.       *)
(***************************************************************************)
EXTENDS TaskSpace, KnowledgeTree, TLC

CONSTANTS r1, r2, a, b, c, d, l1, l2, k1, k2,    \* of the tasks
          f1, f2, f3, n1, n2, q1, t1             \* of the knowledge

SomeEdges == {<<a, b, "depends_on">>, <<b, c, "depends_on">>, <<c, a, "blocks">>}

Repertoire(commands, existing, created, parents, statuses) ==
    [commands |-> commands, existing |-> existing, created |-> created,
     parents |-> parents, statuses |-> statuses]

\* Four items, so that a chain too deep can be built.
Moving == Repertoire({"MoveWorkItem"}, {a, b, c, d}, {}, {a, b, c}, {})

Creating == Repertoire({"CreateProject", "CreateWorkItem", "MoveWorkItem"},
                       {}, {a, b}, {None, a, b}, {"not_started", "waiting"})

Closing == Repertoire({"MoveWorkItem", "TransitionWorkItem"},
                      {a, b, c}, {}, {a, b}, {"completed"})

Working == Repertoire({"UpdateWorkItem", "TransitionWorkItem",
                       "TrashWorkItem", "RestoreWorkItem"},
                      {a}, {}, {}, {"in_progress", "waiting", "completed"})

Labelled == Repertoire({"CreateLabel", "UpdateLabel", "ArchiveLabel",
                        "AddWorkItemLabels", "RemoveWorkItemLabels", "PushLabels",
                        "UpdateWorkItem"}, {a}, {}, {}, {})

Noting == Repertoire({"ReplaceDocument", "AppendBlocks", "ToggleChecklistItem"},
                     {a}, {}, {}, {})

Depending == Repertoire({"CreateRelation", "ResolveDependency", "RemoveRelation",
                         "PushRelation"}, {a, b, c}, {}, {}, {})

Archiving == Repertoire({"CreateRelation", "RemoveRelation", "TrashWorkItem",
                         "RestoreWorkItem"}, {a, b}, {}, {}, {})

SomeRepertoires == {Archiving, Closing, Moving, Creating, Working, Labelled, Noting, Depending}

----------------------------------------------------------------------------

\* Two titles of which paths keep the same, and one more.
MCSlug == [h \in Headings |-> IF h = "other" THEN "other" ELSE "title"]

Cast(folders, names, notes, headings, quicks) ==
    [folders |-> folders, names |-> names, notes |-> notes,
     headings |-> headings, quicks |-> quicks]

\* Moves that could close a cycle, names that collide, and cascades.
Growing == Cast({f1, f2, f3}, {"x"}, {}, {}, {})
Naming == Cast({f1, f2}, {"x", "y"}, {}, {}, {})

\* A note that is renamed, moved, trashed and restored.
Filing == Cast({f1, f2}, {"x"}, {n1}, Headings, {})

\* A conversion beside what trashes its folder and writes its quick note.
Converting == Cast({f1}, {"x"}, {n1}, {"title"}, {q1})

Nobody == Cast({}, {}, {}, {}, {})

SomeCasts == {Growing, Naming, Filing, Converting, Nobody}

----------------------------------------------------------------------------

VARIABLE scene

MCInit ==
    /\ Init /\ TreeInit
    /\ \/ scene = "tasks" /\ cast = Nobody
       \/ scene = "tree" /\ repertoire = Moving /\ cast # Nobody

MCNext ==
    /\ \/ scene = "tasks" /\ Next /\ UNCHANGED treeVars
       \/ scene = "tree" /\ TreeNext /\ UNCHANGED vars
    /\ scene' = scene

MCSpec == MCInit /\ [][MCNext]_<<vars, treeVars, scene>>

Symmetric == Permutations(Requests)

============================================================================
