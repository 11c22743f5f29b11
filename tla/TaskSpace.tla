----------------------------- MODULE TaskSpace -----------------------------
(***************************************************************************)
(* The Task Space of one Space: projects, work items in trees of at most   *)
(* three levels, labels, notes and the dependencies between work items.    *)
(*                                                                         *)
(* A command is compiled against the rows as they are (the overlay) into   *)
(* the images of the rows it writes, and commits later.  Online requests   *)
(* hold the shared lease, so that several may be between the two; a push   *)
(* holds the exclusive lease and is alone.  The commit looks at the rows   *)
(* it writes only: what the compiler read besides may have changed.        *)
(*                                                                         *)
(* A request names the version it saw; the compiler refuses any but the    *)
(* current one, without effect.  So only requests that are current when    *)
(* they are compiled appear, and versions do not: a request in flight is   *)
(* lost when one of its rows is written, and blind when another commit     *)
(* placed an item, or drew an edge, it did not see.                        *)
(*                                                                         *)
(* Left out: ranks, timestamps, the effort and planning fields, colours,   *)
(* pages of the queries, receipts without effect (an item trashed twice, a *)
(* label added twice), and pushes that change the ends of a relation.      *)
(***************************************************************************)
EXTENDS Naturals, FiniteSets

CONSTANTS Requests,       \* online requests that may be in flight
          Items,          \* work items that clients create
          Projects,       \* keys of the projects
          Labels, Names,  \* labels and the names they are given
          Titles,
          Blocks,         \* checklist items of a note
          Edges,          \* <<from, to, type>> of the relations clients name
          Repertoires,    \* what clients may do in a behaviour: the commands
                          \* they send, the items that exist already, those
                          \* they create, the parents and the statuses that
                          \* they choose
          Push,           \* the client that pushes its local edits
          None

\* A status stands for the system status of its category.
Active == {"not_started", "in_progress", "paused", "waiting"}
Statuses == Active \cup {"completed", "cancelled"}

ASSUME TableAssumption == Projects # {} /\ Titles # {}
ASSUME EdgesAssumption ==
    /\ \A e \in Edges : e[1] \in Items /\ e[2] \in Items /\ e[1] # e[2]
    /\ Items \cap Edges = {}
ASSUME RepertoireAssumption ==
    \A rep \in Repertoires :
        /\ rep.existing \cup rep.created \subseteq Items /\ IsFiniteSet(rep.existing)
        /\ rep.parents \subseteq Items \cup {None} /\ rep.statuses \subseteq Statuses
ASSUME PushAssumption == Push \notin Requests

BlockingTypes == {"depends_on", "blocks"}

\* A note maps its blocks to whether they are checked.
Documents == UNION {[S -> BOOLEAN] : S \in SUBSET Blocks}

Fields == {"project", "number", "parent", "status", "pre", "archived", "title"}

ItemRow == [project : Projects, number : Nat \ {0}, parent : Items \cup {None},
            status : Statuses, pre : Statuses \cup {None}, archived : BOOLEAN,
            title : Titles]
EventRow == [row : ItemRow, labels : SUBSET Labels]
ProjectRow == [next : Nat \ {0}]
LabelRow == [name : Names, archived : BOOLEAN]

ASSUME NoneAssumption ==
    None \notin Items \cup Labels \cup Documents \cup ItemRow \cup EventRow
               \cup ProjectRow \cup LabelRow \cup {"unresolved", "confirmed_not_required"}

Item(i) == <<"work_item", i>>
Labelling(i) == <<"work_item_label", i>>   \* the junction rows of an item
Note(i) == <<"work_item_note", i>>
Project(p) == <<"project", p>>
Label(l) == <<"label", l>>
Name(n) == <<"label_name", n>>             \* the unique index of the names
Relation(e) == <<"relation", e>>
Tombstone(e) == <<"tombstone", e>>
Event(i) == <<"event", i>>                 \* the last event of an item

Keys == {Item(i) : i \in Items} \cup {Labelling(i) : i \in Items}
        \cup {Note(i) : i \in Items} \cup {Event(i) : i \in Items}
        \cup {Project(p) : p \in Projects}
        \cup {Label(l) : l \in Labels} \cup {Name(n) : n \in Names}
        \cup {Relation(e) : e \in Edges} \cup {Tombstone(e) : e \in Edges}

VARIABLES db,          \* key -> row, None if there is none
          flight,      \* request -> what it was compiled into
          blind,       \* items placed and edges drawn without seeing it all
          down,        \* "no", or why the Space answers no more
          repertoire   \* the commands of this behaviour

vars == <<db, flight, blind, down, repertoire>>

\* A command as it is compiled, and a request that has none.
Flight(op, rows) == [op |-> op, rows |-> rows, lost |-> FALSE, unseen |-> {}]
NoFlight == Flight("none", <<>>)

Has(key) == db[key] # None
Up(i) == IF i = None \/ ~Has(Item(i)) THEN None ELSE db[Item(i)].parent

\* The items that exist already are at the top level of the first project.
FirstProject == CHOOSE p \in Projects : TRUE

FirstRow(number) ==
    [project |-> FirstProject, number |-> number, parent |-> None,
     status |-> "not_started", pre |-> None, archived |-> FALSE,
     title |-> CHOOSE t \in Titles : TRUE]

\* What the devices are told of an item: its row and its labels.
Told(row, labels) == [row |-> row, labels |-> labels]

Start(existing) ==
    LET size == Cardinality(existing)
        number == CHOOSE f \in [existing -> 1..size] :
                    \A i, j \in existing : i # j => f[i] # f[j]
        row(i) == FirstRow(number[i])
    IN [k \in Keys |->
          CASE k[1] = "work_item_label" -> {}
            [] k[1] = "tombstone" -> FALSE
            [] k = Project(FirstProject) /\ existing # {} -> [next |-> size + 1]
            [] k[1] = "work_item" /\ k[2] \in existing -> row(k[2])
            [] k[1] = "event" /\ k[2] \in existing -> Told(row(k[2]), {})
            [] OTHER -> None]

Init ==
    /\ repertoire \in Repertoires
    /\ db = Start(repertoire.existing)
    /\ flight = [r \in Requests |-> NoFlight]
    /\ blind = {}
    /\ down = "no"

----------------------------------------------------------------------------
(* From a command to its commit. *)

\* The rows a command writes, one at first, then more.
One(key, row) == [k \in {key} |-> row]
With(rows, key, row) ==
    [k \in DOMAIN rows \cup {key} |-> IF k = key THEN row ELSE rows[k]]

Written(rows) == [k \in Keys |-> IF k \in DOMAIN rows THEN rows[k] ELSE db[k]]

\* What a commit of these rows changes for whoever compiled before it.
Places(op) == IF op \in {"CreateWorkItem", "MoveWorkItem"} THEN {"tree"} ELSE {}
Draws(op) == IF op = "CreateRelation" THEN {"edges"} ELSE {}

\* What the rows place or draw.
Subjects(op, rows) ==
    CASE op \in {"CreateWorkItem", "MoveWorkItem"} ->
           {i \in Items : Item(i) \in DOMAIN rows}
      [] op \in {"CreateRelation", "RemoveRelation"} ->
           {e \in Edges : Relation(e) \in DOMAIN rows}
      [] OTHER -> {}

\* Events are appended, never compared.
Compared(rows) == DOMAIN rows \ {Event(i) : i \in Items}

Idle(r) == flight[r].op = "none"
Alone == \A r \in Requests : Idle(r)

\* An online command flies until its request commits.
Stage(r, op, rows) ==
    /\ Idle(r)
    /\ flight' = [flight EXCEPT ![r] = Flight(op, rows)]
    /\ UNCHANGED <<db, blind>>

\* A pushed item is compiled as the one command its changes amount to, and
\* commits under the same lease.
Replay(op, rows) ==
    /\ Alone
    /\ db' = Written(rows)
    /\ blind' = blind \ Subjects(op, rows)
    /\ UNCHANGED flight

\* The rows were compiled against the rows as they are.
Compile(client, op, rows) ==
    /\ down = "no"
    /\ op \in repertoire.commands
    /\ IF client = Push THEN Replay(op, rows) ELSE Stage(client, op, rows)
    /\ UNCHANGED <<down, repertoire>>

\* Mutant: the commit looks at no version.
OvertakenUnnoticed(q, op, rows) ==
    IF Idle(q) THEN NoFlight
    ELSE [flight[q] EXCEPT !.unseen = @ \cup Places(op) \cup Draws(op)]

\* Request q once a commit of op wrote rows.
Overtaken(q, op, rows) ==
    IF Idle(q) THEN NoFlight
    ELSE [flight[q] EXCEPT !.lost = @ \/ Compared(rows) \cap Compared(flight[q].rows) # {},
                           !.unseen = @ \cup Places(op) \cup Draws(op)]

\* A request did not see what another placed, or drew, after it was compiled.
Unseen(f) == (Places(f.op) \cup Draws(f.op)) \cap f.unseen # {}

Commit(r) ==
    LET f == flight[r] IN
    /\ down = "no" /\ ~Idle(r)
    /\ ~f.lost
    /\ db' = Written(f.rows)
    /\ flight' = [q \in Requests |-> IF q = r THEN NoFlight ELSE Overtaken(q, f.op, f.rows)]
    /\ blind' = IF Unseen(f) THEN blind \cup Subjects(f.op, f.rows)
                             ELSE blind \ Subjects(f.op, f.rows)
    /\ UNCHANGED <<down, repertoire>>

\* One of the rows changed: its version or its key is refused when the batch
\* is staged already, and no later request gets past the batch (see
\* BatchesSettle in SpaceMutation).
Jam(r) ==
    /\ down = "no" /\ ~Idle(r)
    /\ flight[r].lost
    /\ down' = "jammed"
    /\ UNCHANGED <<db, flight, blind, repertoire>>

----------------------------------------------------------------------------
(* Projects and trees. *)

\* The row of item i and its event, which carries the labels the compiler
\* read.
ItemRows(i, row, labels) ==
    With(One(Item(i), row), Event(i), Told(row, labels))

Edited(i, row) == ItemRows(i, row, db[Labelling(i)])

CreateProject(r, p) ==
    /\ ~Has(Project(p))
    /\ Compile(r, "CreateProject", One(Project(p), [next |-> 1]))

\* The level of an item, 0 for none, and how far down its subtree goes; 3
\* and 4 stand for all that is deeper.
Level(i) == IF i = None THEN 0
            ELSE IF Up(i) = None THEN 1
            ELSE IF Up(Up(i)) = None THEN 2 ELSE 3

Height(i) ==
    IF \A x \in Items : Up(x) # i THEN 1
    ELSE IF \A x \in Items : Up(Up(x)) # i THEN 2
    ELSE IF \A x \in Items : Up(Up(Up(x))) # i THEN 3 ELSE 4

\* y is found when one starts at x and follows the links.
Reaches(links, x, y) ==
    \A S \in SUBSET Items :
        x \in S /\ (\A l \in links : l[1] \in S => l[2] \in S) => y \in S

UpLinks == {<<i, Up(i)>> : i \in {x \in Items : Up(x) # None}}

OnCycle(i) == Up(i) # None /\ Reaches(UpLinks, Up(i), i)

\* The way up from i comes to an end.
Rooted(i) == ~\E x \in Items : OnCycle(x) /\ (x = i \/ Reaches(UpLinks, i, x))

\* A parent for an item of project p.
ParentFits(j, p) == j # None => Has(Item(j)) /\ db[Item(j)].project = p

\* Mutant: the number is taken before the counter starts at one.
NewRowFromZero(p, j, status) ==
    [project |-> p, number |-> db[Project(p)].next - 1, parent |-> j,
     status |-> status, pre |-> None, archived |-> FALSE,
     title |-> CHOOSE t \in Titles : TRUE]

NewRow(p, j, status) ==
    [project |-> p, number |-> db[Project(p)].next, parent |-> j,
     status |-> status, pre |-> None, archived |-> FALSE,
     title |-> CHOOSE t \in Titles : TRUE]

CreateRows(i, p, j, status) ==
    With(ItemRows(i, NewRow(p, j, status), {}),
         Project(p), [next |-> db[Project(p)].next + 1])

CreateWorkItem(r, i, p, j, status) ==
    /\ Has(Project(p)) /\ ~Has(Item(i))
    /\ ParentFits(j, p)
    /\ Level(j) < 3
    /\ Compile(r, "CreateWorkItem", CreateRows(i, p, j, status))

UpdateWorkItem(client, i, t) ==
    /\ Has(Item(i))
    /\ Compile(client, "UpdateWorkItem", Edited(i, [db[Item(i)] EXCEPT !.title = t]))

MoveTarget(i, j) ==
    /\ Has(Item(i)) /\ j # i
    /\ ParentFits(j, db[Item(i)].project)

\* Mutant: the subtree may reach one level too deep.
FitsUnderLax(i, j) == /\ i \notin {Up(j), Up(Up(j))}
                      /\ Level(j) + Height(i) <= 4

\* j is no descendant of i and the subtree of i ends at level three.
FitsUnder(i, j) == /\ i \notin {Up(j), Up(Up(j))}
                   /\ Level(j) + Height(i) <= 3

MoveWorkItem(client, i, j) ==
    /\ MoveTarget(i, j) /\ ~OnCycle(i)
    /\ FitsUnder(i, j)
    /\ Compile(client, "MoveWorkItem", Edited(i, [db[Item(i)] EXCEPT !.parent = j]))

\* The descendants of an item on a cycle never end: the compiler loops, and
\* the event loop with it.
Hang(client, i, j) ==
    /\ down = "no" /\ "MoveWorkItem" \in repertoire.commands
    /\ IF client = Push THEN Alone ELSE Idle(client)
    /\ MoveTarget(i, j) /\ OnCycle(i)
    /\ down' = "hung"
    /\ UNCHANGED <<db, flight, blind, repertoire>>

----------------------------------------------------------------------------
(* The life of a work item. *)

ActiveChildren(i) ==
    {x \in Items : Has(Item(x)) /\ db[Item(x)].parent = i /\ db[Item(x)].status \in Active}

\* Waiting remembers what it was entered from.
Moved(row, s) ==
    [row EXCEPT !.status = s,
                !.pre = IF s = "waiting" /\ row.status # "waiting" THEN row.status ELSE @]

\* The claim of a session envelope is in module ActiveSession.
TransitionWorkItem(client, i, s) ==
    /\ Has(Item(i)) /\ Rooted(i)
    /\ s = "completed" /\ Level(i) = 2 => ActiveChildren(i) = {}
    /\ Compile(client, "TransitionWorkItem", Edited(i, Moved(db[Item(i)], s)))

\* A push carries archived_at with the scalar fields.
SetArchived(client, op, i, archived) ==
    /\ Has(Item(i)) /\ db[Item(i)].archived # archived
    /\ Compile(client, op, Edited(i, [db[Item(i)] EXCEPT !.archived = archived]))

TrashWorkItem(client, i) == SetArchived(client, "TrashWorkItem", i, TRUE)
RestoreWorkItem(client, i) == SetArchived(client, "RestoreWorkItem", i, FALSE)

----------------------------------------------------------------------------
(* Labels. *)

CreateLabel(r, l, n) ==
    /\ ~Has(Label(l)) /\ ~Has(Name(n))
    /\ Compile(r, "CreateLabel",
               With(One(Name(n), l), Label(l), [name |-> n, archived |-> FALSE]))

UpdateLabel(r, l, n) ==
    LET old == db[Label(l)].name IN
    /\ Has(Label(l)) /\ (Has(Name(n)) => n = old)
    /\ Compile(r, "UpdateLabel",
               With(With(One(Name(old), None), Name(n), l),
                    Label(l), [db[Label(l)] EXCEPT !.name = n]))

ArchiveLabel(r, l) ==
    /\ Has(Label(l))
    /\ Compile(r, "ArchiveLabel", One(Label(l), [db[Label(l)] EXCEPT !.archived = TRUE]))

\* Mutant: only the junction is written, the version of the item stays.
LabelRowsAlone(i, labels) ==
    With(One(Labelling(i), labels), Event(i), Told(db[Item(i)], labels))

\* The version of the item moves with its labels.
LabelRows(i, labels) ==
    With(ItemRows(i, db[Item(i)], labels), Labelling(i), labels)

SetLabels(client, op, i, labels) ==
    /\ Has(Item(i)) /\ \A l \in labels : Has(Label(l))
    /\ labels # db[Labelling(i)]
    /\ Compile(client, op, LabelRows(i, labels))

AddWorkItemLabels(r, i, ls) ==
    /\ \A l \in ls : Has(Label(l))
    /\ SetLabels(r, "AddWorkItemLabels", i, db[Labelling(i)] \cup ls)

RemoveWorkItemLabels(r, i, ls) ==
    /\ \A l \in ls : Has(Label(l))
    /\ SetLabels(r, "RemoveWorkItemLabels", i, db[Labelling(i)] \ ls)

----------------------------------------------------------------------------
(* Notes: one per work item, under an id derived from the item's. *)

WriteNote(client, op, i, doc) ==
    /\ Has(Item(i))
    /\ Compile(client, op, One(Note(i), doc))

ReplaceDocument(r, i, doc) == WriteNote(r, "ReplaceDocument", i, doc)

\* A device writes the note of an item whether or not there is one.
PushNote(i, doc) == WriteNote(Push, "ReplaceDocument", i, doc)

AppendBlocks(r, i, b) ==
    /\ Has(Note(i)) /\ b \notin DOMAIN db[Note(i)]
    /\ WriteNote(r, "AppendBlocks", i, With(db[Note(i)], b, FALSE))

ToggleChecklistItem(r, i, b, checked) ==
    /\ Has(Note(i)) /\ b \in DOMAIN db[Note(i)]
    /\ WriteNote(r, "ToggleChecklistItem", i, [db[Note(i)] EXCEPT ![b] = checked])

----------------------------------------------------------------------------
(* Dependencies. *)

\* Both ends exist and neither is archived.
EndsOpen(e) == \A x \in {e[1], e[2]} : Has(Item(x)) /\ ~db[Item(x)].archived

Blocking(e) == e[3] \in BlockingTypes

BlockingLinks == {<<e[1], e[2]>> : e \in {x \in Edges : Has(Relation(x)) /\ Blocking(x)}}

\* The edge would lead back to where it starts.
ClosesCycle(e) == Reaches(BlockingLinks, e[2], e[1])

CreateRelation(r, e) ==
    /\ EndsOpen(e)
    /\ ~Has(Relation(e))
    /\ ~ClosesCycle(e)
    /\ Compile(r, "CreateRelation", One(Relation(e), "unresolved"))

\* The user says that a cancelled upstream is not needed.
ResolveDependency(r, e) ==
    /\ Blocking(e)
    /\ db[Relation(e)] = "unresolved"
    /\ Compile(r, "ResolveDependency", One(Relation(e), "confirmed_not_required"))

RemoveRelation(r, e) ==
    /\ Has(Relation(e)) /\ EndsOpen(e)
    /\ Compile(r, "RemoveRelation", With(One(Relation(e), None), Tombstone(e), TRUE))

\* A pushed relation goes through the catalog's compiler, which looks for its
\* ends and nothing else.
PushRelation(e) ==
    /\ ~Has(Relation(e)) /\ ~db[Tombstone(e)]
    /\ Has(Item(e[1])) /\ Has(Item(e[2]))
    /\ db' = [db EXCEPT ![Relation(e)] = "unresolved"]
    /\ blind' = blind \cup {e}

PushRemoval(e) ==
    /\ Has(Relation(e))
    /\ db' = [db EXCEPT ![Relation(e)] = None, ![Tombstone(e)] = TRUE]
    /\ blind' = blind \ {e}

----------------------------------------------------------------------------
Clients == Requests \cup {Push}

TreeCommand ==
    \/ \E r \in Requests, p \in Projects :
         \/ CreateProject(r, p)
         \/ \E i \in repertoire.created, j \in repertoire.parents,
               s \in repertoire.statuses : CreateWorkItem(r, i, p, j, s)
    \/ \E c \in Clients, i \in Items, j \in repertoire.parents :
         MoveWorkItem(c, i, j) \/ Hang(c, i, j)

ItemCommand ==
    \E c \in Clients, i \in Items :
        \/ \E t \in Titles : UpdateWorkItem(c, i, t)
        \/ \E s \in repertoire.statuses : TransitionWorkItem(c, i, s)
        \/ TrashWorkItem(c, i) \/ RestoreWorkItem(c, i)

LabelCommand ==
    \/ \E r \in Requests, l \in Labels :
         \/ ArchiveLabel(r, l)
         \/ \E n \in Names : CreateLabel(r, l, n) \/ UpdateLabel(r, l, n)
    \/ \E r \in Requests, i \in Items, ls \in SUBSET Labels :
         AddWorkItemLabels(r, i, ls) \/ RemoveWorkItemLabels(r, i, ls)
    \/ \E i \in Items, ls \in SUBSET Labels : SetLabels(Push, "PushLabels", i, ls)

NoteCommand ==
    \/ \E i \in Items, doc \in Documents :
         (\E r \in Requests : ReplaceDocument(r, i, doc)) \/ PushNote(i, doc)
    \/ \E r \in Requests, i \in Items, b \in Blocks :
         \/ AppendBlocks(r, i, b)
         \/ \E checked \in BOOLEAN : ToggleChecklistItem(r, i, b, checked)

RelationCommand ==
    \E e \in Edges :
        \/ \E r \in Requests :
             CreateRelation(r, e) \/ ResolveDependency(r, e) \/ RemoveRelation(r, e)
        \/ /\ down = "no" /\ "PushRelation" \in repertoire.commands /\ Alone
           /\ PushRelation(e) \/ PushRemoval(e)
           /\ UNCHANGED <<flight, down, repertoire>>

Next ==
    \/ TreeCommand \/ ItemCommand \/ LabelCommand \/ NoteCommand \/ RelationCommand
    \/ \E r \in Requests : Commit(r) \/ Jam(r)

Spec == Init /\ [][Next]_vars

----------------------------------------------------------------------------
(* Properties. *)

RowsOf(key) ==
    CASE key[1] = "work_item" -> ItemRow \cup {None}
      [] key[1] = "work_item_label" -> SUBSET Labels
      [] key[1] = "work_item_note" -> Documents \cup {None}
      [] key[1] = "event" -> EventRow \cup {None}
      [] key[1] = "project" -> ProjectRow \cup {None}
      [] key[1] = "label" -> LabelRow \cup {None}
      [] key[1] = "label_name" -> Labels \cup {None}
      [] key[1] = "relation" -> {"unresolved", "confirmed_not_required", None}
      [] key[1] = "tombstone" -> BOOLEAN

\* Every key has a row of its table, and what is in flight writes such rows.
TypeOK ==
    /\ DOMAIN db = Keys
    /\ \A k \in Keys : db[k] \in RowsOf(k)
    /\ DOMAIN flight = Requests
    /\ \A r \in Requests :
         /\ DOMAIN flight[r].rows \subseteq Keys
         /\ \A k \in DOMAIN flight[r].rows : flight[r].rows[k] \in RowsOf(k)
         /\ flight[r].lost \in BOOLEAN /\ flight[r].unseen \subseteq {"tree", "edges"}
    /\ blind \subseteq Items \cup Edges
    /\ down \in {"no", "jammed", "hung"}
    /\ repertoire \in Repertoires

ThreeLevels ==
    \A i, j, k \in Items \ blind : Up(i) = j /\ Up(j) = k => Up(k) = None

\* Three levels at most: the items that commands placed while they saw the
\* whole tree never hang three deep below another (which a cycle would), and
\* the compiler only loops on a cycle one of whose items was placed blindly.
TreesAreShallow == ThreeLevels /\ (down = "hung" => blind \cap Items # {})

CheckedEdges == {e \in Edges \ blind : Has(Relation(e)) /\ Blocking(e)}

\* The blocking edges that the detector saw all of never close a cycle among
\* themselves, whatever was pushed around it: no set of items in which each
\* waits for another of the set.
CheckedEdgesAcyclic ==
    ~\E S \in (SUBSET Items) \ {{}} :
        \A x \in S : \E e \in CheckedEdges : e[1] = x /\ e[2] \in S

NumbersAreUnique ==
    \A i, j \in Items :
        i # j /\ Has(Item(i)) /\ Has(Item(j)) /\ db[Item(i)].project = db[Item(j)].project
        => db[Item(i)].number # db[Item(j)].number

NamesAreUnique ==
    \A l, m \in Labels :
        l # m /\ Has(Label(l)) /\ Has(Label(m)) => db[Label(l)].name # db[Label(m)].name

\* No two items of a project show the same number and no two labels the same
\* name, though the numbers and names are chosen before the commit.
KeysAreUnique == NumbersAreUnique /\ NamesAreUnique

\* The structure the queries rely on: trees, dependencies and keys.
StructureHolds == TreesAreShallow /\ CheckedEdgesAcyclic /\ KeysAreUnique

\* What the devices are told last of an item is its row and its labels: the
\* labels of the event are read when the command is compiled.
EventsShowRows ==
    \A i \in Items : Has(Item(i)) =>
        db[Event(i)] = Told(db[Item(i)], db[Labelling(i)])

\* The fields of an item that a command is about.
Family(op) ==
    CASE op = "UpdateWorkItem" -> {"title"}
      [] op = "MoveWorkItem" -> {"parent"}
      [] op = "TransitionWorkItem" -> {"status", "pre"}
      [] op \in {"TrashWorkItem", "RestoreWorkItem"} -> {"archived"}
      [] OTHER -> {}

\* What a step keeps of the fields, the labels and the blocks that a command
\* is not about.
UndoesNothing(op) ==
    /\ \A i \in Items : Has(Item(i)) =>
         \A f \in Fields \ Family(op) : db'[Item(i)][f] = db[Item(i)][f]
    /\ \A i \in Items :
         LET now == db[Labelling(i)]
             then == db'[Labelling(i)] IN
         CASE op = "AddWorkItemLabels" -> now \subseteq then
           [] op = "RemoveWorkItemLabels" -> then \subseteq now
           [] OTHER -> then = now
    /\ \A i \in Items : Has(Note(i)) /\ op = "AppendBlocks" =>
         \A b \in DOMAIN db[Note(i)] : db'[Note(i)][b] = db[Note(i)][b]

\* A commit writes whole rows that were read when it was compiled: it never
\* takes back what another request changed in between.
NoEditIsUndone ==
    [][\A r \in Requests : ~Idle(r) /\ Idle(r)' => UndoesNothing(flight[r].op)]_vars

=============================================================================
