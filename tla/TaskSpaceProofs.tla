--------------------------- MODULE TaskSpaceProofs ---------------------------
(***************************************************************************)
(* Proofs about the commands of TaskSpace, for any requests, items,        *)
(* projects, labels, names, notes and relations and any repertoires of the *)
(* clients: the tables stay typed, the trees, the keys and the checked     *)
(* dependencies hold, events show the rows, and no commit undoes an edit   *)
(* it is not about.                                                        *)
(*                                                                         *)
(* A command is compiled from rows that others may write before it         *)
(* commits.  What it writes is right because it Stands: the row it         *)
(* replaces is, but for what the command is about, the row that there is,  *)
(* and the names, numbers and parents it chose are still free and found.   *)
(* So each command owes three things: it stands when it is compiled; it    *)
(* still stands when another has landed that wrote none of the rows it     *)
(* compares (FlyingOn); and when it lands the rows stay sound (Landing).   *)
(* What it read without writing, the tree and the dependencies, may have   *)
(* changed; then the item or the edge is blind, and nothing is promised.   *)
(*                                                                         *)
(* The commands of KnowledgeTree are compiled under the lease.  Their      *)
(* proof, at the end, is about what one of them writes: rows of the right  *)
(* kind, in places that exist, which close no cycle among the folders and  *)
(* leave nothing active where it is not seen, but for the loose things.    *)
(***************************************************************************)
EXTENDS TaskSpace, KnowledgeTree, FiniteSetTheorems, FunctionTheorems, TLAPS

\* The fields in which rows x and y agree.
Agree(x, y, fields) == \A f \in fields : x[f] = y[f]

\* Commands that edit an item, its labels and its note.
EditOps == {"UpdateWorkItem", "MoveWorkItem", "TransitionWorkItem",
            "TrashWorkItem", "RestoreWorkItem"}
LabelOps == {"AddWorkItemLabels", "RemoveWorkItemLabels", "PushLabels"}
NoteOps == {"ReplaceDocument", "AppendBlocks", "ToggleChecklistItem"}

Parents == Items \cup {None}
LabelSets == SUBSET Labels

\* Nobody, or an item that exists.
FoundParent(j) == j = None \/ Has(Item(j))

\* What a command in flight is still about, as long as nobody wrote its rows.
ProjectStands(f) ==
    /\ f.op = "CreateProject"
    /\ \E p \in Projects : ~Has(Project(p)) /\ f.rows = One(Project(p), [next |-> 1])

ItemStands(f) ==
    /\ f.op = "CreateWorkItem"
    /\ \E i \in Items, p \in Projects, j \in Parents, s \in Statuses :
          /\ Has(Project(p)) /\ ~Has(Item(i)) /\ FoundParent(j)
          /\ f.rows = CreateRows(i, p, j, s)
          /\ "tree" \notin f.unseen => Level(j) < 3

EditStands(f) ==
    /\ f.op \in EditOps
    /\ \E i \in Items, row \in ItemRow :
          /\ Has(Item(i)) /\ f.rows = Edited(i, row)
          /\ Agree(row, db[Item(i)], Fields \ Family(f.op))
          /\ FoundParent(row.parent)
          /\ f.op = "MoveWorkItem" /\ "tree" \notin f.unseen =>
                row.parent # i /\ FitsUnder(i, row.parent)

NameStands(f) ==
    \/ /\ f.op = "CreateLabel"
       /\ \E l \in Labels, n \in Names :
             /\ ~Has(Label(l)) /\ ~Has(Name(n))
             /\ f.rows = With(One(Name(n), l), Label(l), [name |-> n, archived |-> FALSE])
    \/ /\ f.op = "UpdateLabel"
       /\ \E l \in Labels, n \in Names : LET old == db[Label(l)].name IN
             /\ Has(Label(l)) /\ (Has(Name(n)) => n = old)
             /\ f.rows = With(With(One(Name(old), None), Name(n), l),
                              Label(l), [db[Label(l)] EXCEPT !.name = n])
    \/ /\ f.op = "ArchiveLabel"
       /\ \E l \in Labels :
             /\ Has(Label(l))
             /\ f.rows = One(Label(l), [db[Label(l)] EXCEPT !.archived = TRUE])

LabelsStand(f) ==
    /\ f.op \in LabelOps
    /\ \E i \in Items, labels \in LabelSets :
          /\ Has(Item(i)) /\ f.rows = LabelRows(i, labels)
          /\ f.op = "AddWorkItemLabels" => db[Labelling(i)] \subseteq labels
          /\ f.op = "RemoveWorkItemLabels" => labels \subseteq db[Labelling(i)]

NoteStands(f) ==
    /\ f.op \in NoteOps
    /\ \E i \in Items, doc \in Documents :
          /\ f.rows = One(Note(i), doc)
          /\ f.op = "AppendBlocks" /\ Has(Note(i)) =>
                \A x \in DOMAIN db[Note(i)] : doc[x] = db[Note(i)][x]

RelationStands(f) ==
    \/ /\ f.op = "CreateRelation"
       /\ \E e \in Edges :
             /\ ~Has(Relation(e)) /\ f.rows = One(Relation(e), "unresolved")
             /\ "edges" \notin f.unseen => ~ClosesCycle(e)
    \/ /\ f.op = "ResolveDependency"
       /\ \E e \in Edges :
             Has(Relation(e)) /\ f.rows = One(Relation(e), "confirmed_not_required")
    \/ /\ f.op = "RemoveRelation"
       /\ \E e \in Edges :
             f.rows = With(One(Relation(e), None), Tombstone(e), TRUE)

Stands(f) == \/ ProjectStands(f) \/ ItemStands(f) \/ EditStands(f) \/ NameStands(f)
             \/ LabelsStand(f) \/ NoteStands(f) \/ RelationStands(f)

\* Numbers come from the counter of the project, which stays ahead of them.
Counted ==
    \A i \in Items : Has(Item(i)) =>
        LET row == db[Item(i)] IN
        Has(Project(row.project)) /\ row.number < db[Project(row.project)].next

\* The index has the names of the labels and no others.
Indexed ==
    \A l \in Labels, n \in Names :
        db[Name(n)] = l <=> Has(Label(l)) /\ db[Label(l)].name = n

\* Parents exist.
Parented == \A i \in Items : FoundParent(Up(i))

TreeSound == Counted /\ Parented /\ NumbersAreUnique /\ ThreeLevels
NamesSound == Indexed /\ NamesAreUnique

\* Only items have labels.
LabelledExist == \A i \in Items : ~Has(Item(i)) => db[Labelling(i)] = {}

EventsSound == EventsShowRows /\ LabelledExist

\* The rows are sound, whatever is in flight.
Sound ==
    /\ TreeSound /\ NamesSound /\ CheckedEdgesAcyclic /\ EventsSound
    /\ down = "hung" => blind \cap Items # {}

\* A command in flight writes rows of their tables.  A push is never in flight.
Flies(g) ==
    /\ DOMAIN g = {"op", "rows", "lost", "unseen"}
    /\ DOMAIN g.rows \subseteq Keys /\ \A k \in DOMAIN g.rows : g.rows[k] \in RowsOf(k)
    /\ g.lost \in BOOLEAN /\ g.unseen \subseteq {"tree", "edges"}
    /\ g.op # "PushLabels"

\* A command in flight that lost none of its rows is still about what it read.
SpaceInv ==
    /\ TypeOK /\ Sound
    /\ \A r \in Requests :
         Flies(flight[r]) /\ (~Idle(r) /\ ~flight[r].lost => Stands(flight[r]))

----------------------------------------------------------------------------
(* Keys, and the rows that commands write *)

\* Keys of different tables differ, and so do those of different entities.
LEMMA ItemKeys ==
    ASSUME NEW i
    PROVE  /\ Item(i)[1] = "work_item" /\ Item(i)[2] = i
           /\ Labelling(i)[1] = "work_item_label" /\ Labelling(i)[2] = i
           /\ Note(i)[1] = "work_item_note" /\ Note(i)[2] = i
           /\ Event(i)[1] = "event" /\ Event(i)[2] = i
           /\ i \in Items => {Item(i), Labelling(i), Note(i), Event(i)} \subseteq Keys
  BY DEF Item, Labelling, Note, Event, Keys

\* The keys of the other tables.
LEMMA OtherKeys ==
    ASSUME NEW x
    PROVE  /\ Project(x)[1] = "project" /\ Project(x)[2] = x
           /\ Label(x)[1] = "label" /\ Label(x)[2] = x
           /\ Name(x)[1] = "label_name" /\ Name(x)[2] = x
           /\ Relation(x)[1] = "relation" /\ Relation(x)[2] = x
           /\ Tombstone(x)[1] = "tombstone" /\ Tombstone(x)[2] = x
           /\ x \in Projects => Project(x) \in Keys
           /\ x \in Labels => Label(x) \in Keys
           /\ x \in Names => Name(x) \in Keys
           /\ x \in Edges => {Relation(x), Tombstone(x)} \subseteq Keys
  BY DEF Project, Label, Name, Relation, Tombstone, Keys

\* Each key has the rows of its table.
LEMMA Tables ==
    /\ \A i \in Items : /\ RowsOf(Item(i)) = ItemRow \cup {None}
                        /\ RowsOf(Labelling(i)) = SUBSET Labels
                        /\ RowsOf(Note(i)) = Documents \cup {None}
                        /\ RowsOf(Event(i)) = EventRow \cup {None}
    /\ \A p \in Projects : RowsOf(Project(p)) = ProjectRow \cup {None}
    /\ \A l \in Labels : RowsOf(Label(l)) = LabelRow \cup {None}
    /\ \A n \in Names : RowsOf(Name(n)) = Labels \cup {None}
    /\ \A e \in Edges : /\ RowsOf(Relation(e)) = {"unresolved", "confirmed_not_required", None}
                        /\ RowsOf(Tombstone(e)) = BOOLEAN
  BY ItemKeys, OtherKeys DEF RowsOf

\* One more row.
LEMMA WithDomain ==
    ASSUME NEW rows, NEW key, NEW row
    PROVE  DOMAIN With(rows, key, row) = DOMAIN rows \cup {key}
  BY DEF With

\* The row that is added is there ...
LEMMA WithNew ==
    ASSUME NEW rows, NEW key, NEW row
    PROVE  With(rows, key, row)[key] = row
  BY DEF With

\* ... and the rows that were there before still are.
LEMMA WithOld ==
    ASSUME NEW rows, NEW key, NEW row, NEW k \in DOMAIN rows \ {key}
    PROVE  With(rows, key, row)[k] = rows[k]
  BY DEF With

\* The rows of an item,
LEMMA ItemRowsAre ==
    ASSUME NEW i, NEW row, NEW labels
    PROVE  /\ DOMAIN ItemRows(i, row, labels) = {Item(i), Event(i)}
           /\ ItemRows(i, row, labels)[Item(i)] = row
           /\ ItemRows(i, row, labels)[Event(i)] = Told(row, labels)
<1>1. Item(i) # Event(i)
  BY ItemKeys
<1> QED
  BY <1>1 DEF ItemRows, With, One

\* of one that is created,
LEMMA CreateRowsDomain ==
    ASSUME NEW i, NEW p, NEW j, NEW s
    PROVE  DOMAIN CreateRows(i, p, j, s) = {Item(i), Event(i), Project(p)}
<1>1. DOMAIN ItemRows(i, NewRow(p, j, s), {}) = {Item(i), Event(i)}
  BY ItemRowsAre
<1>2. DOMAIN CreateRows(i, p, j, s) = {Item(i), Event(i)} \cup {Project(p)}
  BY <1>1, WithDomain DEF CreateRows
<1> QED
  BY <1>2

\* The row of a new item is among what its creation writes ...
LEMMA CreatedRow ==
    ASSUME NEW i, NEW p, NEW j, NEW s
    PROVE  CreateRows(i, p, j, s)[Item(i)] = NewRow(p, j, s)
<1>1. Item(i) # Project(p)
  BY ItemKeys, OtherKeys
<1>2. /\ DOMAIN ItemRows(i, NewRow(p, j, s), {}) = {Item(i), Event(i)}
      /\ ItemRows(i, NewRow(p, j, s), {})[Item(i)] = NewRow(p, j, s)
  BY ItemRowsAre
<1> QED
  BY <1>1, <1>2, WithOld DEF CreateRows

\* ... and so is the event that tells it, with no labels.
LEMMA CreatedEvent ==
    ASSUME NEW i, NEW p, NEW j, NEW s
    PROVE  CreateRows(i, p, j, s)[Event(i)] = Told(NewRow(p, j, s), {})
<1>1. Event(i) # Project(p)
  BY ItemKeys, OtherKeys
<1>2. /\ DOMAIN ItemRows(i, NewRow(p, j, s), {}) = {Item(i), Event(i)}
      /\ ItemRows(i, NewRow(p, j, s), {})[Item(i)] = NewRow(p, j, s)
      /\ ItemRows(i, NewRow(p, j, s), {})[Event(i)] = Told(NewRow(p, j, s), {})
  BY ItemRowsAre
<1> QED
  BY <1>1, <1>2, WithOld DEF CreateRows

\* and of one with its labels.
LEMMA LabelRowsAre ==
    ASSUME NEW i, NEW labels
    PROVE  /\ DOMAIN LabelRows(i, labels) = {Item(i), Event(i), Labelling(i)}
           /\ LabelRows(i, labels)[Item(i)] = db[Item(i)]
           /\ LabelRows(i, labels)[Event(i)] = Told(db[Item(i)], labels)
           /\ LabelRows(i, labels)[Labelling(i)] = labels
<1>1. Item(i) # Labelling(i) /\ Event(i) # Labelling(i)
  BY ItemKeys
<1>2. /\ DOMAIN ItemRows(i, db[Item(i)], labels) = {Item(i), Event(i)}
      /\ ItemRows(i, db[Item(i)], labels)[Item(i)] = db[Item(i)]
      /\ ItemRows(i, db[Item(i)], labels)[Event(i)] = Told(db[Item(i)], labels)
  BY ItemRowsAre
<1>3. DOMAIN LabelRows(i, labels) = {Item(i), Event(i)} \cup {Labelling(i)}
  BY <1>2, WithDomain DEF LabelRows
<1>4. DOMAIN LabelRows(i, labels) = {Item(i), Event(i), Labelling(i)}
  BY <1>3
<1> QED
  BY <1>1, <1>2, <1>4, WithNew, WithOld DEF LabelRows

\* One row, and two.
LEMMA OneIs ==
    ASSUME NEW key, NEW row
    PROVE  DOMAIN One(key, row) = {key} /\ One(key, row)[key] = row
  BY DEF One

\* The first of two rows.
LEMMA TwoFirst ==
    ASSUME NEW k, NEW x, NEW m, NEW y, k # m
    PROVE  With(One(k, x), m, y)[k] = x
  BY DEF One, With

\* The first of three rows.
LEMMA RenamedFirst ==
    ASSUME NEW k, NEW x, NEW m, NEW y, NEW o, NEW z, k # m, k # o
    PROVE  With(With(One(k, x), m, y), o, z)[k] = x
  BY DEF One, With

\* The second of three rows.
LEMMA RenamedSecond ==
    ASSUME NEW k, NEW x, NEW m, NEW y, NEW o, NEW z, m # o
    PROVE  With(With(One(k, x), m, y), o, z)[m] = y
  BY DEF One, With

----------------------------------------------------------------------------
(* Typing *)

\* Rows of their tables: all that there are, and some that are written.
Tabled == DOMAIN db = Keys /\ \A k \in Keys : db[k] \in RowsOf(k)

InTables(rows) ==
    DOMAIN rows \subseteq Keys /\ \A k \in DOMAIN rows : rows[k] \in RowsOf(k)

\* What the tables hold is typed.
LEMMA ItemIsTyped ==
    ASSUME Tabled, NEW i \in Items
    PROVE  /\ db[Item(i)] \in ItemRow \cup {None}
           /\ db[Labelling(i)] \in LabelSets
           /\ db[Note(i)] \in Documents \cup {None}
           /\ db[Event(i)] \in EventRow \cup {None}
  BY ItemKeys, Tables DEF Tabled, LabelSets

\* An item that exists has a row of the table.
LEMMA RowIsTyped ==
    ASSUME Tabled, NEW i \in Items, Has(Item(i))
    PROVE  db[Item(i)] \in ItemRow
  BY ItemIsTyped DEF Has

\* A project that exists has a counter.
LEMMA ProjectIsTyped ==
    ASSUME Tabled, NEW p \in Projects, Has(Project(p))
    PROVE  db[Project(p)].next \in Nat \ {0}
<1>1. db[Project(p)] \in ProjectRow
  BY OtherKeys, Tables DEF Tabled, Has
<1> QED
  BY <1>1 DEF ProjectRow

\* A label that exists has a row of the table.
LEMMA LabelIsTyped ==
    ASSUME Tabled, NEW l \in Labels, Has(Label(l))
    PROVE  db[Label(l)] \in LabelRow
  BY OtherKeys, Tables DEF Tabled, Has

\* The parent of an item is an item or nobody.
LEMMA ParentIsTyped ==
    ASSUME Tabled, NEW i
    PROVE  i \in Items => Up(i) \in Parents
<1> SUFFICES ASSUME i \in Items, Has(Item(i)) PROVE db[Item(i)].parent \in Parents
  BY DEF Up, Parents
<1> QED
  BY RowIsTyped DEF ItemRow, Parents

\* A new row.
LEMMA NewRowIsTyped ==
    ASSUME Tabled, NEW p \in Projects, Has(Project(p)), NEW j \in Parents, NEW s \in Statuses
    PROVE  NewRow(p, j, s) \in ItemRow
<1>1. db[Project(p)].next \in Nat \ {0}
  BY ProjectIsTyped
<1>2. (CHOOSE t \in Titles : TRUE) \in Titles
  BY TableAssumption
<1> QED
  BY <1>1, <1>2 DEF NewRow, ItemRow, Parents

\* The rows of an item are rows of their tables.
LEMMA ItemRowsTyped ==
    ASSUME NEW i \in Items, NEW row \in ItemRow, NEW labels \in LabelSets
    PROVE  InTables(ItemRows(i, row, labels))
<1>1. /\ DOMAIN ItemRows(i, row, labels) = {Item(i), Event(i)}
      /\ ItemRows(i, row, labels)[Item(i)] = row
      /\ ItemRows(i, row, labels)[Event(i)] = Told(row, labels)
  BY ItemRowsAre
<1>2. Item(i) \in Keys /\ Event(i) \in Keys
  BY ItemKeys
<1>3. row \in RowsOf(Item(i))
  BY Tables
<1>4. Told(row, labels) \in RowsOf(Event(i))
  BY Tables DEF EventRow, Told, LabelSets
<1> QED
  BY <1>1, <1>2, <1>3, <1>4 DEF InTables

\* One row of its table is a set of rows of their tables ...
LEMMA OneTyped ==
    ASSUME NEW k \in Keys, NEW x \in RowsOf(k)
    PROVE  InTables(One(k, x))
<1>1. DOMAIN One(k, x) = {k} /\ One(k, x)[k] = x
  BY OneIs
<1> QED
  BY <1>1 DEF InTables

\* ... to which another may be added.
LEMMA WithTyped ==
    ASSUME NEW rows, InTables(rows), NEW k \in Keys, NEW x \in RowsOf(k)
    PROVE  InTables(With(rows, k, x))
<1>1. DOMAIN With(rows, k, x) = DOMAIN rows \cup {k}
  BY WithDomain
<1>2. With(rows, k, x)[k] = x
  BY WithNew
<1>3. \A m \in DOMAIN rows \ {k} : With(rows, k, x)[m] = rows[m]
  BY WithOld
<1> QED
  BY <1>1, <1>2, <1>3 DEF InTables

----------------------------------------------------------------------------
(* What a command in flight writes is typed. *)

\* The row of a new project.
LEMMA ProjectTyped ==
    ASSUME NEW p \in Projects
    PROVE  InTables(One(Project(p), [next |-> 1]))
<1>1. Project(p) \in Keys
  BY OtherKeys
<1>2. [next |-> 1] \in RowsOf(Project(p))
  BY Tables DEF ProjectRow
<1> QED
  BY <1>1, <1>2, OneTyped

\* What the creation of an item writes: its row, its event, the counter.
LEMMA CreationTyped ==
    ASSUME Tabled, NEW i \in Items, NEW p \in Projects, NEW j \in Parents, NEW s \in Statuses,
           Has(Project(p))
    PROVE  InTables(CreateRows(i, p, j, s))
<1>1. NewRow(p, j, s) \in ItemRow
  BY NewRowIsTyped
<1>2. {} \in LabelSets
  BY DEF LabelSets
<1>3. InTables(ItemRows(i, NewRow(p, j, s), {}))
  BY <1>1, <1>2, ItemRowsTyped
<1>4. Project(p) \in Keys
  BY OtherKeys
<1>5. db[Project(p)].next \in Nat \ {0}
  BY ProjectIsTyped
<1>6. [next |-> db[Project(p)].next + 1] \in RowsOf(Project(p))
  BY <1>5, Tables DEF ProjectRow
<1> QED
  BY <1>3, <1>4, <1>6, WithTyped DEF CreateRows

\* What an edit of an item writes: its row and its event.
LEMMA EditTyped ==
    ASSUME Tabled, NEW i \in Items, NEW row \in ItemRow
    PROVE  InTables(Edited(i, row))
  BY ItemIsTyped, ItemRowsTyped DEF Edited

\* What a change of an item's labels writes.
LEMMA LabelRowsTyped ==
    ASSUME Tabled, NEW i \in Items, Has(Item(i)), NEW labels \in LabelSets
    PROVE  InTables(LabelRows(i, labels))
<1>1. InTables(ItemRows(i, db[Item(i)], labels))
  BY RowIsTyped, ItemRowsTyped
<1>2. Labelling(i) \in Keys /\ labels \in RowsOf(Labelling(i))
  BY ItemKeys, Tables DEF LabelSets
<1> QED
  BY <1>1, <1>2, WithTyped DEF LabelRows

\* An entry of the index of label names.
LEMMA NameTyped ==
    ASSUME NEW n \in Names, NEW x \in Labels \cup {None}
    PROVE  InTables(One(Name(n), x))
<1>1. Name(n) \in Keys /\ x \in RowsOf(Name(n))
  BY OtherKeys, Tables
<1> QED
  BY <1>1, OneTyped

\* An index entry with the row of its label.
LEMMA WithLabelTyped ==
    ASSUME NEW rows, InTables(rows), NEW l \in Labels, NEW row \in LabelRow
    PROVE  InTables(With(rows, Label(l), row))
<1>1. Label(l) \in Keys /\ row \in RowsOf(Label(l))
  BY OtherKeys, Tables
<1> QED
  BY <1>1, WithTyped

\* What the commands on labels write.
LEMMA NamesTyped ==
    ASSUME Tabled, NEW f, NameStands(f)
    PROVE  InTables(f.rows)
<1>1. CASE f.op = "CreateLabel"
  <2>1. PICK l \in Labels, n \in Names :
           f.rows = With(One(Name(n), l), Label(l), [name |-> n, archived |-> FALSE])
    BY <1>1 DEF NameStands
  <2>2. InTables(One(Name(n), l))
    BY NameTyped
  <2>3. [name |-> n, archived |-> FALSE] \in LabelRow
    BY DEF LabelRow
  <2> QED
    BY <2>1, <2>2, <2>3, WithLabelTyped
<1>2. CASE f.op = "UpdateLabel"
  <2>1. PICK l \in Labels, n \in Names :
           /\ Has(Label(l))
           /\ f.rows = With(With(One(Name(db[Label(l)].name), None), Name(n), l),
                            Label(l), [db[Label(l)] EXCEPT !.name = n])
    BY <1>2 DEF NameStands
  <2>2. db[Label(l)] \in LabelRow
    BY <2>1, LabelIsTyped
  <2>3. db[Label(l)].name \in Names
    BY <2>2 DEF LabelRow
  <2>4. [db[Label(l)] EXCEPT !.name = n] \in LabelRow
    BY <2>2 DEF LabelRow
  <2>5. InTables(One(Name(db[Label(l)].name), None))
    BY <2>3, NameTyped
  <2>6. Name(n) \in Keys /\ l \in RowsOf(Name(n))
    BY OtherKeys, Tables
  <2>7. InTables(With(One(Name(db[Label(l)].name), None), Name(n), l))
    BY <2>5, <2>6, WithTyped
  <2> QED
    BY <2>1, <2>4, <2>7, WithLabelTyped
<1>3. CASE f.op = "ArchiveLabel"
  <2>1. PICK l \in Labels :
           /\ Has(Label(l))
           /\ f.rows = One(Label(l), [db[Label(l)] EXCEPT !.archived = TRUE])
    BY <1>3 DEF NameStands
  <2>2. db[Label(l)] \in LabelRow
    BY <2>1, LabelIsTyped
  <2>3. [db[Label(l)] EXCEPT !.archived = TRUE] \in LabelRow
    BY <2>2 DEF LabelRow
  <2>4. Label(l) \in Keys /\ [db[Label(l)] EXCEPT !.archived = TRUE] \in RowsOf(Label(l))
    BY <2>3, OtherKeys, Tables
  <2> QED
    BY <2>1, <2>4, OneTyped
<1> QED
  BY <1>1, <1>2, <1>3 DEF NameStands

\* What the commands on notes write.
LEMMA NoteTyped ==
    ASSUME NEW i \in Items, NEW doc \in Documents
    PROVE  InTables(One(Note(i), doc))
<1>1. Note(i) \in Keys /\ doc \in RowsOf(Note(i))
  BY ItemKeys, Tables
<1> QED
  BY <1>1, OneTyped

\* A relation, or that there is none.
LEMMA RelationTyped ==
    ASSUME NEW e \in Edges, NEW x \in {"unresolved", "confirmed_not_required", None}
    PROVE  InTables(One(Relation(e), x))
<1>1. Relation(e) \in Keys /\ x \in RowsOf(Relation(e))
  BY OtherKeys, Tables
<1> QED
  BY <1>1, OneTyped

\* The removal of a relation, with its tombstone.
LEMMA RemovalTyped ==
    ASSUME NEW e \in Edges
    PROVE  InTables(With(One(Relation(e), None), Tombstone(e), TRUE))
<1>1. InTables(One(Relation(e), None))
  BY RelationTyped
<1>2. Tombstone(e) \in Keys /\ TRUE \in RowsOf(Tombstone(e))
  BY OtherKeys, Tables
<1> QED
  BY <1>1, <1>2, WithTyped

\* A command that is still about its rows writes rows of their tables.
LEMMA StandingIsTyped ==
    ASSUME Tabled, NEW f, Stands(f)
    PROVE  InTables(f.rows)
<1>1. CASE ProjectStands(f)
  BY <1>1, ProjectTyped DEF ProjectStands
<1>2. CASE ItemStands(f)
  BY <1>2, CreationTyped DEF ItemStands
<1>3. CASE EditStands(f)
  BY <1>3, EditTyped DEF EditStands
<1>4. CASE NameStands(f)
  BY <1>4, NamesTyped
<1>5. CASE LabelsStand(f)
  BY <1>5, LabelRowsTyped DEF LabelsStand
<1>6. CASE NoteStands(f)
  BY <1>6, NoteTyped DEF NoteStands
<1>7. CASE RelationStands(f)
  BY <1>7, RelationTyped, RemovalTyped DEF RelationStands
<1> QED
  BY <1>1, <1>2, <1>3, <1>4, <1>5, <1>6, <1>7 DEF Stands

----------------------------------------------------------------------------
(* What a step leaves alone *)

Only(S) == \A k \in Keys \ S : db'[k] = db[k]

TreeKept == \A x \in Items : db'[Item(x)] = db[Item(x)]
LabellingsKept == \A x \in Items : db'[Labelling(x)] = db[Labelling(x)]
NotesKept == \A x \in Items : db'[Note(x)] = db[Note(x)]
EventsKept == \A x \in Items : db'[Event(x)] = db[Event(x)]
ProjectsKept == \A p \in Projects : Has(Project(p)) => db'[Project(p)] = db[Project(p)]
NamesKept ==
    /\ \A l \in Labels : db'[Label(l)] = db[Label(l)]
    /\ \A n \in Names : db'[Name(n)] = db[Name(n)]
EdgesKept == \A e \in Edges : db'[Relation(e)] = db[Relation(e)]

\* A table none of whose keys is written is kept.
LEMMA TreeFrame ==
    ASSUME NEW S, Only(S), \A k \in S : k[1] # "work_item"
    PROVE  TreeKept
  BY ItemKeys DEF Only, TreeKept

\* Nor do labellings change,
LEMMA LabellingsFrame ==
    ASSUME NEW S, Only(S), \A k \in S : k[1] # "work_item_label"
    PROVE  LabellingsKept
  BY ItemKeys DEF Only, LabellingsKept

\* nor notes,
LEMMA NotesFrame ==
    ASSUME NEW S, Only(S), \A k \in S : k[1] # "work_item_note"
    PROVE  NotesKept
  BY ItemKeys DEF Only, NotesKept

\* nor events,
LEMMA EventsFrame ==
    ASSUME NEW S, Only(S), \A k \in S : k[1] # "event"
    PROVE  EventsKept
  BY ItemKeys DEF Only, EventsKept

\* nor the counters of the projects,
LEMMA ProjectsFrame ==
    ASSUME NEW S, Only(S), \A k \in S : k[1] # "project"
    PROVE  ProjectsKept
  BY OtherKeys DEF Only, ProjectsKept

\* nor labels and their index,
LEMMA NamesFrame ==
    ASSUME NEW S, Only(S), \A k \in S : k[1] # "label" /\ k[1] # "label_name"
    PROVE  NamesKept
  BY OtherKeys DEF Only, NamesKept

\* nor relations.
LEMMA EdgesFrame ==
    ASSUME NEW S, Only(S), \A k \in S : k[1] # "relation"
    PROVE  EdgesKept
  BY OtherKeys DEF Only, EdgesKept

\* What rests on a table that is kept stays so.
LEMMA UpKept ==
    ASSUME TreeKept, NEW x, x \in Parents
    PROVE  Up(x)' = Up(x)
  BY DEF TreeKept, Up, Has, Parents

\* The trees are as they were when no item and no counter changed.
LEMMA TreeStays ==
    ASSUME TreeSound, Tabled, TreeKept, ProjectsKept, Items \ blind' \subseteq Items \ blind
    PROVE  TreeSound'
<1>1. \A x \in Items : Up(x)' = Up(x) /\ (Has(Item(x)) <=> Has(Item(x))')
  BY UpKept DEF Parents, TreeKept, Has
<1>2. Counted'
  <2> SUFFICES ASSUME NEW i \in Items, Has(Item(i))'
               PROVE  /\ Has(Project(db[Item(i)].project))'
                      /\ db'[Item(i)].number < db'[Project(db'[Item(i)].project)].next
    BY DEF Counted
  <2>1. Has(Item(i)) /\ db'[Item(i)] = db[Item(i)]
    BY <1>1 DEF TreeKept
  <2>2. db[Item(i)].project \in Projects
    BY <2>1, RowIsTyped DEF ItemRow
  <2>3. /\ Has(Project(db[Item(i)].project))
        /\ db[Item(i)].number < db[Project(db[Item(i)].project)].next
    BY <2>1 DEF TreeSound, Counted
  <2>4. db'[Project(db[Item(i)].project)] = db[Project(db[Item(i)].project)]
    BY <2>2, <2>3 DEF ProjectsKept
  <2> QED
    BY <2>1, <2>3, <2>4 DEF Has
<1>3. Parented'
  <2> SUFFICES ASSUME NEW i \in Items PROVE FoundParent(Up(i))'
    BY DEF Parented
  <2>1. Up(i) \in Parents /\ Up(i)' = Up(i) /\ FoundParent(Up(i))
    BY <1>1, ParentIsTyped DEF TreeSound, Parented
  <2> QED
    BY <1>1, <2>1 DEF FoundParent, Parents
<1>4. NumbersAreUnique'
  BY <1>1 DEF TreeSound, NumbersAreUnique, TreeKept
<1>5. ThreeLevels'
  BY <1>1 DEF TreeSound, ThreeLevels
<1> QED
  BY <1>2, <1>3, <1>4, <1>5 DEF TreeSound

\* The index and the labels agree when neither changed.
LEMMA NamesStay ==
    ASSUME NamesSound, NamesKept
    PROVE  NamesSound'
<1>1. Indexed'
  BY DEF NamesSound, Indexed, NamesKept, Has
<1>2. NamesAreUnique'
  BY DEF NamesSound, NamesAreUnique, NamesKept, Has
<1> QED
  BY <1>1, <1>2 DEF NamesSound

\* Fewer checked links close no cycle.
LEMMA EdgesStay ==
    ASSUME CheckedEdgesAcyclic, CheckedEdges' \subseteq CheckedEdges
    PROVE  CheckedEdgesAcyclic'
  BY DEF CheckedEdgesAcyclic

\* No link becomes a checked one while the relations are kept,
LEMMA CheckedKept ==
    ASSUME EdgesKept, Edges \ blind' \subseteq Edges \ blind
    PROVE  CheckedEdges' \subseteq CheckedEdges
  BY DEF CheckedEdges, EdgesKept, Has, Blocking, BlockingTypes

\* and no blocking link is added.
LEMMA LinksKept ==
    ASSUME EdgesKept
    PROVE  BlockingLinks' \subseteq BlockingLinks
  BY DEF BlockingLinks, EdgesKept, Has, Blocking, BlockingTypes

\* Events show their rows when events, items and labellings did not change.
LEMMA EventsStay ==
    ASSUME EventsSound, TreeKept, LabellingsKept, EventsKept
    PROVE  EventsSound'
<1>1. EventsShowRows'
  BY DEF EventsSound, EventsShowRows, TreeKept, LabellingsKept, EventsKept, Has, Told
<1>2. LabelledExist'
  BY DEF EventsSound, LabelledExist, TreeKept, LabellingsKept, Has
<1> QED
  BY <1>1, <1>2 DEF EventsSound

----------------------------------------------------------------------------
(* What a command does when it lands *)

\* f's rows are written, and f commits.
Writes(f) == DOMAIN db' = Keys /\ \A k \in Keys : db'[k] = Written(f.rows)[k]

Lands(f) ==
    /\ Writes(f)
    /\ blind' = IF Unseen(f) THEN blind \cup Subjects(f.op, f.rows)
                             ELSE blind \ Subjects(f.op, f.rows)

\* What the rows stay, and what the others in flight count on.
StructureStays == TreeSound' /\ NamesSound' /\ CheckedEdgesAcyclic' /\ EventsSound'

Considerate(f) ==
    /\ \A i \in Items : Labelling(i) \in DOMAIN f.rows => Item(i) \in DOMAIN f.rows
    /\ \A i \in Items : Has(Item(i)) => Has(Item(i))'
    /\ Places(f.op) = {} => \A i \in Items : Up(i)' = Up(i)
    /\ Draws(f.op) = {} => BlockingLinks' \subseteq BlockingLinks

Good == Tabled /\ TreeSound /\ NamesSound /\ CheckedEdgesAcyclic /\ EventsSound

\* A command changes the rows it writes only ...
LEMMA WritesOnly ==
    ASSUME NEW f, Writes(f)
    PROVE  Only(DOMAIN f.rows)
  BY DEF Writes, Only, Written

\* ... when it commits, too, ...
LEMMA LandsOnly ==
    ASSUME NEW f, Lands(f)
    PROVE  Only(DOMAIN f.rows)
  BY WritesOnly DEF Lands

\* ... and those it changes as it says.
LEMMA LandsThere ==
    ASSUME NEW f, Lands(f), NEW k \in Keys, k \in DOMAIN f.rows
    PROVE  db'[k] = f.rows[k]
  BY DEF Lands, Writes, Written

\* Nothing is undone where nothing changes.
LEMMA NothingUndone ==
    ASSUME TreeKept, LabellingsKept, NotesKept, NEW op
    PROVE  UndoesNothing(op)
  BY DEF TreeKept, LabellingsKept, NotesKept, UndoesNothing

\* Items stay where they are while their rows are kept.
LEMMA TreeUnmoved ==
    ASSUME TreeKept, NEW i \in Items
    PROVE  (Has(Item(i)) => Has(Item(i))') /\ Up(i)' = Up(i)
  BY UpKept DEF TreeKept, Has, Parents

\* A command that writes neither items nor edges.
LEMMA Aside ==
    ASSUME NEW f, Good, Lands(f), Subjects(f.op, f.rows) = {},
           \A k \in DOMAIN f.rows :
               k[1] \notin {"work_item", "work_item_label", "event", "relation"},
           ProjectsKept
    PROVE  /\ TreeSound' /\ CheckedEdgesAcyclic' /\ EventsSound'
           /\ Considerate(f)
           /\ TreeKept /\ LabellingsKept
<1>1. Only(DOMAIN f.rows)
  BY LandsOnly
<1>2. TreeKept /\ LabellingsKept /\ EventsKept /\ EdgesKept
  BY <1>1, TreeFrame, LabellingsFrame, EventsFrame, EdgesFrame
<1>3. blind' = blind
  BY DEF Lands
<1>4. TreeSound'
  BY <1>2, <1>3, TreeStays DEF Good
<1>5. CheckedEdgesAcyclic'
  BY <1>2, <1>3, CheckedKept, EdgesStay DEF Good
<1>6. EventsSound'
  BY <1>2, EventsStay DEF Good
<1>7. Considerate(f)
  <2>1. \A i \in Items : Labelling(i) \notin DOMAIN f.rows
    BY ItemKeys
  <2>2. BlockingLinks' \subseteq BlockingLinks
    BY <1>2, LinksKept
  <2> QED
    BY <1>2, <2>1, <2>2, TreeUnmoved DEF Considerate
<1> QED
  BY <1>2, <1>4, <1>5, <1>6, <1>7

\* A new project keeps the structure and undoes no edit.
LEMMA ProjectLands ==
    ASSUME NEW f, Good, ProjectStands(f), Lands(f)
    PROVE  StructureStays /\ Considerate(f) /\ UndoesNothing(f.op)
<1>1. PICK p \in Projects : ~Has(Project(p)) /\ f.rows = One(Project(p), [next |-> 1])
  BY DEF ProjectStands
<1>2. DOMAIN f.rows = {Project(p)}
  BY <1>1, OneIs
<1>3. f.op = "CreateProject" /\ Subjects(f.op, f.rows) = {}
  BY DEF ProjectStands, Subjects
<1>4. Only(DOMAIN f.rows)
  BY LandsOnly
<1>5. ProjectsKept
  BY <1>1, <1>2, <1>4, OtherKeys DEF ProjectsKept, Only
<1>6. \A k \in DOMAIN f.rows : k[1] = "project"
  BY <1>2, OtherKeys
<1>7. /\ TreeSound' /\ CheckedEdgesAcyclic' /\ EventsSound'
      /\ Considerate(f)
      /\ TreeKept /\ LabellingsKept
  BY <1>3, <1>5, <1>6, Aside
<1>8. NamesSound' /\ NotesKept
  BY <1>4, <1>6, NamesFrame, NotesFrame, NamesStay DEF Good
<1> QED
  BY <1>7, <1>8, NothingUndone DEF StructureStays

\* A write of a note keeps the structure; appended blocks keep the others.
LEMMA NoteLands ==
    ASSUME NEW f, Good, NoteStands(f), Lands(f)
    PROVE  StructureStays /\ Considerate(f) /\ UndoesNothing(f.op)
<1>1. PICK i \in Items, doc \in Documents :
         /\ f.rows = One(Note(i), doc)
         /\ f.op = "AppendBlocks" /\ Has(Note(i)) =>
               \A x \in DOMAIN db[Note(i)] : doc[x] = db[Note(i)][x]
  BY DEF NoteStands
<1>2. DOMAIN f.rows = {Note(i)} /\ f.rows[Note(i)] = doc
  BY <1>1, OneIs
<1>3. f.op \in NoteOps /\ Subjects(f.op, f.rows) = {}
  BY DEF NoteStands, NoteOps, Subjects
<1>4. Only(DOMAIN f.rows)
  BY LandsOnly
<1>5. \A k \in DOMAIN f.rows : k[1] = "work_item_note"
  BY <1>2, ItemKeys
<1>6. ProjectsKept
  BY <1>4, <1>5, ProjectsFrame
<1>7. /\ TreeSound' /\ CheckedEdgesAcyclic' /\ EventsSound'
      /\ Considerate(f)
      /\ TreeKept /\ LabellingsKept
  BY <1>3, <1>5, <1>6, Aside
<1>8. NamesSound'
  BY <1>4, <1>5, NamesFrame, NamesStay DEF Good
<1>9. UndoesNothing(f.op)
  <2>1. db'[Note(i)] = doc
    BY <1>2, ItemKeys, LandsThere
  <2>2. \A x \in Items \ {i} : db'[Note(x)] = db[Note(x)]
    BY <1>2, <1>4, ItemKeys DEF Only
  <2>3. ASSUME NEW x \in Items, Has(Note(x)), f.op = "AppendBlocks"
        PROVE  \A b \in DOMAIN db[Note(x)] : db'[Note(x)][b] = db[Note(x)][b]
    BY <1>1, <2>1, <2>2, <2>3
  <2>4. ASSUME NEW x \in Items
        PROVE  db'[Item(x)] = db[Item(x)] /\ db'[Labelling(x)] = db[Labelling(x)]
    BY <1>7 DEF TreeKept, LabellingsKept
  <2> QED
    BY <2>3, <2>4 DEF UndoesNothing
<1> QED
  BY <1>7, <1>8, <1>9 DEF StructureStays

\* The tables stay typed.
LEMMA WritingIsTyped ==
    ASSUME Tabled, NEW f, InTables(f.rows), Writes(f)
    PROVE  Tabled'
<1>1. \A k \in Keys : db'[k] = IF k \in DOMAIN f.rows THEN f.rows[k] ELSE db[k]
  BY DEF Writes, Written
<1>2. DOMAIN db' = Keys
  BY DEF Writes
<1>3. \A k \in Keys : db'[k] \in RowsOf(k)
  BY <1>1 DEF Tabled, InTables
<1>4. Keys' = Keys /\ \A k \in Keys : RowsOf(k)' = RowsOf(k)
  OBVIOUS
<1> QED
  BY <1>2, <1>3, <1>4 DEF Tabled

\* As each entry of the index has one label, no two labels have one name.
LEMMA IndexedOnce ==
    ASSUME Tabled, Indexed
    PROVE  NamesSound
<1>1. ASSUME NEW l \in Labels, NEW m \in Labels, l # m, Has(Label(l)), Has(Label(m)),
             db[Label(l)].name = db[Label(m)].name
      PROVE  FALSE
  <2>1. db[Label(l)].name \in Names
    BY <1>1, LabelIsTyped DEF LabelRow
  <2>2. db[Name(db[Label(l)].name)] = l /\ db[Name(db[Label(l)].name)] = m
    BY <1>1, <2>1 DEF Indexed
  <2> QED
    BY <1>1, <2>2
<1> QED
  BY <1>1 DEF NamesSound, NamesAreUnique

\* A new label under a free name keeps the index one to one.
LEMMA CreatedIsIndexed ==
    ASSUME NEW l \in Labels, NEW n \in Names, Indexed,
           ~Has(Label(l)), ~Has(Name(n)),
           db'[Label(l)].name = n, db'[Label(l)] # None, db'[Name(n)] = l,
           \A m \in Labels \ {l} : db'[Label(m)] = db[Label(m)],
           \A k \in Names \ {n} : db'[Name(k)] = db[Name(k)]
    PROVE  Indexed'
<1> SUFFICES ASSUME NEW m \in Labels, NEW k \in Names
             PROVE  db'[Name(k)] = m <=> Has(Label(m))' /\ db'[Label(m)].name = k
  BY DEF Indexed
<1>1. m # None /\ l # None
  BY NoneAssumption
<1>2. db[Name(k)] = m <=> Has(Label(m)) /\ db[Label(m)].name = k
  BY DEF Indexed
<1>3. CASE m = l
  BY <1>1, <1>2, <1>3 DEF Has
<1>4. CASE m # l
  BY <1>1, <1>2, <1>4 DEF Has
<1> QED
  BY <1>3, <1>4

\* So does a label that leaves its name for a free one, or keeps it.
LEMMA RenamedIsIndexed ==
    ASSUME NEW l \in Labels, NEW n \in Names, Indexed, NEW old \in Names,
           Has(Label(l)), Has(Name(n)) => n = old, db[Label(l)].name = old,
           db'[Label(l)].name = n, db'[Label(l)] # None, db'[Name(n)] = l,
           n # old => db'[Name(old)] = None,
           \A m \in Labels \ {l} : db'[Label(m)] = db[Label(m)],
           \A k \in Names \ {n, old} : db'[Name(k)] = db[Name(k)]
    PROVE  Indexed'
<1> SUFFICES ASSUME NEW m \in Labels, NEW k \in Names
             PROVE  db'[Name(k)] = m <=> Has(Label(m))' /\ db'[Label(m)].name = k
  BY DEF Indexed
<1>1. m # None /\ l # None
  BY NoneAssumption
<1>2. db[Name(k)] = m <=> Has(Label(m)) /\ db[Label(m)].name = k
  BY DEF Indexed
<1>3. db[Name(old)] = l
  BY DEF Indexed
<1>4. CASE m = l
  <2>1. db[Name(k)] = l => k = old
    BY DEF Indexed
  <2> QED
    BY <1>1, <1>2, <1>4, <2>1 DEF Has
<1>5. CASE m # l
  BY <1>1, <1>2, <1>3, <1>5 DEF Has
<1> QED
  BY <1>4, <1>5

\* The commands on labels keep the structure and undo no edit.
LEMMA NamesLand ==
    ASSUME NEW f, Good, NameStands(f), Lands(f), Tabled'
    PROVE  StructureStays /\ Considerate(f) /\ UndoesNothing(f.op)
<1>1. Only(DOMAIN f.rows)
  BY LandsOnly
<1>2. Subjects(f.op, f.rows) = {}
  BY DEF NameStands, Subjects
<1>3. (\A k \in DOMAIN f.rows : k[1] \in {"label", "label_name"}) /\ Indexed'
  <2>1. CASE f.op = "CreateLabel"
    <3>1. PICK l \in Labels, n \in Names :
             /\ ~Has(Label(l)) /\ ~Has(Name(n))
             /\ f.rows = With(One(Name(n), l), Label(l), [name |-> n, archived |-> FALSE])
      BY <2>1 DEF NameStands
    <3>2. Name(n) # Label(l) /\ Name(n) \in Keys /\ Label(l) \in Keys
      BY OtherKeys
    <3> DEFINE row == [name |-> n, archived |-> FALSE]
    <3>a. f.rows = With(One(Name(n), l), Label(l), row)
      BY <3>1
    <3>b. row.name = n /\ row \in LabelRow
      BY DEF LabelRow
    <3> HIDE DEF row
    <3>c. DOMAIN f.rows = {Name(n), Label(l)}
      <4>1. DOMAIN One(Name(n), l) = {Name(n)}
        BY OneIs
      <4>2. DOMAIN f.rows = DOMAIN One(Name(n), l) \cup {Label(l)}
        BY <3>a, WithDomain
      <4> QED
        BY <4>1, <4>2
    <3>d. f.rows[Name(n)] = l
      BY <3>2, <3>a, TwoFirst
    <3>e. f.rows[Label(l)] = row
      BY <3>a, WithNew
    <3>3. /\ DOMAIN f.rows = {Name(n), Label(l)}
          /\ f.rows[Name(n)] = l /\ f.rows[Label(l)] = row
      BY <3>c, <3>d, <3>e
    <3>4. /\ db'[Name(n)] = l /\ db'[Label(l)] = row
      BY <3>2, <3>3, LandsThere
    <3>5. \A m \in Labels \ {l} : db'[Label(m)] = db[Label(m)]
      BY <1>1, <3>3, OtherKeys DEF Only
    <3>6. \A k \in Names \ {n} : db'[Name(k)] = db[Name(k)]
      BY <1>1, <3>3, OtherKeys DEF Only
    <3>7. db'[Label(l)].name = n /\ db'[Label(l)] # None
      BY <3>4, <3>b, NoneAssumption
    <3>9. Indexed'
      BY <3>1, <3>4, <3>5, <3>6, <3>7, CreatedIsIndexed DEF Good, NamesSound
    <3> QED
      BY <3>3, <3>9, OtherKeys
  <2>2. CASE f.op = "UpdateLabel"
    <3>1. PICK l \in Labels, n \in Names :
             /\ Has(Label(l)) /\ (Has(Name(n)) => n = db[Label(l)].name)
             /\ f.rows = With(With(One(Name(db[Label(l)].name), None), Name(n), l),
                              Label(l), [db[Label(l)] EXCEPT !.name = n])
      BY <2>2 DEF NameStands
    <3> DEFINE old == db[Label(l)].name
               row == [db[Label(l)] EXCEPT !.name = n]
    <3>2. db[Label(l)] \in LabelRow /\ old \in Names
      BY <3>1, LabelIsTyped DEF LabelRow, Good
    <3>3. row.name = n /\ row \in LabelRow
      BY <3>2 DEF LabelRow
    <3>4. f.rows = With(With(One(Name(old), None), Name(n), l), Label(l), row)
      BY <3>1
    <3> HIDE DEF old, row
    <3>a. Name(n) # Label(l) /\ Name(old) # Label(l) /\ (n # old => Name(n) # Name(old))
      BY OtherKeys
    <3>b. DOMAIN f.rows = {Name(old), Name(n), Label(l)}
      <4>1. DOMAIN One(Name(old), None) = {Name(old)}
        BY OneIs
      <4>2. DOMAIN With(One(Name(old), None), Name(n), l)
            = DOMAIN One(Name(old), None) \cup {Name(n)}
        BY WithDomain
      <4>3. DOMAIN f.rows = DOMAIN With(One(Name(old), None), Name(n), l) \cup {Label(l)}
        BY <3>4, WithDomain
      <4> QED
        BY <4>1, <4>2, <4>3
    <3>c. f.rows[Label(l)] = row
      BY <3>4, WithNew
    <3>d. f.rows[Name(n)] = l
      BY <3>4, <3>a, RenamedSecond
    <3>e. n # old => f.rows[Name(old)] = None
      BY <3>4, <3>a, RenamedFirst
    <3>6. /\ DOMAIN f.rows = {Name(old), Name(n), Label(l)}
          /\ f.rows[Label(l)] = row /\ f.rows[Name(n)] = l
          /\ n # old => f.rows[Name(old)] = None
      BY <3>b, <3>c, <3>d, <3>e
    <3>7. Name(n) \in Keys /\ Label(l) \in Keys /\ Name(old) \in Keys
      BY <3>2, OtherKeys
    <3>8. /\ db'[Label(l)] = row /\ db'[Name(n)] = l
          /\ n # old => db'[Name(old)] = None
      BY <3>6, <3>7, LandsThere
    <3>9. \A m \in Labels \ {l} : db'[Label(m)] = db[Label(m)]
      BY <1>1, <3>6, OtherKeys DEF Only
    <3>10. \A k \in Names \ {n, old} : db'[Name(k)] = db[Name(k)]
      BY <1>1, <3>6, OtherKeys DEF Only
    <3>11. db'[Label(l)].name = n /\ db'[Label(l)] # None
      BY <3>3, <3>8, NoneAssumption
    <3>12. db[Label(l)].name = old /\ (Has(Name(n)) => n = old)
      BY <3>1 DEF old
    <3>13. Indexed'
      BY <3>1, <3>2, <3>8, <3>9, <3>10, <3>11, <3>12, RenamedIsIndexed DEF Good, NamesSound
    <3> QED
      BY <3>6, <3>13, OtherKeys
  <2>3. CASE f.op = "ArchiveLabel"
    <3>1. PICK l \in Labels :
             /\ Has(Label(l))
             /\ f.rows = One(Label(l), [db[Label(l)] EXCEPT !.archived = TRUE])
      BY <2>3 DEF NameStands
    <3>2. db[Label(l)] \in LabelRow
      BY <3>1, LabelIsTyped DEF Good
    <3>3. [db[Label(l)] EXCEPT !.archived = TRUE].name = db[Label(l)].name
      BY <3>2 DEF LabelRow
    <3>4. [db[Label(l)] EXCEPT !.archived = TRUE] \in LabelRow
      BY <3>2 DEF LabelRow
    <3>5. DOMAIN f.rows = {Label(l)} /\ f.rows[Label(l)] = [db[Label(l)] EXCEPT !.archived = TRUE]
      BY <3>1, OneIs
    <3>6. db'[Label(l)] = [db[Label(l)] EXCEPT !.archived = TRUE]
      BY <3>5, OtherKeys, LandsThere
    <3>7. db'[Label(l)].name = db[Label(l)].name /\ db'[Label(l)] # None
      BY <3>3, <3>4, <3>6, NoneAssumption
    <3>8. \A m \in Labels \ {l} : db'[Label(m)] = db[Label(m)]
      BY <1>1, <3>5, OtherKeys DEF Only
    <3>9. \A k \in Names : db'[Name(k)] = db[Name(k)]
      BY <1>1, <3>5, OtherKeys DEF Only
    <3>10. Indexed'
      BY <3>1, <3>7, <3>8, <3>9 DEF Good, NamesSound, Indexed, Has
    <3> QED
      BY <3>5, <3>10, OtherKeys
  <2> QED
    BY <2>1, <2>2, <2>3 DEF NameStands
<1>4. NamesSound'
  BY <1>3, IndexedOnce, PTL
<1>5. ProjectsKept
  BY <1>1, <1>3, ProjectsFrame
<1>6. /\ TreeSound' /\ CheckedEdgesAcyclic' /\ EventsSound'
      /\ Considerate(f)
      /\ TreeKept /\ LabellingsKept
  BY <1>2, <1>3, <1>5, Aside
<1>7. NotesKept
  BY <1>1, <1>3, NotesFrame
<1> QED
  BY <1>4, <1>6, <1>7, NothingUndone DEF StructureStays

\* The labels of an item.
LEMMA LabelsLand ==
    ASSUME NEW f, Good, LabelsStand(f), Lands(f)
    PROVE  /\ StructureStays /\ Considerate(f)
           /\ f.op # "PushLabels" => UndoesNothing(f.op)
<1>1. PICK i \in Items, labels \in LabelSets :
         /\ Has(Item(i)) /\ f.rows = LabelRows(i, labels)
         /\ f.op = "AddWorkItemLabels" => db[Labelling(i)] \subseteq labels
         /\ f.op = "RemoveWorkItemLabels" => labels \subseteq db[Labelling(i)]
  BY DEF LabelsStand
<1>2. /\ DOMAIN f.rows = {Item(i), Event(i), Labelling(i)}
      /\ f.rows[Item(i)] = db[Item(i)]
      /\ f.rows[Event(i)] = Told(db[Item(i)], labels)
      /\ f.rows[Labelling(i)] = labels
  <2>1. /\ DOMAIN LabelRows(i, labels) = {Item(i), Event(i), Labelling(i)}
        /\ LabelRows(i, labels)[Item(i)] = db[Item(i)]
        /\ LabelRows(i, labels)[Event(i)] = Told(db[Item(i)], labels)
        /\ LabelRows(i, labels)[Labelling(i)] = labels
    BY ONLY LabelRowsAre
  <2> QED
    BY <1>1, <2>1
<1>3. Only({Item(i), Event(i), Labelling(i)})
  BY <1>2, LandsOnly
<1>4. /\ db'[Item(i)] = db[Item(i)] /\ db'[Labelling(i)] = labels
      /\ db'[Event(i)] = Told(db[Item(i)], labels)
  BY <1>2, ItemKeys, LandsThere
<1>5. f.op \in LabelOps /\ Subjects(f.op, f.rows) = {}
  BY DEF LabelsStand, LabelOps, Subjects
<1>6. blind' = blind
  BY <1>5 DEF Lands
<1>7. TreeKept
  BY <1>3, <1>4, ItemKeys DEF TreeKept, Only
<1>8. /\ Item(i)[1] = "work_item" /\ Event(i)[1] = "event"
      /\ Labelling(i)[1] = "work_item_label"
  BY ItemKeys
<1>9. ProjectsKept /\ NamesKept /\ EdgesKept /\ NotesKept
  BY <1>3, <1>8, ProjectsFrame, NamesFrame, EdgesFrame, NotesFrame
<1>10. TreeSound'
  BY <1>6, <1>7, <1>9, TreeStays DEF Good
<1>11. NamesSound' /\ CheckedEdgesAcyclic'
  BY <1>6, <1>9, NamesStay, CheckedKept, EdgesStay DEF Good
<1>12. \A x \in Items \ {i} : /\ db'[Event(x)] = db[Event(x)]
                              /\ db'[Labelling(x)] = db[Labelling(x)]
  BY <1>3, ItemKeys DEF Only
<1>13. EventsShowRows'
  <2> SUFFICES ASSUME NEW x \in Items, Has(Item(x))'
               PROVE  db'[Event(x)] = Told(db'[Item(x)], db'[Labelling(x)])
    BY DEF EventsShowRows, Told
  <2>1. CASE x = i
    BY <1>4, <2>1
  <2>2. CASE x # i
    BY <1>7, <1>12, <2>2 DEF Good, EventsSound, EventsShowRows, TreeKept, Has
  <2> QED
    BY <2>1, <2>2
<1>14. LabelledExist'
  BY <1>1, <1>7, <1>12 DEF Good, EventsSound, LabelledExist, TreeKept, Has
<1>15. Considerate(f)
  <2>1. \A x \in Items : Labelling(x) \in DOMAIN f.rows => Item(x) \in DOMAIN f.rows
    BY <1>2, ItemKeys
  <2>2. BlockingLinks' \subseteq BlockingLinks
    BY <1>9, LinksKept
  <2> QED
    BY <1>7, <2>1, <2>2, TreeUnmoved DEF Considerate
<1>16. ASSUME f.op # "PushLabels" PROVE UndoesNothing(f.op)
  <2>1. ASSUME NEW x \in Items
        PROVE  db'[Item(x)] = db[Item(x)] /\ db'[Note(x)] = db[Note(x)]
    BY <1>7, <1>9 DEF TreeKept, NotesKept
  <2>2. ASSUME NEW x \in Items
        PROVE  CASE f.op = "AddWorkItemLabels" -> db[Labelling(x)] \subseteq db'[Labelling(x)]
                 [] f.op = "RemoveWorkItemLabels" -> db'[Labelling(x)] \subseteq db[Labelling(x)]
                 [] OTHER -> db'[Labelling(x)] = db[Labelling(x)]
    <3>1. CASE x = i
      BY <1>1, <1>4, <1>5, <1>16, <3>1 DEF LabelOps
    <3>2. CASE x # i
      BY <1>12, <3>2
    <3> QED
      BY <3>1, <3>2
  <2> QED
    BY <2>1, <2>2 DEF UndoesNothing
<1> QED
  BY <1>10, <1>11, <1>13, <1>14, <1>15, <1>16 DEF StructureStays, EventsSound

\* A subtree that fits under its new parent ends at level three.
LEMMA FittingIsShallow ==
    ASSUME Tabled, ThreeLevels, NEW i \in Items, NEW j \in Parents, j # i,
           FitsUnder(i, j), blind' = blind \ {i}, Up(i)' = j,
           \A x \in Items \ {i} : Up(x)' = Up(x)
    PROVE  ThreeLevels'
<1> SUFFICES ASSUME NEW a \in Items \ blind', NEW b \in Items \ blind', NEW c \in Items \ blind',
                    Up(a)' = b, Up(b)' = c
             PROVE  Up(c)' = None
  BY DEF ThreeLevels
<1>1. Up(None) = None /\ None \notin Items
  BY NoneAssumption DEF Up
<1>2. i # Up(j) /\ i # Up(Up(j)) /\ Level(j) + Height(i) <= 3
  BY DEF FitsUnder
<1>3. Height(i) \in 1..4 /\ Level(j) \in 0..3
  BY DEF Height, Level
<1>4. CASE a = i
  <2>1. b = j /\ b # i /\ c = Up(j) /\ c # None
    BY <1>1, <1>2, <1>4
  <2>2. Level(j) <= 2
    BY <1>2, <1>3
  <2>3. Up(Up(j)) = None
    BY <1>1, <2>1, <2>2 DEF Level
  <2> QED
    BY <1>2, <2>1, <2>3
<1>5. CASE a # i /\ b = i
  <2>1. Up(a) = i /\ c = j
    BY <1>5
  <2>2. Height(i) >= 2
    BY <2>1 DEF Height
  <2>3. Level(j) <= 1
    BY <1>2, <1>3, <2>2
  <2>4. Up(j) = None
    BY <1>1, <2>1, <2>3 DEF Level
  <2> QED
    BY <2>1, <2>4
<1>6. CASE a # i /\ b # i /\ c = i
  <2>1. Up(Up(a)) = i
    BY <1>6
  <2>2. Up(b) = i
    BY <1>6
  <2>3. Height(i) >= 3
    BY <2>1, <2>2 DEF Height
  <2>4. Level(j) = 0
    BY <1>2, <1>3, <2>3
  <2>5. j = None
    BY <2>4 DEF Level
  <2> QED
    BY <1>6, <2>5
<1>7. CASE a # i /\ b # i /\ c # i
  BY <1>7 DEF ThreeLevels
<1> QED
  BY <1>4, <1>5, <1>6, <1>7

\* Without the subtree, three levels stay three levels.
LEMMA OthersAreShallow ==
    ASSUME ThreeLevels, NEW i \in Items, blind' = blind \cup {i},
           \A x \in Items \ {i} : Up(x)' = Up(x)
    PROVE  ThreeLevels'
  BY DEF ThreeLevels

\* A row that keeps its project and its number.
LEMMA RowsStaySound ==
    ASSUME Tabled, TreeSound, ProjectsKept, NEW i \in Items, Has(Item(i)),
           db'[Item(i)] # None, NEW j \in Parents, FoundParent(j), Up(i)' = j,
           db'[Item(i)].project = db[Item(i)].project,
           db'[Item(i)].number = db[Item(i)].number,
           \A x \in Items \ {i} : db'[Item(x)] = db[Item(x)]
    PROVE  Counted' /\ Parented' /\ NumbersAreUnique'
<1>1. \A x \in Items : Has(Item(x))' <=> Has(Item(x))
  BY DEF Has
<1>2. \A x \in Items : Has(Item(x)) => /\ db'[Item(x)].project = db[Item(x)].project
                                       /\ db'[Item(x)].number = db[Item(x)].number
  OBVIOUS
<1>3. Counted'
  <2> SUFFICES ASSUME NEW x \in Items, Has(Item(x))'
               PROVE  /\ Has(Project(db[Item(x)].project))'
                      /\ db'[Item(x)].number < db'[Project(db'[Item(x)].project)].next
    BY DEF Counted
  <2>1. Has(Item(x))
    BY <1>1
  <2>2. db[Item(x)].project \in Projects
    BY <2>1, RowIsTyped DEF ItemRow
  <2>3. /\ Has(Project(db[Item(x)].project))
        /\ db[Item(x)].number < db[Project(db[Item(x)].project)].next
    BY <2>1 DEF TreeSound, Counted
  <2>4. db'[Project(db[Item(x)].project)] = db[Project(db[Item(x)].project)]
    BY <2>2, <2>3 DEF ProjectsKept
  <2>5. /\ db'[Item(x)].project = db[Item(x)].project
        /\ db'[Item(x)].number = db[Item(x)].number
    BY <1>2, <2>1
  <2> QED
    BY <2>3, <2>4, <2>5 DEF Has
<1>4. Parented'
  <2> SUFFICES ASSUME NEW x \in Items PROVE FoundParent(Up(x))'
    BY DEF Parented
  <2>1. CASE x = i
    <3>1. j = None \/ Has(Item(j))'
      BY <1>1 DEF FoundParent, Parents
    <3> QED
      BY <2>1, <3>1 DEF FoundParent
  <2>2. CASE x # i
    <3>1. Up(x)' = Up(x)
      BY <2>2 DEF Up, Has
    <3>2. Up(x) \in Parents /\ FoundParent(Up(x))
      BY ParentIsTyped DEF TreeSound, Parented
    <3> QED
      BY <1>1, <3>1, <3>2 DEF FoundParent, Parents
  <2> QED
    BY <2>1, <2>2
<1>5. NumbersAreUnique'
  <2> SUFFICES ASSUME NEW x \in Items, NEW y \in Items, x # y, Has(Item(x))', Has(Item(y))',
                      db'[Item(x)].project = db'[Item(y)].project
               PROVE  db'[Item(x)].number # db'[Item(y)].number
    BY DEF NumbersAreUnique
  <2> QED
    BY <1>1, <1>2 DEF TreeSound, NumbersAreUnique
<1> QED
  BY <1>3, <1>4, <1>5

\* The row of an item.
LEMMA EditLands ==
    ASSUME NEW f, Good, EditStands(f), Lands(f)
    PROVE  StructureStays /\ Considerate(f) /\ UndoesNothing(f.op)
<1>1. PICK i \in Items, row \in ItemRow :
         /\ Has(Item(i)) /\ f.rows = Edited(i, row)
         /\ Agree(row, db[Item(i)], Fields \ Family(f.op))
         /\ FoundParent(row.parent)
         /\ f.op = "MoveWorkItem" /\ "tree" \notin f.unseen =>
               row.parent # i /\ FitsUnder(i, row.parent)
  BY DEF EditStands
<1>2. f.op \in EditOps
  BY DEF EditStands
<1>3. /\ DOMAIN f.rows = {Item(i), Event(i)} /\ f.rows[Item(i)] = row
      /\ f.rows[Event(i)] = Told(row, db[Labelling(i)])
  <2> DEFINE labels == db[Labelling(i)]
  <2> HIDE DEF labels
  <2>1. /\ DOMAIN ItemRows(i, row, labels) = {Item(i), Event(i)}
        /\ ItemRows(i, row, labels)[Item(i)] = row
        /\ ItemRows(i, row, labels)[Event(i)] = Told(row, labels)
    BY ONLY ItemRowsAre
  <2> QED
    BY <1>1, <2>1 DEF Edited, labels
<1>4. Only({Item(i), Event(i)})
  BY <1>3, LandsOnly
<1>5. db'[Item(i)] = row /\ db'[Event(i)] = Told(row, db[Labelling(i)])
  BY <1>3, ItemKeys, LandsThere
<1>6. Item(i)[1] = "work_item" /\ Event(i)[1] = "event"
  BY ItemKeys
<1>7. LabellingsKept /\ ProjectsKept /\ NamesKept /\ EdgesKept /\ NotesKept
  BY <1>4, <1>6, LabellingsFrame, ProjectsFrame, NamesFrame, EdgesFrame, NotesFrame
<1>8. row # None /\ row.parent \in Parents
  BY NoneAssumption DEF ItemRow, Parents
<1>9. \A x \in Items \ {i} : db'[Item(x)] = db[Item(x)] /\ db'[Event(x)] = db[Event(x)]
  BY <1>4, ItemKeys DEF Only
<1>10. \A x \in Items : Has(Item(x))' <=> Has(Item(x))
  BY <1>1, <1>5, <1>8, <1>9 DEF Has
<1>11. Up(i)' = row.parent /\ \A x \in Items \ {i} : Up(x)' = Up(x)
  BY <1>5, <1>8, <1>9, NoneAssumption DEF Up, Has
<1>12. row.project = db[Item(i)].project /\ row.number = db[Item(i)].number
  BY <1>1, <1>2 DEF Agree, Fields, Family, EditOps
<1>13. Counted' /\ Parented' /\ NumbersAreUnique'
  BY <1>1, <1>5, <1>7, <1>8, <1>9, <1>11, <1>12, RowsStaySound DEF Good
<1>14. f.op # "MoveWorkItem" => \A x \in Items : Up(x)' = Up(x)
  <2> SUFFICES ASSUME f.op # "MoveWorkItem" PROVE Up(i)' = Up(i)
    BY <1>11
  <2>1. row.parent = db[Item(i)].parent
    BY <1>1, <1>2 DEF Agree, Fields, Family, EditOps
  <2> QED
    BY <1>1, <1>11, <2>1, NoneAssumption DEF Up
<1>15. f.op # "MoveWorkItem" => blind' = blind
  BY <1>2 DEF Lands, Subjects, EditOps
<1>16. f.op = "MoveWorkItem" => Subjects(f.op, f.rows) = {i}
  BY <1>3, ItemKeys DEF Subjects
<1>17. ThreeLevels'
  <2>1. CASE f.op # "MoveWorkItem"
    BY <1>14, <1>15, <2>1 DEF Good, TreeSound, ThreeLevels
  <2>2. CASE f.op = "MoveWorkItem" /\ "tree" \in f.unseen
    <3>1. blind' = blind \cup {i}
      BY <1>16, <2>2 DEF Lands, Unseen, Places
    <3> QED
      BY <1>11, <3>1, OthersAreShallow DEF Good, TreeSound
  <2>3. CASE f.op = "MoveWorkItem" /\ "tree" \notin f.unseen
    <3>1. blind' = blind \ {i}
      BY <1>16, <2>3 DEF Lands, Unseen, Places, Draws
    <3> QED
      BY <1>1, <1>8, <1>11, <2>3, <3>1, FittingIsShallow DEF Good, TreeSound
  <2> QED
    BY <2>1, <2>2, <2>3
<1>18. Edges \ blind' \subseteq Edges \ blind
  BY <1>15, <1>16, EdgesAssumption DEF Lands
<1>19. NamesSound' /\ CheckedEdgesAcyclic'
  BY <1>7, <1>18, NamesStay, CheckedKept, EdgesStay DEF Good
<1>20. EventsShowRows'
  <2> SUFFICES ASSUME NEW x \in Items, Has(Item(x))'
               PROVE  db'[Event(x)] = Told(db'[Item(x)], db'[Labelling(x)])
    BY DEF EventsShowRows, Told
  <2>1. CASE x = i
    BY <1>5, <1>7, <2>1 DEF LabellingsKept
  <2>2. CASE x # i
    BY <1>7, <1>9, <1>10, <2>2 DEF Good, EventsSound, EventsShowRows, LabellingsKept
  <2> QED
    BY <2>1, <2>2
<1>21. Considerate(f)
  <2>1. \A x \in Items : Labelling(x) \notin DOMAIN f.rows
    BY <1>3, ItemKeys
  <2>2. Places(f.op) = {} => \A x \in Items : Up(x)' = Up(x)
    BY <1>14 DEF Places
  <2>3. BlockingLinks' \subseteq BlockingLinks
    BY <1>7, LinksKept
  <2> QED
    BY <1>10, <2>1, <2>2, <2>3 DEF Considerate
<1>22. LabelledExist'
  BY <1>7, <1>10 DEF Good, EventsSound, LabelledExist, LabellingsKept
<1>23. UndoesNothing(f.op)
  <2>1. ASSUME NEW x \in Items, Has(Item(x)), NEW field \in Fields \ Family(f.op)
        PROVE  db'[Item(x)][field] = db[Item(x)][field]
    BY <1>1, <1>5, <1>9, <2>1 DEF Agree
  <2>2. ASSUME NEW x \in Items
        PROVE  db'[Labelling(x)] = db[Labelling(x)] /\ db'[Note(x)] = db[Note(x)]
    BY <1>7 DEF LabellingsKept, NotesKept
  <2> QED
    BY <2>1, <2>2 DEF UndoesNothing
<1> QED
  BY <1>13, <1>17, <1>19, <1>20, <1>21, <1>22, <1>23 DEF StructureStays, TreeSound, EventsSound

\* A new item hangs below one of at most level two.
LEMMA NewIsShallow ==
    ASSUME Tabled, Parented, ThreeLevels, NEW i \in Items, NEW j \in Parents,
           ~Has(Item(i)), FoundParent(j), Level(j) < 3,
           blind' = blind \ {i}, Up(i)' = j,
           \A x \in Items \ {i} : Up(x)' = Up(x)
    PROVE  ThreeLevels'
<1> SUFFICES ASSUME NEW a \in Items \ blind', NEW b \in Items \ blind', NEW c \in Items \ blind',
                    Up(a)' = b, Up(b)' = c
             PROVE  Up(c)' = None
  BY DEF ThreeLevels
<1>1. Up(None) = None /\ None \notin Items /\ j # i
  BY NoneAssumption DEF Up, FoundParent
<1>2. \A x \in Items : Up(x) # i
  BY <1>1 DEF Parented, FoundParent
<1>3. Up(j) # i
  BY <1>1, <1>2 DEF Parents
<1>4. CASE a = i
  <2>1. b = j /\ c = Up(j) /\ c # i /\ c # None
    BY <1>1, <1>3, <1>4
  <2>2. Up(Up(j)) = None
    BY <1>1, <2>1 DEF Level
  <2> QED
    BY <2>1, <2>2
<1>5. CASE a # i
  <2>1. b # i
    BY <1>2, <1>5
  <2>2. c # i
    BY <1>2, <2>1
  <2> QED
    BY <1>5, <2>1, <2>2 DEF ThreeLevels
<1> QED
  BY <1>4, <1>5

\* A new item keeps the structure: its number is fresh, its place was
\* checked or it is blind, and its event shows its row.
LEMMA ItemLands ==
    ASSUME NEW f, Good, ItemStands(f), Lands(f)
    PROVE  StructureStays /\ Considerate(f) /\ UndoesNothing(f.op)
<1>1. PICK i \in Items, p \in Projects, j \in Parents, s \in Statuses :
         /\ Has(Project(p)) /\ ~Has(Item(i)) /\ FoundParent(j)
         /\ f.rows = CreateRows(i, p, j, s)
         /\ "tree" \notin f.unseen => Level(j) < 3
  BY DEF ItemStands
<1>2. f.op = "CreateWorkItem"
  BY DEF ItemStands
<1> DEFINE row == NewRow(p, j, s)
           next == db[Project(p)].next
<1>3. /\ DOMAIN f.rows = {Item(i), Event(i), Project(p)} /\ f.rows[Item(i)] = row
      /\ f.rows[Event(i)] = Told(row, {})
      /\ f.rows[Project(p)] = [next |-> next + 1]
  <2>1. DOMAIN CreateRows(i, p, j, s) = {Item(i), Event(i), Project(p)}
    BY CreateRowsDomain
  <2>2. CreateRows(i, p, j, s)[Item(i)] = NewRow(p, j, s)
    BY CreatedRow
  <2>3. CreateRows(i, p, j, s)[Event(i)] = Told(NewRow(p, j, s), {})
    BY CreatedEvent
  <2>4. CreateRows(i, p, j, s)[Project(p)] = [next |-> next + 1]
    BY WithNew DEF CreateRows
  <2> QED
    BY <1>1, <2>1, <2>2, <2>3, <2>4
<1>4. row \in ItemRow /\ next \in Nat \ {0}
  BY <1>1, NewRowIsTyped, ProjectIsTyped DEF Good
<1>5. row.project = p /\ row.number = next /\ row.parent = j
  BY DEF NewRow
<1> HIDE DEF row, next
<1>6. Only({Item(i), Event(i), Project(p)})
  BY <1>3, LandsOnly
<1>7. /\ Item(i)[1] = "work_item" /\ Event(i)[1] = "event" /\ Project(p)[1] = "project"
      /\ Item(i) \in Keys /\ Event(i) \in Keys /\ Project(p) \in Keys
  BY ItemKeys, OtherKeys
<1>8. /\ db'[Item(i)] = row /\ db'[Event(i)] = Told(row, {})
      /\ db'[Project(p)] = [next |-> next + 1]
  BY <1>3, <1>7, LandsThere
<1>9. LabellingsKept /\ NamesKept /\ EdgesKept /\ NotesKept
  BY <1>6, <1>7, LabellingsFrame, NamesFrame, EdgesFrame, NotesFrame
<1>10. row # None /\ [next |-> next + 1] # None
  <2>1. [next |-> next + 1] \in ProjectRow
    BY <1>4 DEF ProjectRow
  <2> QED
    BY <1>4, <2>1, NoneAssumption
<1>11. \A x \in Items \ {i} : db'[Item(x)] = db[Item(x)] /\ db'[Event(x)] = db[Event(x)]
  BY <1>6, ItemKeys, OtherKeys DEF Only
<1>12. \A q \in Projects \ {p} : db'[Project(q)] = db[Project(q)]
  BY <1>6, ItemKeys, OtherKeys DEF Only
<1>13. /\ \A x \in Items \ {i} : Has(Item(x))' <=> Has(Item(x))
       /\ Has(Item(i))'
  BY <1>8, <1>10, <1>11 DEF Has
<1>14. Up(i)' = j /\ \A x \in Items \ {i} : Up(x)' = Up(x)
  BY <1>5, <1>8, <1>10, <1>11, NoneAssumption DEF Up, Has
<1>15. Counted'
  <2> SUFFICES ASSUME NEW x \in Items, Has(Item(x))'
               PROVE  /\ Has(Project(db[Item(x)].project))'
                      /\ db'[Item(x)].number < db'[Project(db'[Item(x)].project)].next
    BY DEF Counted
  <2>1. Has(Project(p))' /\ db'[Project(p)].next = next + 1
    BY <1>8, <1>10 DEF Has
  <2>2. CASE x = i
    BY <1>4, <1>5, <1>8, <2>1, <2>2 DEF Has
  <2>3. CASE x # i
    <3>1. Has(Item(x)) /\ db'[Item(x)] = db[Item(x)]
      BY <1>11, <1>13, <2>3
    <3>2. db[Item(x)].project \in Projects /\ db[Item(x)].number \in Nat
      BY <3>1, RowIsTyped DEF ItemRow, Good
    <3>3. /\ Has(Project(db[Item(x)].project))
          /\ db[Item(x)].number < db[Project(db[Item(x)].project)].next
      BY <3>1 DEF Good, TreeSound, Counted
    <3>4. CASE db[Item(x)].project = p
      BY <1>4, <2>1, <3>1, <3>2, <3>3, <3>4 DEF Has, next
    <3>5. CASE db[Item(x)].project # p
      BY <1>12, <3>1, <3>2, <3>3, <3>5 DEF Has
    <3> QED
      BY <3>4, <3>5
  <2> QED
    BY <2>2, <2>3
<1>16. Parented'
  <2> SUFFICES ASSUME NEW x \in Items PROVE FoundParent(Up(x))'
    BY DEF Parented
  <2>1. CASE x = i
    <3>1. j = None \/ Has(Item(j))'
      BY <1>1, <1>13 DEF FoundParent, Parents
    <3> QED
      BY <1>14, <2>1, <3>1 DEF FoundParent
  <2>2. CASE x # i
    <3>1. Up(x) \in Parents /\ FoundParent(Up(x)) /\ Up(x)' = Up(x)
      BY <1>14, <2>2, ParentIsTyped DEF TreeSound, Parented, Good
    <3> QED
      BY <1>13, <3>1 DEF FoundParent, Parents
  <2> QED
    BY <2>1, <2>2
<1>17. ASSUME NEW x \in Items, x # i, Has(Item(x)), db[Item(x)].project = p
       PROVE  db[Item(x)].number # next
  BY <1>4, <1>17, RowIsTyped DEF Good, TreeSound, Counted, next, ItemRow
<1>18. NumbersAreUnique'
  <2> SUFFICES ASSUME NEW x \in Items, NEW y \in Items, x # y, Has(Item(x))', Has(Item(y))',
                      db'[Item(x)].project = db'[Item(y)].project
               PROVE  db'[Item(x)].number # db'[Item(y)].number
    BY DEF NumbersAreUnique
  <2>1. CASE x = i
    BY <1>5, <1>8, <1>11, <1>13, <1>17, <2>1
  <2>2. CASE y = i
    BY <1>5, <1>8, <1>11, <1>13, <1>17, <2>2
  <2>3. CASE x # i /\ y # i
    BY <1>11, <1>13, <2>3 DEF Good, TreeSound, NumbersAreUnique
  <2> QED
    BY <2>1, <2>2, <2>3
<1>19. Subjects(f.op, f.rows) = {i}
  BY <1>2, <1>3, ItemKeys, OtherKeys DEF Subjects
<1>20. ThreeLevels'
  <2>1. CASE "tree" \in f.unseen
    <3>1. blind' = blind \cup {i}
      BY <1>2, <1>19, <2>1 DEF Lands, Unseen, Places
    <3> QED
      BY <1>14, <3>1, OthersAreShallow DEF Good, TreeSound
  <2>2. CASE "tree" \notin f.unseen
    <3>1. blind' = blind \ {i}
      BY <1>2, <1>19, <2>2 DEF Lands, Unseen, Places, Draws
    <3> QED
      BY <1>1, <1>14, <2>2, <3>1, NewIsShallow DEF Good, TreeSound
  <2> QED
    BY <2>1, <2>2
<1>21. Edges \ blind' \subseteq Edges \ blind
  BY <1>19, EdgesAssumption DEF Lands
<1>22. NamesSound' /\ CheckedEdgesAcyclic'
  BY <1>9, <1>21, NamesStay, CheckedKept, EdgesStay DEF Good
<1>23. EventsShowRows'
  <2> SUFFICES ASSUME NEW x \in Items, Has(Item(x))'
               PROVE  db'[Event(x)] = Told(db'[Item(x)], db'[Labelling(x)])
    BY DEF EventsShowRows, Told
  <2>1. CASE x = i
    <3>1. db'[Labelling(i)] = {}
      BY <1>1, <1>9 DEF Good, EventsSound, LabelledExist, LabellingsKept
    <3> QED
      BY <1>8, <2>1, <3>1
  <2>2. CASE x # i
    BY <1>9, <1>11, <1>13, <2>2 DEF Good, EventsSound, EventsShowRows, LabellingsKept
  <2> QED
    BY <2>1, <2>2
<1>24. LabelledExist'
  BY <1>9, <1>13 DEF Good, EventsSound, LabelledExist, LabellingsKept
<1>25. Considerate(f)
  <2>1. \A x \in Items : Labelling(x) \notin DOMAIN f.rows
    BY <1>3, ItemKeys, OtherKeys
  <2>2. Places(f.op) # {}
    BY <1>2 DEF Places
  <2>3. BlockingLinks' \subseteq BlockingLinks
    BY <1>9, LinksKept
  <2> QED
    BY <1>13, <2>1, <2>2, <2>3 DEF Considerate
<1>26. UndoesNothing(f.op)
  <2>1. ASSUME NEW x \in Items, Has(Item(x))
        PROVE  db'[Item(x)] = db[Item(x)]
    BY <1>1, <1>11, <2>1
  <2>2. ASSUME NEW x \in Items
        PROVE  db'[Labelling(x)] = db[Labelling(x)] /\ db'[Note(x)] = db[Note(x)]
    BY <1>9 DEF LabellingsKept, NotesKept
  <2> QED
    BY <2>1, <2>2 DEF UndoesNothing
<1> QED
  BY <1>15, <1>16, <1>18, <1>20, <1>22, <1>23, <1>24, <1>25, <1>26
  DEF StructureStays, TreeSound, EventsSound

----------------------------------------------------------------------------
(* Dependencies *)

\* An edge that the detector let through closes no cycle.
LEMMA DrawnIsAcyclic ==
    ASSUME CheckedEdgesAcyclic, NEW e \in Edges, ~ClosesCycle(e),
           CheckedEdges' \subseteq CheckedEdges \cup {e}
    PROVE  CheckedEdgesAcyclic'
<1>1. PICK T \in SUBSET Items :
         /\ e[2] \in T /\ e[1] \notin T
         /\ \A link \in BlockingLinks : link[1] \in T => link[2] \in T
  BY DEF ClosesCycle, Reaches
<1>2. \A d \in CheckedEdges : d[1] \in T => d[2] \in T
  <2> SUFFICES ASSUME NEW d \in CheckedEdges, d[1] \in T PROVE d[2] \in T
    OBVIOUS
  <2>1. <<d[1], d[2]>> \in BlockingLinks
    BY DEF CheckedEdges, BlockingLinks
  <2> QED
    BY <1>1, <2>1
<1> SUFFICES ASSUME NEW S \in (SUBSET Items) \ {{}},
                    \A x \in S : \E d \in CheckedEdges' : d[1] = x /\ d[2] \in S
             PROVE  FALSE
  BY DEF CheckedEdgesAcyclic
<1>3. ASSUME NEW R \in SUBSET Items, R # {},
             \A x \in R : \E d \in CheckedEdges : d[1] = x /\ d[2] \in R
      PROVE  FALSE
  BY <1>3 DEF CheckedEdgesAcyclic
<1>4. CASE e[1] \in S /\ e[2] \in S
  <2>1. e[2] \in S \cap T
    BY <1>1, <1>4
  <2>2. ASSUME NEW x \in S \cap T
        PROVE  \E d \in CheckedEdges : d[1] = x /\ d[2] \in S \cap T
    <3>1. PICK d \in CheckedEdges' : d[1] = x /\ d[2] \in S
      BY <2>2
    <3>2. d # e
      BY <1>1, <2>2, <3>1
    <3>3. d \in CheckedEdges
      BY <3>1, <3>2
    <3> QED
      BY <1>2, <2>2, <3>1, <3>3
  <2> QED
    BY <1>3, <2>1, <2>2
<1>5. CASE ~(e[1] \in S /\ e[2] \in S)
  <2>1. ASSUME NEW x \in S
        PROVE  \E d \in CheckedEdges : d[1] = x /\ d[2] \in S
    <3>1. PICK d \in CheckedEdges' : d[1] = x /\ d[2] \in S
      BY <2>1
    <3>2. d # e
      BY <1>5, <2>1, <3>1
    <3> QED
      BY <3>1, <3>2
  <2> QED
    BY <1>3, <2>1
<1> QED
  BY <1>4, <1>5

\* A step that writes relations and nothing else.
LEMMA EdgesAlone ==
    ASSUME Good, NEW S, Only(S), \A k \in S : k[1] \in {"relation", "tombstone"},
           Items \ blind' \subseteq Items \ blind
    PROVE  /\ TreeSound' /\ NamesSound' /\ EventsSound'
           /\ TreeKept /\ LabellingsKept /\ NotesKept
<1>1. TreeKept /\ LabellingsKept /\ NotesKept /\ EventsKept /\ ProjectsKept /\ NamesKept
  BY TreeFrame, LabellingsFrame, NotesFrame, EventsFrame, ProjectsFrame, NamesFrame
<1> QED
  BY <1>1, TreeStays, NamesStay, EventsStay DEF Good

\* A command that adds no relation draws no blocking link ...
LEMMA NoneDrawn ==
    ASSUME \A x \in Edges : Has(Relation(x))' => Has(Relation(x))
    PROVE  BlockingLinks' \subseteq BlockingLinks
  BY DEF BlockingLinks, Blocking, BlockingTypes

\* ... and none that is taken for checked.
LEMMA NoneChecked ==
    ASSUME CheckedEdgesAcyclic,
           \A x \in Edges : Has(Relation(x))' /\ x \notin blind' =>
                            Has(Relation(x)) /\ x \notin blind
    PROVE  CheckedEdgesAcyclic'
<1>1. CheckedEdges' \subseteq CheckedEdges
  BY DEF CheckedEdges, Blocking, BlockingTypes
<1> QED
  BY <1>1, EdgesStay

\* The end of a command about relations.
LEMMA RelationsEnd ==
    ASSUME NEW f, Good, Lands(f),
           \A k \in DOMAIN f.rows : k[1] \in {"relation", "tombstone"},
           Items \ blind' \subseteq Items \ blind,
           CheckedEdgesAcyclic',
           Draws(f.op) = {} => BlockingLinks' \subseteq BlockingLinks
    PROVE  StructureStays /\ Considerate(f) /\ UndoesNothing(f.op)
<1>1. Only(DOMAIN f.rows)
  BY LandsOnly
<1>2. /\ TreeSound' /\ NamesSound' /\ EventsSound'
      /\ TreeKept /\ LabellingsKept /\ NotesKept
  BY <1>1, EdgesAlone
<1>3. \A x \in Items : Labelling(x) \notin DOMAIN f.rows
  BY ItemKeys
<1>4. Considerate(f)
  BY <1>2, <1>3, TreeUnmoved DEF Considerate
<1> QED
  BY <1>2, <1>4, NothingUndone DEF StructureStays

\* The commands on relations keep the checked links acyclic.
LEMMA RelationsLand ==
    ASSUME NEW f, Good, RelationStands(f), Lands(f)
    PROVE  StructureStays /\ Considerate(f) /\ UndoesNothing(f.op)
<1>1. CASE f.op = "CreateRelation"
  <2>1. PICK e \in Edges :
           /\ ~Has(Relation(e)) /\ f.rows = One(Relation(e), "unresolved")
           /\ "edges" \notin f.unseen => ~ClosesCycle(e)
    BY <1>1 DEF RelationStands
  <2>2. DOMAIN f.rows = {Relation(e)}
    BY <2>1, OneIs
  <2>3. Only({Relation(e)})
    BY <2>2, LandsOnly
  <2>4. \A x \in Edges \ {e} : db'[Relation(x)] = db[Relation(x)]
    BY <2>3, OtherKeys DEF Only
  <2>5. Subjects(f.op, f.rows) = {e}
    BY <1>1, <2>2, OtherKeys DEF Subjects
  <2>6. Items \ blind' \subseteq Items \ blind
    BY <2>5, EdgesAssumption DEF Lands
  <2>7. CheckedEdgesAcyclic'
    <3>1. CASE "edges" \in f.unseen
      <4>1. blind' = blind \cup {e}
        BY <1>1, <2>5, <3>1 DEF Lands, Unseen, Draws
      <4>2. \A x \in Edges : Has(Relation(x))' /\ x \notin blind' =>
                             Has(Relation(x)) /\ x \notin blind
        BY <2>4, <4>1 DEF Has
      <4> QED
        BY <4>2, NoneChecked DEF Good
    <3>2. CASE "edges" \notin f.unseen
      <4>1. blind' = blind \ {e}
        BY <1>1, <2>5, <3>2 DEF Lands, Unseen, Draws, Places
      <4>2. CheckedEdges' \subseteq CheckedEdges \cup {e}
        BY <2>4, <4>1 DEF CheckedEdges, Has, Blocking, BlockingTypes
      <4> QED
        BY <2>1, <3>2, <4>2, DrawnIsAcyclic DEF Good
    <3> QED
      BY <3>1, <3>2
  <2>8. Draws(f.op) # {}
    BY <1>1 DEF Draws
  <2>9. \A k \in DOMAIN f.rows : k[1] \in {"relation", "tombstone"}
    BY <2>2, OtherKeys
  <2> QED
    BY <2>6, <2>7, <2>8, <2>9, RelationsEnd
<1>2. CASE f.op = "ResolveDependency"
  <2>1. PICK e \in Edges :
           Has(Relation(e)) /\ f.rows = One(Relation(e), "confirmed_not_required")
    BY <1>2 DEF RelationStands
  <2>2. DOMAIN f.rows = {Relation(e)}
    BY <2>1, OneIs
  <2>3. Only({Relation(e)})
    BY <2>2, LandsOnly
  <2>4. \A x \in Edges : Has(Relation(x))' => Has(Relation(x))
    BY <2>1, <2>3, OtherKeys DEF Only, Has
  <2>5. blind' = blind
    BY <1>2 DEF Lands, Subjects
  <2>6. CheckedEdgesAcyclic' /\ BlockingLinks' \subseteq BlockingLinks
    BY <2>4, <2>5, NoneChecked, NoneDrawn DEF Good
  <2>7. \A k \in DOMAIN f.rows : k[1] \in {"relation", "tombstone"}
    BY <2>2, OtherKeys
  <2> QED
    BY <2>5, <2>6, <2>7, RelationsEnd
<1>3. CASE f.op = "RemoveRelation"
  <2>1. PICK e \in Edges : f.rows = With(One(Relation(e), None), Tombstone(e), TRUE)
    BY <1>3 DEF RelationStands
  <2>2. DOMAIN f.rows = {Relation(e), Tombstone(e)}
    <3>1. DOMAIN One(Relation(e), None) = {Relation(e)}
      BY OneIs
    <3>2. DOMAIN f.rows = DOMAIN One(Relation(e), None) \cup {Tombstone(e)}
      BY <2>1, WithDomain
    <3> QED
      BY <3>1, <3>2
  <2>3. Only({Relation(e), Tombstone(e)})
    BY <2>2, LandsOnly
  <2>4. ~Has(Relation(e))'
    <3>1. Relation(e) # Tombstone(e) /\ Relation(e) \in Keys
      BY OtherKeys
    <3>2. f.rows[Relation(e)] = None
      <4> DEFINE true == TRUE
      <4>1. f.rows = With(One(Relation(e), None), Tombstone(e), true)
        BY <2>1
      <4> HIDE DEF true
      <4> QED
        BY <3>1, <4>1, TwoFirst
    <3> QED
      BY <2>2, <3>1, <3>2, LandsThere DEF Has
  <2>5. \A x \in Edges \ {e} : db'[Relation(x)] = db[Relation(x)]
    BY <2>3, OtherKeys DEF Only
  <2>6. Subjects(f.op, f.rows) = {e}
    BY <1>3, <2>2, OtherKeys DEF Subjects
  <2>7. blind' = blind \ {e}
    BY <1>3, <2>6 DEF Lands, Unseen, Places, Draws
  <2>8. \A x \in Edges : Has(Relation(x))' => x # e /\ Has(Relation(x))
    BY <2>4, <2>5 DEF Has
  <2>9. CheckedEdgesAcyclic' /\ BlockingLinks' \subseteq BlockingLinks
    BY <2>7, <2>8, NoneChecked, NoneDrawn DEF Good
  <2>10. Items \ blind' \subseteq Items \ blind
    BY <2>7, EdgesAssumption
  <2>11. \A k \in DOMAIN f.rows : k[1] \in {"relation", "tombstone"}
    BY <2>2, OtherKeys
  <2> QED
    BY <2>9, <2>10, <2>11, RelationsEnd
<1> QED
  BY <1>1, <1>2, <1>3 DEF RelationStands

\* A pushed relation.
LEMMA PushLands ==
    ASSUME Good, NEW e \in Edges, PushRelation(e) \/ PushRemoval(e)
    PROVE  StructureStays
<1>1. Only({Relation(e), Tombstone(e)})
  BY DEF Only, PushRelation, PushRemoval, Good, Tabled
<1>2. \A x \in Edges \ {e} : db'[Relation(x)] = db[Relation(x)]
  BY <1>1, OtherKeys DEF Only
<1>3. PushRelation(e) => e \in blind'
  BY DEF PushRelation
<1>4. PushRemoval(e) => ~Has(Relation(e))'
  <2>1. Relation(e) # Tombstone(e) /\ Relation(e) \in Keys
    BY OtherKeys
  <2> QED
    BY <2>1 DEF PushRemoval, Has, Good, Tabled
<1>5. blind' \ {e} = blind \ {e}
  BY DEF PushRelation, PushRemoval
<1>6. \A x \in Edges : Has(Relation(x))' /\ x \notin blind' =>
                       Has(Relation(x)) /\ x \notin blind
  BY <1>2, <1>3, <1>4, <1>5 DEF Has
<1>7. CheckedEdgesAcyclic'
  BY <1>6, NoneChecked DEF Good
<1>8. Items \ blind' \subseteq Items \ blind
  BY <1>5, EdgesAssumption
<1>9. \A k \in {Relation(e), Tombstone(e)} : k[1] \in {"relation", "tombstone"}
  BY OtherKeys
<1>10. TreeSound' /\ NamesSound' /\ EventsSound'
  BY <1>1, <1>8, <1>9, EdgesAlone
<1> QED
  BY <1>7, <1>10 DEF StructureStays

\* It is a row of its table, and so is its tombstone.
LEMMA PushIsTyped ==
    ASSUME Tabled, NEW e \in Edges, PushRelation(e) \/ PushRemoval(e)
    PROVE  Tabled'
<1>1. DOMAIN db' = Keys
  BY DEF Tabled, PushRelation, PushRemoval
<1>2. Relation(e) # Tombstone(e) /\ Relation(e) \in Keys /\ Tombstone(e) \in Keys
  BY OtherKeys
<1>3. \A k \in Keys \ {Relation(e), Tombstone(e)} : db'[k] = db[k]
  BY DEF Tabled, PushRelation, PushRemoval
<1>4. db'[Relation(e)] \in {"unresolved", None} /\ db'[Tombstone(e)] \in {db[Tombstone(e)], TRUE}
  BY <1>2 DEF Tabled, PushRelation, PushRemoval
<1>5. /\ RowsOf(Relation(e)) = {"unresolved", "confirmed_not_required", None}
      /\ RowsOf(Tombstone(e)) = BOOLEAN
  BY Tables
<1>6. db'[Relation(e)] \in RowsOf(Relation(e)) /\ db'[Tombstone(e)] \in RowsOf(Tombstone(e))
  BY <1>2, <1>4, <1>5 DEF Tabled
<1>7. \A k \in Keys : db'[k] \in RowsOf(k)
  BY <1>3, <1>6 DEF Tabled
<1>8. Keys' = Keys /\ \A k \in Keys : RowsOf(k)' = RowsOf(k)
  OBVIOUS
<1> QED
  BY <1>1, <1>7, <1>8 DEF Tabled

----------------------------------------------------------------------------
(* A command in flight while another lands *)

\* Whatever stands keeps the structure when it lands, and undoes no edit; pushed labels
\* replace those of the item, as they are meant to.
LEMMA Landing ==
    ASSUME NEW f, Good, Stands(f), Lands(f), InTables(f.rows)
    PROVE  /\ Tabled' /\ StructureStays /\ Considerate(f)
           /\ f.op # "PushLabels" => UndoesNothing(f.op)
<1>1. Tabled'
  BY WritingIsTyped DEF Good, Lands, Writes
<1> QED
  BY <1>1, ProjectLands, ItemLands, EditLands, NamesLand, LabelsLand, NoteLands, RelationsLand
  DEF Stands

\* g, which flies on, as f lands.
Passes(f, g, h) ==
    /\ h.op = g.op /\ h.rows = g.rows
    /\ h.unseen = g.unseen \cup Places(f.op) \cup Draws(f.op)
    /\ Compared(f.rows) \cap Compared(g.rows) = {}

\* The rows it compares are as they were.
LEMMA ComparedKept ==
    ASSUME NEW f, NEW g, NEW h, Writes(f), Passes(f, g, h),
           NEW k \in Keys, k \in DOMAIN g.rows, k[1] # "event"
    PROVE  k \notin DOMAIN f.rows /\ db'[k] = db[k]
<1>1. k \in Compared(g.rows)
  BY ItemKeys DEF Compared
<1>2. k \notin DOMAIN f.rows
  BY <1>1, ItemKeys DEF Compared, Passes
<1> QED
  BY <1>2, WritesOnly DEF Only

\* An item that it writes keeps its labels.
LEMMA LabelsOfCompared ==
    ASSUME NEW f, NEW g, NEW h, Writes(f), Considerate(f), Passes(f, g, h),
           NEW i \in Items, Item(i) \in DOMAIN g.rows
    PROVE  db'[Item(i)] = db[Item(i)] /\ db'[Labelling(i)] = db[Labelling(i)]
<1>1. Item(i) \in Keys /\ Item(i)[1] # "event" /\ Labelling(i) \in Keys
  BY ItemKeys
<1>2. Item(i) \notin DOMAIN f.rows /\ db'[Item(i)] = db[Item(i)]
  BY <1>1, ComparedKept
<1>3. Labelling(i) \notin DOMAIN f.rows
  BY <1>2 DEF Considerate
<1> QED
  BY <1>1, <1>2, <1>3, WritesOnly DEF Only

\* An item that exists is not removed by a command that lands.
LEMMA FoundStays ==
    ASSUME NEW f, Considerate(f), NEW j \in Parents, FoundParent(j)
    PROVE  FoundParent(j)'
  BY DEF Considerate, FoundParent, Parents

\* The tree it saw, as long as it saw all of it.
LEMMA TreeSeen ==
    ASSUME NEW f, NEW g, NEW h, Considerate(f), Passes(f, g, h), "tree" \notin h.unseen
    PROVE  "tree" \notin g.unseen /\ \A x \in Items : Up(x)' = Up(x)
  BY DEF Considerate, Passes, Places

\* A new project is still new when another command has landed.
LEMMA ProjectFliesOn ==
    ASSUME NEW f, NEW g, NEW h, Writes(f), Passes(f, g, h), ProjectStands(g)
    PROVE  ProjectStands(h)'
<1>1. PICK p \in Projects : ~Has(Project(p)) /\ g.rows = One(Project(p), [next |-> 1])
  BY DEF ProjectStands
<1>2. DOMAIN g.rows = {Project(p)}
  BY <1>1, OneIs
<1>3. Project(p) \in Keys /\ Project(p)[1] = "project"
  BY OtherKeys
<1>4. db'[Project(p)] = db[Project(p)]
  BY <1>2, <1>3, ComparedKept
<1>5. h.op = "CreateProject" /\ h.rows = One(Project(p), [next |-> 1]) /\ ~Has(Project(p))'
  BY <1>1, <1>4 DEF Passes, ProjectStands, Has
<1> QED
  BY <1>5 DEF ProjectStands

\* A new item is still new, and its project and parent are still there.
LEMMA ItemFliesOn ==
    ASSUME Tabled, NEW f, NEW g, NEW h, Writes(f), Considerate(f), Passes(f, g, h), ItemStands(g)
    PROVE  ItemStands(h)'
<1>1. PICK i \in Items, p \in Projects, j \in Parents, s \in Statuses :
         /\ Has(Project(p)) /\ ~Has(Item(i)) /\ FoundParent(j)
         /\ g.rows = CreateRows(i, p, j, s)
         /\ "tree" \notin g.unseen => Level(j) < 3
  BY DEF ItemStands
<1>2. DOMAIN g.rows = {Item(i), Event(i), Project(p)}
  BY <1>1, CreateRowsDomain
<1>3. /\ Project(p) \in Keys /\ Project(p)[1] = "project"
      /\ Item(i) \in Keys /\ Item(i)[1] = "work_item"
  BY ItemKeys, OtherKeys
<1>4. db'[Project(p)] = db[Project(p)] /\ db'[Item(i)] = db[Item(i)]
  BY <1>2, <1>3, ComparedKept
<1>5. Has(Project(p))' /\ ~Has(Item(i))' /\ FoundParent(j)'
  BY <1>1, <1>4, FoundStays DEF Has
<1>6. CreateRows(i, p, j, s)' = CreateRows(i, p, j, s)
  BY <1>4 DEF CreateRows, NewRow, ItemRows
<1>7. ASSUME "tree" \notin h.unseen PROVE (Level(j) < 3)'
  <2>1. "tree" \notin g.unseen /\ \A x \in Items : Up(x)' = Up(x)
    BY <1>7, TreeSeen
  <2>2. \A x \in Parents : Up(x)' = Up(x) /\ Up(x) \in Parents
    BY <2>1, ParentIsTyped DEF Parents, Up
  <2>3. Level(j)' = Level(j)
    BY <2>2 DEF Level
  <2> QED
    BY <1>1, <2>1, <2>3
<1>8. h.op = "CreateWorkItem" /\ h.rows = CreateRows(i, p, j, s)'
  BY <1>1, <1>6 DEF Passes, ItemStands
<1> QED
  BY <1>5, <1>7, <1>8 DEF ItemStands

\* A parent that fits still does when no item was placed or moved.
LEMMA FitKept ==
    ASSUME Tabled, NEW i \in Items, NEW j \in Parents, \A x \in Items : Up(x)' = Up(x)
    PROVE  FitsUnder(i, j)' <=> FitsUnder(i, j)
<1>1. \A x \in Parents : Up(x)' = Up(x) /\ Up(x) \in Parents
  BY ParentIsTyped DEF Parents, Up
<1>2. Level(j)' = Level(j)
  BY <1>1 DEF Level
<1>3. Height(i)' = Height(i)
  BY <1>1 DEF Height, Parents
<1> QED
  BY <1>1, <1>2, <1>3 DEF FitsUnder

\* An edit is still about the row it was compiled from.
LEMMA EditFliesOn ==
    ASSUME Tabled, NEW f, NEW g, NEW h, Writes(f), Considerate(f), Passes(f, g, h), EditStands(g)
    PROVE  EditStands(h)'
<1>1. PICK i \in Items, row \in ItemRow :
         /\ Has(Item(i)) /\ g.rows = Edited(i, row)
         /\ Agree(row, db[Item(i)], Fields \ Family(g.op))
         /\ FoundParent(row.parent)
         /\ g.op = "MoveWorkItem" /\ "tree" \notin g.unseen =>
               row.parent # i /\ FitsUnder(i, row.parent)
  BY DEF EditStands
<1>2. Item(i) \in DOMAIN g.rows
  <2> DEFINE labels == db[Labelling(i)]
  <2> HIDE DEF labels
  <2>1. DOMAIN ItemRows(i, row, labels) = {Item(i), Event(i)}
    BY ItemRowsAre
  <2> QED
    BY <1>1, <2>1 DEF Edited, labels
<1>3. db'[Item(i)] = db[Item(i)] /\ db'[Labelling(i)] = db[Labelling(i)]
  BY <1>2, LabelsOfCompared
<1>4. row.parent \in Parents
  BY DEF ItemRow, Parents
<1>5. Has(Item(i))' /\ FoundParent(row.parent)'
  BY <1>1, <1>3, <1>4, FoundStays DEF Has
<1>6. Edited(i, row)' = Edited(i, row)
  BY <1>3 DEF Edited, ItemRows
<1>7. h.op = g.op /\ h.op \in EditOps /\ h.rows = Edited(i, row)'
  BY <1>1, <1>6 DEF Passes, EditStands
<1>8. Agree(row, db'[Item(i)], Fields \ Family(h.op))
  BY <1>1, <1>3, <1>7
<1>9. ASSUME h.op = "MoveWorkItem", "tree" \notin h.unseen
      PROVE  row.parent # i /\ FitsUnder(i, row.parent)'
  <2>1. "tree" \notin g.unseen /\ \A x \in Items : Up(x)' = Up(x)
    BY <1>9, TreeSeen
  <2>2. row.parent # i /\ FitsUnder(i, row.parent)
    BY <1>1, <1>7, <1>9, <2>1
  <2> DEFINE j == row.parent
  <2>3. j \in Parents /\ FitsUnder(i, j)
    BY <1>4, <2>2
  <2> HIDE DEF j
  <2>4. FitsUnder(i, j)'
    BY <2>1, <2>3, FitKept
  <2> QED
    BY <2>2, <2>4 DEF j
<1>10. Agree(row, db[Item(i)], Fields \ Family(h.op))'
  BY <1>8 DEF Agree, Fields, Family
<1> QED
  BY <1>5, <1>7, <1>9, <1>10 DEF EditStands, EditOps

\* A label is still named as the command has read it.
LEMMA NamesFlyOn ==
    ASSUME NEW f, NEW g, NEW h, Tabled, Writes(f), Passes(f, g, h), NameStands(g)
    PROVE  NameStands(h)'
<1>1. h.op = g.op /\ h.rows = g.rows
  BY DEF Passes
<1>2. CASE g.op = "CreateLabel"
  <2>1. PICK l \in Labels, n \in Names :
           /\ ~Has(Label(l)) /\ ~Has(Name(n))
           /\ g.rows = With(One(Name(n), l), Label(l), [name |-> n, archived |-> FALSE])
    BY <1>2 DEF NameStands
  <2>2. DOMAIN g.rows = {Name(n), Label(l)}
    <3>1. DOMAIN One(Name(n), l) = {Name(n)}
      BY OneIs
    <3>2. DOMAIN g.rows = DOMAIN One(Name(n), l) \cup {Label(l)}
      BY <2>1, WithDomain
    <3> QED
      BY <3>1, <3>2
  <2>3. /\ Name(n) \in Keys /\ Name(n)[1] = "label_name"
        /\ Label(l) \in Keys /\ Label(l)[1] = "label"
    BY OtherKeys
  <2>4. db'[Name(n)] = db[Name(n)] /\ db'[Label(l)] = db[Label(l)]
    BY <2>2, <2>3, ComparedKept
  <2>5. ~Has(Label(l))' /\ ~Has(Name(n))'
    BY <2>1, <2>4 DEF Has
  <2> QED
    BY <1>1, <1>2, <2>1, <2>5 DEF NameStands
<1>3. CASE g.op = "UpdateLabel"
  <2>1. PICK l \in Labels, n \in Names :
           /\ Has(Label(l)) /\ (Has(Name(n)) => n = db[Label(l)].name)
           /\ g.rows = With(With(One(Name(db[Label(l)].name), None), Name(n), l),
                            Label(l), [db[Label(l)] EXCEPT !.name = n])
    BY <1>3 DEF NameStands
  <2>2. Name(n) \in DOMAIN g.rows /\ Label(l) \in DOMAIN g.rows
    <3> DEFINE first == One(Name(db[Label(l)].name), None)
               rows == With(first, Name(n), l)
               row == [db[Label(l)] EXCEPT !.name = n]
    <3>1. g.rows = With(rows, Label(l), row)
      BY <2>1
    <3> HIDE DEF first, row
    <3>2. DOMAIN rows = DOMAIN first \cup {Name(n)}
      BY WithDomain
    <3> HIDE DEF rows
    <3>3. DOMAIN g.rows = DOMAIN rows \cup {Label(l)}
      BY <3>1, WithDomain
    <3> QED
      BY <3>2, <3>3
  <2>3. /\ Name(n) \in Keys /\ Name(n)[1] = "label_name"
        /\ Label(l) \in Keys /\ Label(l)[1] = "label"
    BY OtherKeys
  <2>4. db'[Name(n)] = db[Name(n)] /\ db'[Label(l)] = db[Label(l)]
    BY <2>2, <2>3, ComparedKept
  <2>5. /\ Has(Label(l))' /\ (Has(Name(n))' => n = db'[Label(l)].name)
        /\ h.rows = With(With(One(Name(db'[Label(l)].name), None), Name(n), l),
                         Label(l), [db'[Label(l)] EXCEPT !.name = n])
    BY <1>1, <2>1, <2>4 DEF Has
  <2> QED
    BY <1>1, <1>3, <2>5 DEF NameStands
<1>4. CASE g.op = "ArchiveLabel"
  <2>1. PICK l \in Labels :
           /\ Has(Label(l))
           /\ g.rows = One(Label(l), [db[Label(l)] EXCEPT !.archived = TRUE])
    BY <1>4 DEF NameStands
  <2>2. Label(l) \in DOMAIN g.rows
    <3> DEFINE row == [db[Label(l)] EXCEPT !.archived = TRUE]
    <3>1. g.rows = One(Label(l), row)
      BY <2>1
    <3> HIDE DEF row
    <3> QED
      BY <3>1, OneIs
  <2>3. Label(l) \in Keys /\ Label(l)[1] = "label"
    BY OtherKeys
  <2>4. db'[Label(l)] = db[Label(l)]
    BY <2>2, <2>3, ComparedKept
  <2>5. Has(Label(l))' /\ h.rows = One(Label(l), [db'[Label(l)] EXCEPT !.archived = TRUE])
    BY <1>1, <2>1, <2>4 DEF Has
  <2> QED
    BY <1>1, <1>4, <2>5 DEF NameStands
<1> QED
  BY <1>2, <1>3, <1>4 DEF NameStands

\* A change of labels is still about the labels it has read.
LEMMA LabelsFlyOn ==
    ASSUME NEW f, NEW g, NEW h, Writes(f), Considerate(f), Passes(f, g, h), LabelsStand(g)
    PROVE  LabelsStand(h)'
<1>1. PICK i \in Items, labels \in LabelSets :
         /\ Has(Item(i)) /\ g.rows = LabelRows(i, labels)
         /\ g.op = "AddWorkItemLabels" => db[Labelling(i)] \subseteq labels
         /\ g.op = "RemoveWorkItemLabels" => labels \subseteq db[Labelling(i)]
  BY DEF LabelsStand
<1>2. Item(i) \in DOMAIN g.rows
  <2>1. DOMAIN LabelRows(i, labels) = {Item(i), Event(i), Labelling(i)}
    BY LabelRowsAre
  <2> QED
    BY <1>1, <2>1
<1>3. db'[Item(i)] = db[Item(i)] /\ db'[Labelling(i)] = db[Labelling(i)]
  BY <1>2, LabelsOfCompared
<1>4. LabelRows(i, labels)' = LabelRows(i, labels)
  BY <1>3 DEF LabelRows, ItemRows
<1>5. /\ Has(Item(i))' /\ h.rows = LabelRows(i, labels)'
      /\ h.op = "AddWorkItemLabels" => db'[Labelling(i)] \subseteq labels
      /\ h.op = "RemoveWorkItemLabels" => labels \subseteq db'[Labelling(i)]
  BY <1>1, <1>3, <1>4 DEF Has, Passes
<1>6. h.op \in LabelOps
  BY DEF Passes, LabelsStand
<1> QED
  BY <1>5, <1>6 DEF LabelsStand, LabelOps, LabelSets

\* A note is still the one the command was compiled from.
LEMMA NoteFliesOn ==
    ASSUME NEW f, NEW g, NEW h, Writes(f), Passes(f, g, h), NoteStands(g)
    PROVE  NoteStands(h)'
<1>1. PICK i \in Items, doc \in Documents :
         /\ g.rows = One(Note(i), doc)
         /\ g.op = "AppendBlocks" /\ Has(Note(i)) =>
               \A x \in DOMAIN db[Note(i)] : doc[x] = db[Note(i)][x]
  BY DEF NoteStands
<1>2. Note(i) \in DOMAIN g.rows
  <2>1. DOMAIN g.rows = {Note(i)}
    BY <1>1, OneIs
  <2> QED
    BY <2>1
<1>3. Note(i) \in Keys /\ Note(i)[1] = "work_item_note"
  BY ItemKeys
<1>4. db'[Note(i)] = db[Note(i)]
  BY <1>2, <1>3, ComparedKept
<1>5. /\ h.rows = One(Note(i), doc)
      /\ h.op = "AppendBlocks" /\ Has(Note(i))' =>
            \A x \in DOMAIN db'[Note(i)] : doc[x] = db'[Note(i)][x]
  BY <1>1, <1>4 DEF Passes, Has
<1>6. h.op \in NoteOps
  BY DEF Passes, NoteStands
<1> QED
  BY <1>5, <1>6 DEF NoteStands, NoteOps, Documents

\* A relation is still there, or still not, and its cycle check still holds.
LEMMA RelationsFlyOn ==
    ASSUME NEW f, NEW g, NEW h, Writes(f), Considerate(f), Passes(f, g, h), RelationStands(g)
    PROVE  RelationStands(h)'
<1>1. h.op = g.op /\ h.rows = g.rows
  BY DEF Passes
<1>2. CASE g.op = "CreateRelation"
  <2>1. PICK e \in Edges :
           /\ ~Has(Relation(e)) /\ g.rows = One(Relation(e), "unresolved")
           /\ "edges" \notin g.unseen => ~ClosesCycle(e)
    BY <1>2 DEF RelationStands
  <2>2. Relation(e) \in DOMAIN g.rows /\ Relation(e) \in Keys /\ Relation(e)[1] = "relation"
    <3>1. DOMAIN g.rows = {Relation(e)}
      BY <2>1, OneIs
    <3> QED
      BY <3>1, OtherKeys
  <2>3. db'[Relation(e)] = db[Relation(e)]
    BY <2>2, ComparedKept
  <2>4. ASSUME "edges" \notin h.unseen PROVE ~ClosesCycle(e)'
    <3>1. "edges" \notin g.unseen /\ BlockingLinks' \subseteq BlockingLinks
      BY <2>4 DEF Considerate, Passes, Draws
    <3>2. PICK T \in SUBSET Items :
             /\ e[2] \in T /\ e[1] \notin T
             /\ \A link \in BlockingLinks : link[1] \in T => link[2] \in T
      BY <2>1, <3>1 DEF ClosesCycle, Reaches
    <3>3. \A link \in BlockingLinks' : link[1] \in T => link[2] \in T
      BY <3>1, <3>2
    <3> QED
      BY <3>2, <3>3 DEF ClosesCycle, Reaches
  <2> QED
    BY <1>1, <1>2, <2>1, <2>3, <2>4 DEF RelationStands, Has
<1>3. CASE g.op = "ResolveDependency"
  <2>1. PICK e \in Edges :
           Has(Relation(e)) /\ g.rows = One(Relation(e), "confirmed_not_required")
    BY <1>3 DEF RelationStands
  <2>2. Relation(e) \in DOMAIN g.rows /\ Relation(e) \in Keys /\ Relation(e)[1] = "relation"
    <3>1. DOMAIN g.rows = {Relation(e)}
      BY <2>1, OneIs
    <3> QED
      BY <3>1, OtherKeys
  <2>3. db'[Relation(e)] = db[Relation(e)]
    BY <2>2, ComparedKept
  <2> QED
    BY <1>1, <1>3, <2>1, <2>3 DEF RelationStands, Has
<1>4. CASE g.op = "RemoveRelation"
  BY <1>1, <1>4 DEF RelationStands
<1> QED
  BY <1>2, <1>3, <1>4 DEF RelationStands

\* Whatever stands and lost none of its rows stands after another landed.
LEMMA FlyingOn ==
    ASSUME Tabled, NEW f, NEW g, NEW h, Writes(f), Considerate(f), Passes(f, g, h), Stands(g)
    PROVE  Stands(h)'
  BY ProjectFliesOn, ItemFliesOn, EditFliesOn, NamesFlyOn, LabelsFlyOn, NoteFliesOn,
     RelationsFlyOn DEF Stands

----------------------------------------------------------------------------
(* Steps *)

\* The rows are sound as long as neither they nor the blind items change.
LEMMA SoundUnchanged ==
    ASSUME Sound, UNCHANGED <<db, blind>>, down' = "hung" => blind \cap Items # {}
    PROVE  Sound'
<1>1. \A x : Up(x)' = Up(x)
  BY DEF Up, Has
<1>2. Counted' /\ NumbersAreUnique' /\ NamesSound' /\ EventsSound'
  BY DEF Sound, TreeSound, Counted, NumbersAreUnique, NamesSound, Indexed, NamesAreUnique,
         EventsSound, EventsShowRows, LabelledExist, Has, Told
<1>3. Parented'
  BY <1>1 DEF Sound, TreeSound, Parented, FoundParent, Has
<1>4. ThreeLevels'
  BY <1>1 DEF Sound, TreeSound, ThreeLevels
<1>5. CheckedEdges' \subseteq CheckedEdges
  BY DEF CheckedEdges, Has, Blocking, BlockingTypes
<1>6. CheckedEdgesAcyclic'
  BY <1>5, EdgesStay DEF Sound
<1>7. down' = "hung" => blind' \cap Items # {}
  OBVIOUS
<1> QED
  BY <1>2, <1>3, <1>4, <1>6, <1>7 DEF Sound, TreeSound

\* Nothing in flight is written.
LEMMA ElsewhereUnchanged ==
    ASSUME Tabled, NEW g, Stands(g), UNCHANGED db
    PROVE  Stands(g)'
<1> DEFINE f == [op |-> "none", rows |-> <<>>]
<1>1. DOMAIN f.rows = {} /\ f.op = "none"
  OBVIOUS
<1>2. Places(f.op) = {} /\ Draws(f.op) = {}
  BY <1>1 DEF Places, Draws
<1> HIDE DEF f
<1>3. Writes(f)
  BY <1>1 DEF Writes, Written, Tabled
<1>4. \A i \in Items : Up(i)' = Up(i) /\ (Has(Item(i))' <=> Has(Item(i)))
  BY DEF Up, Has
<1>5. BlockingLinks' \subseteq BlockingLinks
  BY DEF BlockingLinks, Has, Blocking, BlockingTypes
<1>6. Considerate(f)
  BY <1>1, <1>4, <1>5 DEF Considerate
<1>7. g.unseen = g.unseen \cup Places(f.op) \cup Draws(f.op)
  BY <1>2
<1>8. Passes(f, g, g)
  BY <1>1, <1>7 DEF Passes, Compared
<1> QED
  BY <1>3, <1>6, <1>8, FlyingOn

\* A new flight, and one that is overtaken.
LEMMA FlightIs ==
    ASSUME NEW op, NEW rows
    PROVE  /\ DOMAIN Flight(op, rows) = {"op", "rows", "lost", "unseen"}
           /\ Flight(op, rows).op = op /\ Flight(op, rows).rows = rows
           /\ Flight(op, rows).unseen = {} /\ Flight(op, rows).lost \in BOOLEAN
  BY DEF Flight

\* A request without a command has nothing to lose.
LEMMA NoFlightFlies == Flies(NoFlight) /\ NoFlight.op = "none"
<1>1. DOMAIN (<<>>) = {}
  OBVIOUS
<1> QED
  BY <1>1 DEF NoFlight, Flight, Flies

\* A command that was just compiled has lost nothing and saw everything.
LEMMA FlightFlies ==
    ASSUME NEW op, NEW rows, InTables(rows), op # "PushLabels"
    PROVE  Flies(Flight(op, rows))
  BY FlightIs DEF InTables, Flies

\* The effect of another commit on a request.
Hurt(g, op, rows) ==
    [g EXCEPT !.lost = @ \/ Compared(rows) \cap Compared(g.rows) # {},
              !.unseen = @ \cup Places(op) \cup Draws(op)]

\* A commit changes what another command lost and did not see;
LEMMA HurtIs ==
    ASSUME NEW g, Flies(g), NEW op, NEW rows
    PROVE  /\ DOMAIN Hurt(g, op, rows) = {"op", "rows", "lost", "unseen"}
           /\ Hurt(g, op, rows).op = g.op /\ Hurt(g, op, rows).rows = g.rows
           /\ Hurt(g, op, rows).unseen = g.unseen \cup Places(op) \cup Draws(op)
<1> DEFINE u == g.unseen \cup Places(op) \cup Draws(op)
           l == g.lost \/ Compared(rows) \cap Compared(g.rows) # {}
<1>1. Hurt(g, op, rows) = [g EXCEPT !.lost = l, !.unseen = u]
  BY DEF Hurt
<1>2. DOMAIN g = {"op", "rows", "lost", "unseen"}
  BY DEF Flies
<1> HIDE DEF u, l
<1>3. /\ DOMAIN Hurt(g, op, rows) = {"op", "rows", "lost", "unseen"}
      /\ Hurt(g, op, rows).op = g.op /\ Hurt(g, op, rows).rows = g.rows
      /\ Hurt(g, op, rows).unseen = u
  BY <1>1, <1>2
<1> QED
  BY <1>3 DEF u

\* it loses exactly when one of the rows it compares was written,
LEMMA HurtIsLost ==
    ASSUME NEW g, Flies(g), NEW op, NEW rows
    PROVE  Hurt(g, op, rows).lost = (g.lost \/ Compared(rows) \cap Compared(g.rows) # {})
<1> DEFINE u == g.unseen \cup Places(op) \cup Draws(op)
           l == g.lost \/ Compared(rows) \cap Compared(g.rows) # {}
<1>1. Hurt(g, op, rows) = [g EXCEPT !.lost = l, !.unseen = u]
  BY DEF Hurt
<1>2. DOMAIN g = {"op", "rows", "lost", "unseen"}
  BY DEF Flies
<1> HIDE DEF u, l
<1>3. Hurt(g, op, rows).lost = l
  BY <1>1, <1>2
<1> QED
  BY <1>3 DEF l

\* its types are kept.
LEMMA HurtFlies ==
    ASSUME NEW g, Flies(g), NEW op, NEW rows
    PROVE  Flies(Hurt(g, op, rows))
<1> DEFINE h == Hurt(g, op, rows)
<1>1. /\ DOMAIN h = {"op", "rows", "lost", "unseen"}
      /\ h.op = g.op /\ h.rows = g.rows
      /\ h.unseen = g.unseen \cup Places(op) \cup Draws(op)
  BY HurtIs
<1>2. h.lost = (g.lost \/ Compared(rows) \cap Compared(g.rows) # {})
  BY HurtIsLost
<1>3. g.lost \in BOOLEAN
  BY DEF Flies
<1>4. h.lost \in BOOLEAN
  BY <1>2, <1>3
<1> HIDE DEF h
<1>5. h.unseen \subseteq {"tree", "edges"}
  BY <1>1 DEF Flies, Places, Draws
<1>6. Flies(h)
  BY <1>1, <1>4, <1>5 DEF Flies
<1> QED
  BY <1>6 DEF h

\* Another request that was not lost to the commit of f.
LEMMA HurtPasses ==
    ASSUME NEW f, NEW g, Flies(g), ~Hurt(g, f.op, f.rows).lost
    PROVE  ~g.lost /\ Passes(f, g, Hurt(g, f.op, f.rows))
<1> DEFINE h == Hurt(g, f.op, f.rows)
<1>1. h.lost = (g.lost \/ Compared(f.rows) \cap Compared(g.rows) # {})
  BY HurtIsLost
<1>2. ~g.lost /\ Compared(f.rows) \cap Compared(g.rows) = {}
  BY <1>1
<1>3. /\ h.op = g.op /\ h.rows = g.rows
      /\ h.unseen = g.unseen \cup Places(f.op) \cup Draws(f.op)
  BY HurtIs
<1> QED
  BY <1>2, <1>3 DEF Passes

\* What every step does.
Kept ==
    /\ SpaceInv'
    /\ \A r \in Requests : ~Idle(r) /\ Idle(r)' => UndoesNothing(flight[r].op)

Flown(g) == Flies(g) /\ (g.op # "none" /\ ~g.lost => Stands(g))

Others ==
    /\ blind \subseteq Items \cup Edges /\ down \in {"no", "jammed", "hung"}
    /\ repertoire \in Repertoires

\* The invariant, and what it comes from.
LEMMA InvIs ==
    ASSUME SpaceInv
    PROVE  /\ Good /\ Sound /\ DOMAIN flight = Requests
           /\ \A r \in Requests : Flown(flight[r])
           /\ Others
  BY DEF SpaceInv, TypeOK, Good, Tabled, Sound, Flown, Idle, Others

\* The invariant from the soundness of the rows and of each command ...
LEMMA InvFrom ==
    ASSUME Tabled, Sound, DOMAIN flight = Requests, \A r \in Requests : Flown(flight[r]),
           Others
    PROVE  SpaceInv
  BY DEF SpaceInv, Others, TypeOK, Tabled, Flown, Flies, Idle

\* ... and in the next state.
LEMMA InvNext ==
    ASSUME Tabled', Sound', DOMAIN flight' = Requests,
           \A r \in Requests : Flown(flight[r])', Others'
    PROVE  SpaceInv'
<1>1. (DOMAIN flight = Requests)' /\ (\A r \in Requests : Flown(flight[r]))'
  OBVIOUS
<1> QED
  BY <1>1, InvFrom, PTL

\* The structure holds in a Space that is not down.
LEMMA SoundFrom ==
    ASSUME StructureStays, down' = "no"
    PROVE  Sound'
  BY DEF StructureStays, Sound

\* A command in flight flies on while no row changes.
LEMMA FlownOn ==
    ASSUME Tabled, NEW g, Flown(g), UNCHANGED db
    PROVE  Flown(g)'
<1>1. Flies(g)'
  BY DEF Flown, Flies
<1>2. g.op # "none" /\ ~g.lost => Stands(g)'
  BY ElsewhereUnchanged DEF Flown
<1> QED
  BY <1>1, <1>2 DEF Flown

\* An online command that stands flies until it commits (build_task_space_request).
LEMMA StagePreserves ==
    ASSUME SpaceInv, NEW r \in Requests, NEW op, NEW rows, Stage(r, op, rows),
           Stands(Flight(op, rows)), op \notin {"none", "PushLabels"},
           UNCHANGED <<down, repertoire>>
    PROVE  Kept
<1>1. /\ Good /\ Sound /\ DOMAIN flight = Requests
      /\ \A q \in Requests : Flown(flight[q])
      /\ Others
  BY InvIs
<1>2. UNCHANGED <<db, blind, down>> /\ UNCHANGED repertoire
  BY DEF Stage
<1>3. Tabled /\ Tabled'
  BY <1>1, <1>2 DEF Good, Tabled, Keys, Item, Labelling, Note, Event, Project, Label, Name,
                    Relation, Tombstone
<1>4. Sound'
  BY <1>1, <1>2, SoundUnchanged DEF Sound
<1>5. DOMAIN flight' = Requests
  BY <1>1 DEF Stage
<1> DEFINE new == Flight(op, rows)
<1>6. flight'[r] = new /\ \A q \in Requests \ {r} : flight'[q] = flight[q]
  BY <1>1 DEF Stage
<1>7. InTables(rows) /\ Flies(new) /\ new.op = op
  <2>1. new.rows = rows /\ new.op = op
    BY FlightIs
  <2>2. InTables(rows)
    BY <1>3, <2>1, StandingIsTyped
  <2> QED
    BY <2>1, <2>2, FlightFlies
<1>8. Flown(new)
  BY <1>7 DEF Flown
<1> HIDE DEF new
<1>9. \A q \in Requests : Flown(flight[q])'
  <2> SUFFICES ASSUME NEW q \in Requests PROVE Flown(flight[q])'
    OBVIOUS
  <2>1. PICK g : g = flight'[q]
    OBVIOUS
  <2>2. Flown(g)
    BY <1>1, <1>6, <1>8, <2>1
  <2>3. Flown(g)'
    BY <1>2, <1>3, <2>2, FlownOn
  <2> QED
    BY <2>1, <2>3
<1>10. SpaceInv'
  <2>1. Others'
    BY <1>1, <1>2 DEF Others
  <2> QED
    BY <1>3, <1>4, <1>5, <1>9, <2>1, InvNext
<1>11. \A q \in Requests : ~Idle(q) => ~Idle(q)'
  BY <1>6, <1>7 DEF Idle
<1> QED
  BY <1>10, <1>11 DEF Kept

\* While all are idle, only the rows matter.
LEMMA AlonePreserves ==
    ASSUME SpaceInv, Alone, UNCHANGED flight, Tabled', StructureStays, Others',
           down' = "no"
    PROVE  Kept
<1>1. DOMAIN flight = Requests /\ \A r \in Requests : Flown(flight[r])
  BY InvIs
<1>2. ASSUME NEW r \in Requests
      PROVE  Flown(flight[r])'
  <2>1. PICK g : g = flight'[r]
    OBVIOUS
  <2>2. Flown(g) /\ g.op = "none"
    BY <1>1, <2>1 DEF Alone, Idle
  <2>3. Flown(g)'
    BY <2>2 DEF Flown, Flies
  <2> QED
    BY <2>1, <2>3
<1>3. SpaceInv'
  BY <1>1, <1>2, SoundFrom, InvNext
<1>4. \A r \in Requests : Idle(r)
  BY DEF Alone
<1> QED
  BY <1>3, <1>4 DEF Kept

\* A pushed command lands as it is compiled, with no online request in flight.
LEMMA ReplayPreserves ==
    ASSUME SpaceInv, NEW op, NEW rows, Replay(op, rows), Stands(Flight(op, rows)),
           UNCHANGED <<down, repertoire>>, down = "no"
    PROVE  Kept
<1> DEFINE f == Flight(op, rows)
<1>1. Good /\ Others
  BY InvIs
<1>2. f.op = op /\ f.rows = rows /\ f.unseen = {}
  BY FlightIs
<1>3. Stands(f)
  OBVIOUS
<1> HIDE DEF f
<1>4. Lands(f)
  BY <1>2 DEF Lands, Writes, Written, Replay, Unseen
<1>5. InTables(f.rows)
  BY <1>1, <1>3, StandingIsTyped DEF Good
<1>6. Tabled' /\ StructureStays
  BY <1>1, <1>3, <1>4, <1>5, Landing
<1>7. Others'
  BY <1>1 DEF Others, Replay
<1> QED
  BY <1>6, <1>7, AlonePreserves DEF Replay

\* So does a pushed relation, which no compiler checks.
LEMMA PushPreserves ==
    ASSUME SpaceInv, down = "no", Alone, NEW e \in Edges, PushRelation(e) \/ PushRemoval(e),
           UNCHANGED <<flight, down, repertoire>>
    PROVE  Kept
<1>1. Good /\ Others
  BY InvIs
<1>2. Tabled' /\ StructureStays
  BY <1>1, PushLands, PushIsTyped DEF Good
<1>3. Others'
  BY <1>1 DEF Others, PushRelation, PushRemoval
<1> QED
  BY <1>2, <1>3, AlonePreserves

\* The commit of a command in flight (DbMutationInterpreter.apply).
LEMMA CommitPreserves ==
    ASSUME SpaceInv, NEW r \in Requests, Commit(r)
    PROVE  Kept
<1>1. /\ Good /\ DOMAIN flight = Requests /\ Others
      /\ \A q \in Requests : Flown(flight[q])
  BY InvIs
<1> PICK f : f = flight[r]
  OBVIOUS
<1>2. /\ down = "no" /\ f.op # "none" /\ ~f.lost
      /\ db' = Written(f.rows)
      /\ flight' = [q \in Requests |-> IF q = r THEN NoFlight ELSE Overtaken(q, f.op, f.rows)]
      /\ blind' = IF Unseen(f) THEN blind \cup Subjects(f.op, f.rows)
                               ELSE blind \ Subjects(f.op, f.rows)
      /\ down' = down /\ repertoire' = repertoire
  BY DEF Commit, Idle
<1>3. Flies(f) /\ Stands(f)
  BY <1>1, <1>2 DEF Flown
<1>4. Lands(f)
  BY <1>2 DEF Lands, Writes, Written
<1>5. InTables(f.rows) /\ f.op # "PushLabels"
  BY <1>3 DEF Flies, InTables
<1>6. Tabled' /\ StructureStays /\ Considerate(f) /\ UndoesNothing(f.op)
  BY <1>1, <1>3, <1>4, <1>5, Landing
<1>7. flight'[r] = NoFlight
  BY <1>2
<1>8. \A q \in Requests \ {r} :
         flight'[q] = IF flight[q].op = "none" THEN NoFlight ELSE Hurt(flight[q], f.op, f.rows)
  BY <1>2 DEF Overtaken, Hurt, Idle
<1>9. Flown(NoFlight)'
  BY NoFlightFlies DEF Flown, Flies
<1>10. ASSUME NEW q \in Requests PROVE Flown(flight[q])'
  <2>1. PICK g, h : g = flight[q] /\ h = flight'[q]
    OBVIOUS
  <2>2. Flown(g)
    BY <1>1, <2>1
  <2>3. CASE q = r \/ g.op = "none"
    BY <1>7, <1>8, <1>9, <2>1, <2>3
  <2>4. CASE q # r /\ g.op # "none"
    <3>1. h = Hurt(g, f.op, f.rows)
      BY <1>8, <2>1, <2>4
    <3>2. Flies(h)
      BY <2>2, <3>1, HurtFlies DEF Flown
    <3>3. ASSUME ~h.lost PROVE Stands(h)'
      <4>1. ~g.lost /\ Passes(f, g, h)
        BY <2>2, <3>1, <3>3, HurtPasses DEF Flown
      <4>2. Stands(g)
        BY <2>2, <2>4, <4>1 DEF Flown
      <4> QED
        BY <1>1, <1>4, <1>6, <4>1, <4>2, FlyingOn DEF Good, Lands
    <3>4. Flies(h)'
      BY <3>2 DEF Flies
    <3>5. Flown(h)'
      BY <3>3, <3>4 DEF Flown
    <3> QED
      BY <2>1, <3>5
  <2> QED
    BY <2>3, <2>4
<1>11. Others'
  <2>1. Subjects(f.op, f.rows) \subseteq Items \cup Edges
    BY DEF Subjects
  <2> QED
    BY <1>1, <1>2, <2>1 DEF Others
<1>12. SpaceInv'
  <2>1. DOMAIN flight' = Requests
    BY <1>2
  <2>2. Sound'
    BY <1>2, <1>6, SoundFrom
  <2> QED
    BY <1>6, <1>10, <1>11, <2>1, <2>2, InvNext
<1>13. ASSUME NEW q \in Requests, ~Idle(q), Idle(q)' PROVE q = r
  <2>1. PICK g : g = flight[q]
    OBVIOUS
  <2> SUFFICES ASSUME q # r PROVE FALSE
    OBVIOUS
  <2>2. flight'[q] = Hurt(g, f.op, f.rows)
    BY <1>8, <1>13, <2>1 DEF Idle
  <2>3. Flies(g)
    BY <1>1, <2>1 DEF Flown
  <2>4. flight'[q].op = g.op
    BY <2>2, <2>3, HurtIs
  <2> QED
    BY <1>13, <2>1, <2>4 DEF Idle
<1> QED
  BY <1>6, <1>12, <1>13 DEF Kept

\* The Space goes down, or nothing happens.
LEMMA DownPreserves ==
    ASSUME SpaceInv, UNCHANGED <<db, flight, blind, repertoire>>,
           down' \in {"no", "jammed", "hung"}, down' = "hung" => blind \cap Items # {}
    PROVE  Kept
<1>1. /\ Good /\ Sound /\ DOMAIN flight = Requests /\ Others
      /\ \A q \in Requests : Flown(flight[q])
  BY InvIs
<1>2. Tabled /\ Tabled'
  BY <1>1 DEF Good, Tabled, Keys, Item, Labelling, Note, Event, Project, Label, Name,
              Relation, Tombstone
<1>3. Sound'
  BY <1>1, SoundUnchanged
<1>4. ASSUME NEW q \in Requests PROVE Flown(flight[q])'
  <2>1. PICK g : g = flight'[q]
    OBVIOUS
  <2>2. Flown(g)
    BY <1>1, <2>1
  <2>3. Flown(g)'
    BY <1>2, <2>2, FlownOn
  <2> QED
    BY <2>1, <2>3
<1>5. Others'
  BY <1>1 DEF Others
<1>6. SpaceInv'
  BY <1>1, <1>2, <1>3, <1>4, <1>5, InvNext
<1>7. \A q \in Requests : Idle(q)' <=> Idle(q)
  BY DEF Idle
<1> QED
  BY <1>6, <1>7 DEF Kept

\* A cycle passes through an item that was placed blindly.
LEMMA CyclesAreBlind ==
    ASSUME Good, NEW i \in Items, OnCycle(i)
    PROVE  blind \cap Items # {}
<1> SUFFICES ASSUME blind \cap Items = {} PROVE FALSE
  OBVIOUS
<1>1. \A a, b, c \in Items : Up(a) = b /\ Up(b) = c => Up(c) = None
  BY DEF Good, TreeSound, ThreeLevels
<1> DEFINE j == Up(i)
           k == Up(j)
           T == {j, k} \cap Items
<1>2. j # None /\ j \in Items /\ k \in Parents /\ None \notin Items
  BY ParentIsTyped, NoneAssumption DEF OnCycle, Parents, Good
<1>3. k # None => Up(k) = None
  BY <1>1, <1>2 DEF Parents
<1>4. i \notin T
  <2>1. i # j
    BY <1>2, <1>3
  <2>2. i # k
    BY <1>2, <1>3
  <2> QED
    BY <2>1, <2>2
<1>5. \A l \in UpLinks : l[1] \in T => l[2] \in T
  <2> SUFFICES ASSUME NEW x \in Items, Up(x) # None, x \in T PROVE Up(x) \in T
    BY DEF UpLinks
  <2>1. x = j
    BY <1>2, <1>3
  <2> QED
    BY <1>2, <2>1 DEF Parents
<1>6. j \in T /\ T \in SUBSET Items
  BY <1>2
<1>7. Reaches(UpLinks, j, i)
  BY DEF OnCycle
<1> QED
  BY <1>4, <1>5, <1>6, <1>7 DEF Reaches

----------------------------------------------------------------------------
(* Commands *)

\* A command that stands when it is compiled: a push commits it, a request stages it.
LEMMA CompilePreserves ==
    ASSUME SpaceInv, NEW client \in Clients, NEW op, NEW rows, Compile(client, op, rows),
           Stands(Flight(op, rows)), op # "none", client = Push \/ op # "PushLabels"
    PROVE  Kept
<1>1. CASE client = Push
  BY <1>1, ReplayPreserves DEF Compile
<1>2. CASE client # Push
  BY <1>2, StagePreserves DEF Compile, Clients
<1> QED
  BY <1>1, <1>2

\* What the repertoire names.
LEMMA Named ==
    ASSUME SpaceInv
    PROVE  /\ repertoire.created \subseteq Items
           /\ repertoire.parents \subseteq Parents
           /\ repertoire.statuses \subseteq Statuses
<1>1. repertoire \in Repertoires
  BY InvIs DEF Others
<1> QED
  BY <1>1, RepertoireAssumption DEF Parents

\* CreateProject.
LEMMA ProjectStep ==
    ASSUME SpaceInv, NEW r \in Requests, NEW p \in Projects, CreateProject(r, p)
    PROVE  Kept
<1> DEFINE op == "CreateProject"
           rows == One(Project(p), [next |-> 1])
           f == Flight(op, rows)
<1>1. Compile(r, op, rows) /\ ~Has(Project(p))
  BY DEF CreateProject
<1>2. f.op = op /\ f.rows = rows
  BY FlightIs
<1>3. Stands(f)
  BY <1>1, <1>2 DEF Stands, ProjectStands
<1> QED
  BY <1>1, <1>3, CompilePreserves DEF Clients

\* CreateWorkItem.
LEMMA CreateStep ==
    ASSUME SpaceInv, NEW r \in Requests, NEW i \in Items, NEW p \in Projects,
           NEW j \in Parents, NEW s \in Statuses, CreateWorkItem(r, i, p, j, s)
    PROVE  Kept
<1> DEFINE op == "CreateWorkItem"
           rows == CreateRows(i, p, j, s)
           f == Flight(op, rows)
<1>1. /\ Compile(r, op, rows) /\ Has(Project(p)) /\ ~Has(Item(i))
      /\ Level(j) < 3 /\ FoundParent(j)
  BY DEF CreateWorkItem, ParentFits, FoundParent
<1>2. f.op = op /\ f.rows = rows
  BY FlightIs
<1>3. Stands(f)
  BY <1>1, <1>2 DEF Stands, ItemStands
<1> QED
  BY <1>1, <1>3, CompilePreserves DEF Clients

\* The parent of an item is found.
LEMMA ParentIsFound ==
    ASSUME SpaceInv, NEW i \in Items, Has(Item(i))
    PROVE  /\ db[Item(i)] \in ItemRow
           /\ FoundParent(db[Item(i)].parent)
<1>1. Good
  BY InvIs
<1>2. db[Item(i)] \in ItemRow
  BY <1>1, RowIsTyped DEF Good
<1>3. FoundParent(Up(i)) /\ i # None
  BY <1>1, NoneAssumption DEF Good, TreeSound, Parented
<1> QED
  BY <1>2, <1>3 DEF Up

\* What the edits of an item have in common: one row of an item that exists.
LEMMA EditStep ==
    ASSUME SpaceInv, NEW client \in Clients, NEW op \in EditOps, NEW i \in Items,
           NEW row \in ItemRow, Compile(client, op, Edited(i, row)), Has(Item(i)),
           Agree(row, db[Item(i)], Fields \ Family(op)), FoundParent(row.parent),
           op = "MoveWorkItem" => row.parent # i /\ FitsUnder(i, row.parent)
    PROVE  Kept
<1> DEFINE f == Flight(op, Edited(i, row))
<1>1. f.op = op /\ f.rows = Edited(i, row)
  BY FlightIs
<1>2. Stands(f)
  BY <1>1 DEF Stands, EditStands
<1>3. op # "none" /\ op # "PushLabels"
  BY DEF EditOps
<1> QED
  BY <1>2, <1>3, CompilePreserves

\* UpdateWorkItem.
LEMMA UpdateStep ==
    ASSUME SpaceInv, NEW client \in Clients, NEW i \in Items, NEW t \in Titles,
           UpdateWorkItem(client, i, t)
    PROVE  Kept
<1> DEFINE row == [db[Item(i)] EXCEPT !.title = t]
<1>1. Has(Item(i)) /\ Compile(client, "UpdateWorkItem", Edited(i, row))
  BY DEF UpdateWorkItem
<1>2. db[Item(i)] \in ItemRow /\ FoundParent(db[Item(i)].parent)
  BY <1>1, ParentIsFound
<1>3. row \in ItemRow /\ row.parent = db[Item(i)].parent
  BY <1>2 DEF ItemRow
<1>4. Agree(row, db[Item(i)], Fields \ {"title"})
  BY <1>2 DEF Agree, Fields, ItemRow
<1>5. Family("UpdateWorkItem") = {"title"} /\ "UpdateWorkItem" \in EditOps
  BY DEF Family, EditOps
<1> HIDE DEF row
<1> QED
  BY <1>1, <1>2, <1>3, <1>4, <1>5, EditStep

\* MoveWorkItem: the new parent fits the row as it was read.
LEMMA MoveStep ==
    ASSUME SpaceInv, NEW client \in Clients, NEW i \in Items, NEW j \in Parents,
           MoveWorkItem(client, i, j)
    PROVE  Kept
<1> DEFINE row == [db[Item(i)] EXCEPT !.parent = j]
<1>1. /\ Has(Item(i)) /\ j # i /\ FoundParent(j) /\ FitsUnder(i, j)
      /\ Compile(client, "MoveWorkItem", Edited(i, row))
  BY DEF MoveWorkItem, MoveTarget, ParentFits, FoundParent
<1>2. db[Item(i)] \in ItemRow
  BY <1>1, ParentIsFound
<1>3. row \in ItemRow /\ row.parent = j
  BY <1>2 DEF ItemRow, Parents
<1>4. Agree(row, db[Item(i)], Fields \ {"parent"})
  BY <1>2 DEF Agree, Fields, ItemRow
<1>5. Family("MoveWorkItem") = {"parent"} /\ "MoveWorkItem" \in EditOps
  BY DEF Family, EditOps
<1> HIDE DEF row
<1> QED
  BY <1>1, <1>2, <1>3, <1>4, <1>5, EditStep

\* TransitionWorkItem.
LEMMA TransitionStep ==
    ASSUME SpaceInv, NEW client \in Clients, NEW i \in Items, NEW s \in Statuses,
           TransitionWorkItem(client, i, s)
    PROVE  Kept
<1> DEFINE row == Moved(db[Item(i)], s)
<1>1. Has(Item(i)) /\ Compile(client, "TransitionWorkItem", Edited(i, row))
  BY DEF TransitionWorkItem
<1>2. db[Item(i)] \in ItemRow /\ FoundParent(db[Item(i)].parent)
  BY <1>1, ParentIsFound
<1>3. PICK pre \in Statuses \cup {None} : row = [db[Item(i)] EXCEPT !.status = s, !.pre = pre]
  BY <1>2 DEF Moved, ItemRow
<1>4. row \in ItemRow /\ row.parent = db[Item(i)].parent
  BY <1>2, <1>3 DEF ItemRow
<1>5. Agree(row, db[Item(i)], Fields \ {"status", "pre"})
  BY <1>2, <1>3 DEF Agree, Fields, ItemRow
<1>6. Family("TransitionWorkItem") = {"status", "pre"} /\ "TransitionWorkItem" \in EditOps
  BY DEF Family, EditOps
<1> HIDE DEF row
<1> QED
  BY <1>1, <1>2, <1>4, <1>5, <1>6, EditStep

\* TrashWorkItem and RestoreWorkItem.
LEMMA ArchivedStep ==
    ASSUME SpaceInv, NEW client \in Clients, NEW op \in {"TrashWorkItem", "RestoreWorkItem"},
           NEW i \in Items, NEW archived \in BOOLEAN, SetArchived(client, op, i, archived)
    PROVE  Kept
<1> DEFINE row == [db[Item(i)] EXCEPT !.archived = archived]
<1>1. Has(Item(i)) /\ Compile(client, op, Edited(i, row))
  BY DEF SetArchived
<1>2. db[Item(i)] \in ItemRow /\ FoundParent(db[Item(i)].parent)
  BY <1>1, ParentIsFound
<1>3. row \in ItemRow /\ row.parent = db[Item(i)].parent
  BY <1>2 DEF ItemRow
<1>4. Agree(row, db[Item(i)], Fields \ {"archived"})
  BY <1>2 DEF Agree, Fields, ItemRow
<1>5. Family(op) = {"archived"} /\ op \in EditOps /\ op # "MoveWorkItem"
  BY DEF Family, EditOps
<1> HIDE DEF row
<1> QED
  BY <1>1, <1>2, <1>3, <1>4, <1>5, EditStep

\* CreateLabel, UpdateLabel and ArchiveLabel.
LEMMA NamesStep ==
    ASSUME SpaceInv, NEW r \in Requests, NEW l \in Labels,
           \/ ArchiveLabel(r, l)
           \/ \E n \in Names : CreateLabel(r, l, n) \/ UpdateLabel(r, l, n)
    PROVE  Kept
<1>1. ASSUME ArchiveLabel(r, l) PROVE Kept
  <2> DEFINE rows == One(Label(l), [db[Label(l)] EXCEPT !.archived = TRUE])
             f == Flight("ArchiveLabel", rows)
  <2>1. f.op = "ArchiveLabel" /\ f.rows = rows
    BY FlightIs
  <2>2. Stands(f)
    BY <1>1, <2>1 DEF Stands, NameStands, ArchiveLabel
  <2> QED
    BY <1>1, <2>2, CompilePreserves DEF ArchiveLabel, Clients
<1>2. ASSUME NEW n \in Names, CreateLabel(r, l, n) PROVE Kept
  <2> DEFINE rows == With(One(Name(n), l), Label(l), [name |-> n, archived |-> FALSE])
             f == Flight("CreateLabel", rows)
  <2>1. f.op = "CreateLabel" /\ f.rows = rows
    BY FlightIs
  <2>2. Stands(f)
    BY <1>2, <2>1 DEF Stands, NameStands, CreateLabel
  <2> QED
    BY <1>2, <2>2, CompilePreserves DEF CreateLabel, Clients
<1>3. ASSUME NEW n \in Names, UpdateLabel(r, l, n) PROVE Kept
  <2> DEFINE rows == With(With(One(Name(db[Label(l)].name), None), Name(n), l),
                          Label(l), [db[Label(l)] EXCEPT !.name = n])
             f == Flight("UpdateLabel", rows)
  <2>1. f.op = "UpdateLabel" /\ f.rows = rows
    BY FlightIs
  <2>2. /\ Has(Label(l)) /\ (Has(Name(n)) => n = db[Label(l)].name)
        /\ Compile(r, "UpdateLabel", rows)
    BY <1>3 DEF UpdateLabel
  <2>3. Stands(f)
    BY <2>1, <2>2 DEF Stands, NameStands
  <2> QED
    BY <2>2, <2>3, CompilePreserves DEF Clients
<1> QED
  BY <1>1, <1>2, <1>3

\* What the commands on the labels of an item have in common.
LEMMA SetLabelsStep ==
    ASSUME SpaceInv, NEW client \in Clients, NEW op \in LabelOps, NEW i \in Items,
           NEW labels \in LabelSets, SetLabels(client, op, i, labels),
           client = Push \/ op # "PushLabels",
           op = "AddWorkItemLabels" => db[Labelling(i)] \subseteq labels,
           op = "RemoveWorkItemLabels" => labels \subseteq db[Labelling(i)]
    PROVE  Kept
<1> DEFINE f == Flight(op, LabelRows(i, labels))
<1>1. f.op = op /\ f.rows = LabelRows(i, labels)
  BY FlightIs
<1>2. Has(Item(i)) /\ Compile(client, op, LabelRows(i, labels))
  BY DEF SetLabels
<1>3. Stands(f)
  BY <1>1, <1>2 DEF Stands, LabelsStand
<1>4. op # "none"
  BY DEF LabelOps
<1> QED
  BY <1>2, <1>3, <1>4, CompilePreserves

\* AddWorkItemLabels, RemoveWorkItemLabels and pushed labels.
LEMMA LabelsStep ==
    ASSUME SpaceInv, NEW i \in Items, NEW ls \in SUBSET Labels,
           \/ \E r \in Requests : AddWorkItemLabels(r, i, ls) \/ RemoveWorkItemLabels(r, i, ls)
           \/ SetLabels(Push, "PushLabels", i, ls)
    PROVE  Kept
<1>1. db[Labelling(i)] \in LabelSets
  BY InvIs, ItemIsTyped DEF Good
<1>2. ASSUME NEW r \in Requests, AddWorkItemLabels(r, i, ls) PROVE Kept
  <2> DEFINE labels == db[Labelling(i)] \cup ls
  <2>1. labels \in LabelSets /\ db[Labelling(i)] \subseteq labels
    BY <1>1 DEF LabelSets
  <2>2. SetLabels(r, "AddWorkItemLabels", i, labels)
    BY <1>2 DEF AddWorkItemLabels
  <2>3. "AddWorkItemLabels" \in LabelOps /\ r \in Clients
    BY DEF LabelOps, Clients
  <2> HIDE DEF labels
  <2> QED
    BY <2>1, <2>2, <2>3, SetLabelsStep
<1>3. ASSUME NEW r \in Requests, RemoveWorkItemLabels(r, i, ls) PROVE Kept
  <2> DEFINE labels == db[Labelling(i)] \ ls
  <2>1. labels \in LabelSets /\ labels \subseteq db[Labelling(i)]
    BY <1>1 DEF LabelSets
  <2>2. SetLabels(r, "RemoveWorkItemLabels", i, labels)
    BY <1>3 DEF RemoveWorkItemLabels
  <2>3. "RemoveWorkItemLabels" \in LabelOps /\ r \in Clients
    BY DEF LabelOps, Clients
  <2> HIDE DEF labels
  <2> QED
    BY <2>1, <2>2, <2>3, SetLabelsStep
<1>4. ASSUME SetLabels(Push, "PushLabels", i, ls) PROVE Kept
  <2>1. "PushLabels" \in LabelOps /\ Push \in Clients /\ ls \in LabelSets
    BY DEF LabelOps, Clients, LabelSets
  <2> QED
    BY <1>4, <2>1, SetLabelsStep
<1> QED
  BY <1>2, <1>3, <1>4

\* What the commands on notes have in common.
LEMMA NoteStep ==
    ASSUME SpaceInv, NEW client \in Clients, NEW op \in NoteOps, NEW i \in Items,
           NEW doc \in Documents, WriteNote(client, op, i, doc),
           op = "AppendBlocks" /\ Has(Note(i)) =>
               \A x \in DOMAIN db[Note(i)] : doc[x] = db[Note(i)][x]
    PROVE  Kept
<1> DEFINE f == Flight(op, One(Note(i), doc))
<1>1. f.op = op /\ f.rows = One(Note(i), doc)
  BY FlightIs
<1>2. Compile(client, op, One(Note(i), doc))
  BY DEF WriteNote
<1>3. Stands(f)
  BY <1>1, <1>2 DEF Stands, NoteStands
<1>4. op # "none" /\ op # "PushLabels"
  BY DEF NoteOps
<1> QED
  BY <1>2, <1>3, <1>4, CompilePreserves

\* A document with one more block, and with one that is ticked.
LEMMA Documented ==
    ASSUME NEW doc \in Documents, NEW b \in Blocks, NEW checked \in BOOLEAN
    PROVE  /\ With(doc, b, checked) \in Documents
           /\ b \in DOMAIN doc => [doc EXCEPT ![b] = checked] \in Documents
<1>1. PICK S \in SUBSET Blocks : doc \in [S -> BOOLEAN]
  BY DEF Documents
<1>2. With(doc, b, checked) \in [S \cup {b} -> BOOLEAN]
  BY <1>1 DEF With
<1>3. b \in DOMAIN doc => [doc EXCEPT ![b] = checked] \in [S -> BOOLEAN]
  BY <1>1
<1>4. S \cup {b} \in SUBSET Blocks
  OBVIOUS
<1> QED
  BY <1>2, <1>3, <1>4 DEF Documents

\* ReplaceDocument, AppendBlocks, ToggleChecklistItem and pushed notes.
LEMMA NotesStep ==
    ASSUME SpaceInv, NoteCommand
    PROVE  Kept
<1>1. {"ReplaceDocument", "AppendBlocks", "ToggleChecklistItem"} \subseteq NoteOps
  BY DEF NoteOps
<1>2. ASSUME NEW i \in Items, NEW doc \in Documents, NEW r \in Requests,
             ReplaceDocument(r, i, doc)
      PROVE  Kept
  BY <1>1, <1>2, NoteStep DEF ReplaceDocument, Clients
<1>3. ASSUME NEW i \in Items, NEW doc \in Documents, PushNote(i, doc) PROVE Kept
  BY <1>1, <1>3, NoteStep DEF PushNote, Clients
<1>4. ASSUME NEW i \in Items, Has(Note(i)) PROVE db[Note(i)] \in Documents
  BY <1>4, InvIs, ItemIsTyped DEF Good, Has
<1>5. ASSUME NEW i \in Items, NEW r \in Requests, NEW b \in Blocks, AppendBlocks(r, i, b)
      PROVE  Kept
  <2>1. /\ Has(Note(i)) /\ b \notin DOMAIN db[Note(i)]
        /\ WriteNote(r, "AppendBlocks", i, With(db[Note(i)], b, FALSE))
    BY <1>5 DEF AppendBlocks
  <2>2. With(db[Note(i)], b, FALSE) \in Documents
    BY <1>4, <2>1, Documented
  <2>3. \A x \in DOMAIN db[Note(i)] : With(db[Note(i)], b, FALSE)[x] = db[Note(i)][x]
    BY <2>1 DEF With
  <2> QED
    BY <1>1, <2>1, <2>2, <2>3, NoteStep DEF Clients
<1>6. ASSUME NEW i \in Items, NEW r \in Requests, NEW b \in Blocks, NEW checked \in BOOLEAN,
             ToggleChecklistItem(r, i, b, checked)
      PROVE  Kept
  <2>1. /\ Has(Note(i)) /\ b \in DOMAIN db[Note(i)]
        /\ WriteNote(r, "ToggleChecklistItem", i, [db[Note(i)] EXCEPT ![b] = checked])
    BY <1>6 DEF ToggleChecklistItem
  <2>2. [db[Note(i)] EXCEPT ![b] = checked] \in Documents
    BY <1>4, <2>1, Documented
  <2> QED
    BY <1>1, <2>1, <2>2, NoteStep DEF Clients
<1> QED
  BY <1>2, <1>3, <1>5, <1>6 DEF NoteCommand

\* CreateRelation, ResolveDependency, RemoveRelation, and pushed relations.
LEMMA RelationsStep ==
    ASSUME SpaceInv, RelationCommand
    PROVE  Kept
<1>1. ASSUME NEW e \in Edges, NEW r \in Requests, CreateRelation(r, e) PROVE Kept
  <2> DEFINE rows == One(Relation(e), "unresolved")
             f == Flight("CreateRelation", rows)
  <2>1. f.op = "CreateRelation" /\ f.rows = rows
    BY FlightIs
  <2>2. ~Has(Relation(e)) /\ ~ClosesCycle(e) /\ Compile(r, "CreateRelation", rows)
    BY <1>1 DEF CreateRelation
  <2>3. Stands(f)
    BY <2>1, <2>2 DEF Stands, RelationStands
  <2> QED
    BY <2>2, <2>3, CompilePreserves DEF Clients
<1>2. ASSUME NEW e \in Edges, NEW r \in Requests, ResolveDependency(r, e) PROVE Kept
  <2> DEFINE rows == One(Relation(e), "confirmed_not_required")
             f == Flight("ResolveDependency", rows)
  <2>1. f.op = "ResolveDependency" /\ f.rows = rows
    BY FlightIs
  <2>2. Has(Relation(e)) /\ Compile(r, "ResolveDependency", rows)
    BY <1>2, NoneAssumption DEF ResolveDependency, Has
  <2>3. Stands(f)
    BY <2>1, <2>2 DEF Stands, RelationStands
  <2> QED
    BY <2>2, <2>3, CompilePreserves DEF Clients
<1>3. ASSUME NEW e \in Edges, NEW r \in Requests, RemoveRelation(r, e) PROVE Kept
  <2> DEFINE rows == With(One(Relation(e), None), Tombstone(e), TRUE)
             f == Flight("RemoveRelation", rows)
  <2>1. f.op = "RemoveRelation" /\ f.rows = rows
    BY FlightIs
  <2>2. Compile(r, "RemoveRelation", rows)
    BY <1>3 DEF RemoveRelation
  <2>3. Stands(f)
    BY <2>1 DEF Stands, RelationStands
  <2> HIDE DEF rows
  <2> QED
    BY <2>2, <2>3, CompilePreserves DEF Clients
<1>4. ASSUME NEW e \in Edges, down = "no", Alone, PushRelation(e) \/ PushRemoval(e),
             UNCHANGED <<flight, down, repertoire>>
      PROVE  Kept
  BY <1>4, PushPreserves
<1> QED
  BY <1>1, <1>2, <1>3, <1>4 DEF RelationCommand

----------------------------------------------------------------------------
(* The invariant and the theorems *)

\* A walk of the tree that never ends started on a cycle.
LEMMA HangStep ==
    ASSUME SpaceInv, NEW client \in Clients, NEW i \in Items, NEW j \in Parents,
           Hang(client, i, j)
    PROVE  Kept
<1>1. blind \cap Items # {}
  BY InvIs, CyclesAreBlind DEF Hang
<1>2. UNCHANGED <<db, flight, blind, repertoire>> /\ down' = "hung"
  BY DEF Hang
<1> QED
  BY <1>1, <1>2, DownPreserves

\* New projects, new items and moves.
LEMMA TreeStep ==
    ASSUME SpaceInv, TreeCommand
    PROVE  Kept
<1>1. /\ repertoire.created \subseteq Items
      /\ repertoire.parents \subseteq Parents
      /\ repertoire.statuses \subseteq Statuses
  BY Named
<1>2. CASE \E r \in Requests, p \in Projects : CreateProject(r, p)
  BY <1>2, ProjectStep
<1>3. CASE \E r \in Requests, p \in Projects, i \in repertoire.created,
              j \in repertoire.parents, s \in repertoire.statuses : CreateWorkItem(r, i, p, j, s)
  BY <1>1, <1>3, CreateStep
<1>4. CASE \E c \in Clients, i \in Items, j \in repertoire.parents : MoveWorkItem(c, i, j)
  BY <1>1, <1>4, MoveStep
<1>5. CASE \E c \in Clients, i \in Items, j \in repertoire.parents : Hang(c, i, j)
  BY <1>1, <1>5, HangStep
<1> QED
  BY <1>2, <1>3, <1>4, <1>5 DEF TreeCommand

\* Edits of items: titles, statuses, the bin.
LEMMA ItemStep ==
    ASSUME SpaceInv, ItemCommand
    PROVE  Kept
<1>1. repertoire.statuses \subseteq Statuses
  BY Named
<1>2. PICK c \in Clients, i \in Items :
         \/ \E t \in Titles : UpdateWorkItem(c, i, t)
         \/ \E s \in repertoire.statuses : TransitionWorkItem(c, i, s)
         \/ TrashWorkItem(c, i) \/ RestoreWorkItem(c, i)
  BY DEF ItemCommand
<1>3. CASE \E t \in Titles : UpdateWorkItem(c, i, t)
  BY <1>3, UpdateStep
<1>4. CASE \E s \in repertoire.statuses : TransitionWorkItem(c, i, s)
  BY <1>1, <1>4, TransitionStep
<1>5. CASE TrashWorkItem(c, i)
  BY <1>5, ArchivedStep DEF TrashWorkItem
<1>6. CASE RestoreWorkItem(c, i)
  BY <1>6, ArchivedStep DEF RestoreWorkItem
<1> QED
  BY <1>2, <1>3, <1>4, <1>5, <1>6

\* Every step keeps the invariant and undoes no edit it is not about.
LEMMA NextKeeps ==
    ASSUME SpaceInv, [Next]_vars
    PROVE  Kept
<1>1. CASE TreeCommand
  BY <1>1, TreeStep
<1>2. CASE ItemCommand
  BY <1>2, ItemStep
<1>3. CASE LabelCommand
  <2>1. CASE \E r \in Requests, l \in Labels :
                \/ ArchiveLabel(r, l)
                \/ \E n \in Names : CreateLabel(r, l, n) \/ UpdateLabel(r, l, n)
    BY <2>1, NamesStep
  <2>2. CASE \E i \in Items, ls \in SUBSET Labels :
                \/ \E r \in Requests :
                      AddWorkItemLabels(r, i, ls) \/ RemoveWorkItemLabels(r, i, ls)
                \/ SetLabels(Push, "PushLabels", i, ls)
    BY <2>2, LabelsStep
  <2> QED
    BY <1>3, <2>1, <2>2 DEF LabelCommand
<1>4. CASE NoteCommand
  BY <1>4, NotesStep
<1>5. CASE RelationCommand
  BY <1>5, RelationsStep
<1>6. ASSUME NEW r \in Requests, Commit(r) PROVE Kept
  BY <1>6, CommitPreserves
<1>7. ASSUME NEW r \in Requests, Jam(r) PROVE Kept
  BY <1>7, DownPreserves DEF Jam
<1>8. CASE UNCHANGED vars
  <2>1. UNCHANGED <<db, flight, blind, repertoire>> /\ down' = down
    BY <1>8 DEF vars
  <2>2. down \in {"no", "jammed", "hung"} /\ (down = "hung" => blind \cap Items # {})
    BY InvIs DEF Others, Sound
  <2> QED
    BY <2>1, <2>2, DownPreserves
<1> QED
  BY <1>1, <1>2, <1>3, <1>4, <1>5, <1>6, <1>7, <1>8 DEF Next

\* Finitely many items that exist already can be numbered.
LEMMA Numbering ==
    ASSUME NEW S, IsFiniteSet(S)
    PROVE  \E f \in [S -> 1..Cardinality(S)] : \A i, j \in S : i # j => f[i] # f[j]
<1>1. ExistsBijection(S, 1..Cardinality(S))
  BY FS_CardinalityType, Fun_ExistsBijSymmetric
<1> QED
  BY <1>1 DEF ExistsBijection, Bijection, Injection, IsInjective

FirstNumbers(S) ==
    CHOOSE f \in [S -> 1..Cardinality(S)] : \A i, j \in S : i # j => f[i] # f[j]

\* The row of an item that exists already.
LEMMA FirstRowIs ==
    ASSUME NEW n \in Nat \ {0}
    PROVE  /\ FirstRow(n) \in ItemRow
           /\ FirstRow(n).project = FirstProject /\ FirstRow(n).number = n
           /\ FirstRow(n).parent = None
<1>1. FirstProject \in Projects
  BY TableAssumption DEF FirstProject
<1>2. (CHOOSE t \in Titles : TRUE) \in Titles
  BY TableAssumption
<1>3. "not_started" \in Statuses
  BY DEF Statuses, Active
<1> QED
  BY <1>1, <1>2, <1>3 DEF FirstRow, ItemRow

\* The rows there are at first.
LEMMA StartIs ==
    ASSUME NEW S, db = Start(S)
    PROVE  /\ DOMAIN db = Keys
           /\ \A k \in Keys :
                /\ k[1] = "work_item_label" => db[k] = {}
                /\ k[1] = "tombstone" => db[k] = FALSE
                /\ k[1] = "work_item" /\ k[2] \in S => db[k] = FirstRow(FirstNumbers(S)[k[2]])
                /\ k[1] = "event" /\ k[2] \in S =>
                     db[k] = Told(FirstRow(FirstNumbers(S)[k[2]]), {})
                /\ k = Project(FirstProject) /\ S # {} => db[k] = [next |-> Cardinality(S) + 1]
                /\ k[1] \notin {"work_item_label", "tombstone"} /\ k # Project(FirstProject)
                   /\ (k[1] \in {"work_item", "event"} => k[2] \notin S) => db[k] = None
                /\ S = {} /\ k[1] \notin {"work_item_label", "tombstone"} => db[k] = None
<1> DEFINE row(i) == FirstRow(FirstNumbers(S)[i])
           value(k) ==
             CASE k[1] = "work_item_label" -> {}
               [] k[1] = "tombstone" -> FALSE
               [] k = Project(FirstProject) /\ S # {} -> [next |-> Cardinality(S) + 1]
               [] k[1] = "work_item" /\ k[2] \in S -> row(k[2])
               [] k[1] = "event" /\ k[2] \in S -> Told(row(k[2]), {})
               [] OTHER -> None
<1>1. db = [k \in Keys |-> value(k)]
  BY DEF Start, FirstNumbers
<1>2. DOMAIN db = Keys /\ \A k \in Keys : db[k] = value(k)
  BY <1>1
<1>3. Project(FirstProject)[1] = "project"
  BY OtherKeys
<1> QED
  BY <1>2, <1>3

\* The tables as a behaviour finds them.
LEMMA InitTables ==
    ASSUME NEW S, S \subseteq Items, IsFiniteSet(S), db = Start(S)
    PROVE  Tabled /\ TreeSound /\ NamesSound /\ CheckedEdgesAcyclic /\ EventsSound
<1> DEFINE number == FirstNumbers(S)
           size == Cardinality(S)
<1>1. number \in [S -> 1..size] /\ (\A i, j \in S : i # j => number[i] # number[j])
  BY Numbering DEF FirstNumbers
<1>2. size \in Nat
  BY FS_CardinalityType
<1>3. /\ DOMAIN db = Keys
      /\ \A k \in Keys :
           /\ k[1] = "work_item_label" => db[k] = {}
           /\ k[1] = "tombstone" => db[k] = FALSE
           /\ k[1] = "work_item" /\ k[2] \in S => db[k] = FirstRow(number[k[2]])
           /\ k[1] = "event" /\ k[2] \in S => db[k] = Told(FirstRow(number[k[2]]), {})
           /\ k = Project(FirstProject) /\ S # {} => db[k] = [next |-> size + 1]
           /\ k[1] \notin {"work_item_label", "tombstone"} /\ k # Project(FirstProject)
              /\ (k[1] \in {"work_item", "event"} => k[2] \notin S) => db[k] = None
           /\ S = {} /\ k[1] \notin {"work_item_label", "tombstone"} => db[k] = None
  BY StartIs
<1>4. FirstProject \in Projects
  BY TableAssumption DEF FirstProject
<1>5. \A i \in S : number[i] \in Nat \ {0} /\ number[i] < size + 1
  BY <1>1, <1>2
<1> HIDE DEF number, size
<1>6. Project(FirstProject)[1] = "project"
  BY OtherKeys
<1>7. \A i \in S : db[Item(i)] = FirstRow(number[i])
  BY <1>3, ItemKeys
<1>8. \A i \in Items \ S : db[Item(i)] = None /\ db[Event(i)] = None
  BY <1>3, <1>6, ItemKeys
<1>9. \A i \in Items : db[Labelling(i)] = {} /\ db[Note(i)] = None
  BY <1>3, <1>6, ItemKeys
<1>10. \A i \in S : db[Event(i)] = Told(FirstRow(number[i]), {})
  BY <1>3, ItemKeys
<1>11. S # {} => db[Project(FirstProject)] = [next |-> size + 1]
  BY <1>3, <1>4, OtherKeys
<1>12. \A p \in Projects : p # FirstProject \/ S = {} => db[Project(p)] = None
  BY <1>3, OtherKeys
<1>13. \A l \in Labels : db[Label(l)] = None
  BY <1>3, <1>6, OtherKeys
<1>14. \A n \in Names : db[Name(n)] = None
  BY <1>3, <1>6, OtherKeys
<1>15. \A e \in Edges : db[Relation(e)] = None
  BY <1>3, <1>6, OtherKeys
<1>16. \A e \in Edges : db[Tombstone(e)] = FALSE
  BY <1>3, OtherKeys
<1>17. \A i \in S : /\ FirstRow(number[i]) \in ItemRow
                    /\ FirstRow(number[i]).project = FirstProject
                    /\ FirstRow(number[i]).number = number[i]
                    /\ FirstRow(number[i]).parent = None
  BY <1>5, FirstRowIs
<1>18. [next |-> size + 1] \in ProjectRow
  BY <1>2 DEF ProjectRow
<1>19. Tabled
  <2>1. \A i \in Items : db[Item(i)] \in ItemRow \cup {None}
    BY <1>7, <1>8, <1>17
  <2>2. \A i \in Items : db[Labelling(i)] \in SUBSET Labels /\ db[Note(i)] \in Documents \cup {None}
    BY <1>9
  <2>3. \A i \in Items : db[Event(i)] \in EventRow \cup {None}
    <3>1. \A i \in S : Told(FirstRow(number[i]), {}) \in EventRow
      BY <1>17 DEF Told, EventRow
    <3> QED
      BY <1>8, <1>10, <3>1
  <2>4. \A p \in Projects : db[Project(p)] \in ProjectRow \cup {None}
    BY <1>11, <1>12, <1>18
  <2>5. \A k \in Keys : db[k] \in RowsOf(k)
    <3> SUFFICES ASSUME NEW k \in Keys PROVE db[k] \in RowsOf(k)
      OBVIOUS
    <3>1. CASE \E i \in Items : k \in {Item(i), Labelling(i), Note(i), Event(i)}
      BY <2>1, <2>2, <2>3, <3>1, Tables
    <3>2. CASE \E p \in Projects : k = Project(p)
      BY <2>4, <3>2, Tables
    <3>3. CASE \E l \in Labels : k = Label(l)
      BY <1>13, <3>3, Tables
    <3>4. CASE \E n \in Names : k = Name(n)
      BY <1>14, <3>4, Tables
    <3>5. CASE \E e \in Edges : k = Relation(e)
      BY <1>15, <3>5, Tables
    <3>6. CASE \E e \in Edges : k = Tombstone(e)
      BY <1>16, <3>6, Tables
    <3> QED
      BY <3>1, <3>2, <3>3, <3>4, <3>5, <3>6 DEF Keys
  <2> QED
    BY <1>3, <2>5 DEF Tabled
<1>20. \A i \in Items : Has(Item(i)) => /\ i \in S
                                        /\ db[Item(i)].project = FirstProject
                                        /\ db[Item(i)].number = number[i]
                                        /\ db[Item(i)].parent = None
  BY <1>7, <1>8, <1>17 DEF Has
<1>21. \A i \in Items : Up(i) = None
  BY <1>20 DEF Up
<1>22. Counted
  <2> SUFFICES ASSUME NEW i \in Items, Has(Item(i))
               PROVE  /\ Has(Project(db[Item(i)].project))
                      /\ db[Item(i)].number < db[Project(db[Item(i)].project)].next
    BY DEF Counted
  <2>1. i \in S /\ db[Project(FirstProject)] = [next |-> size + 1]
    BY <1>11, <1>20
  <2>2. Has(Project(FirstProject))
    BY <1>18, <2>1, NoneAssumption DEF Has
  <2>3. db[Project(FirstProject)].next = size + 1
    BY <2>1
  <2> QED
    BY <1>5, <1>20, <2>1, <2>2, <2>3
<1>23. Parented
  BY <1>21 DEF Parented, FoundParent
<1>24. NumbersAreUnique
  BY <1>1, <1>20 DEF NumbersAreUnique, number
<1>25. ThreeLevels
  BY <1>21, NoneAssumption DEF ThreeLevels
<1>26. NamesSound
  BY <1>13, <1>14, NoneAssumption DEF NamesSound, Indexed, NamesAreUnique, Has
<1>27. CheckedEdgesAcyclic
  <2>1. CheckedEdges = {}
    BY <1>15 DEF CheckedEdges, Has
  <2> QED
    BY <2>1 DEF CheckedEdgesAcyclic
<1>28. EventsSound
  BY <1>7, <1>8, <1>9, <1>10 DEF EventsSound, EventsShowRows, LabelledExist, Has, Told
<1> QED
  BY <1>19, <1>22, <1>23, <1>24, <1>25, <1>26, <1>27, <1>28 DEF TreeSound

\* The items that exist already are roots with numbers of their own, and shown.
LEMMA InitHolds == Init => SpaceInv
<1> SUFFICES ASSUME Init PROVE SpaceInv
  OBVIOUS
<1>1. repertoire \in Repertoires /\ db = Start(repertoire.existing)
  BY DEF Init
<1>2. repertoire.existing \subseteq Items /\ IsFiniteSet(repertoire.existing)
  BY <1>1, RepertoireAssumption
<1>3. Tabled /\ TreeSound /\ NamesSound /\ CheckedEdgesAcyclic /\ EventsSound
  <2>1. PICK S : S = repertoire.existing
    OBVIOUS
  <2> QED
    BY <1>1, <1>2, <2>1, InitTables
<1>4. Sound
  BY <1>3 DEF Sound, Init
<1>5. DOMAIN flight = Requests /\ \A r \in Requests : Flown(flight[r])
  BY NoFlightFlies DEF Init, Flown
<1>6. Others
  BY DEF Others, Init
<1> QED
  BY <1>3, <1>4, <1>5, <1>6, InvFrom

\* The inductive invariant: the tables are typed, the trees, the names, the checked
\* dependencies and the events are sound, and every command in flight that lost no row
\* is still about what it was compiled from (compile_against_overlay,
\* DbMutationInterpreter.apply).
THEOREM SpaceInvariance == Spec => []SpaceInv
<1>1. SpaceInv /\ [Next]_vars => SpaceInv'
  BY NextKeeps DEF Kept
<1> QED
  BY <1>1, InitHolds, PTL DEF Spec

\* Every row stays a row of its table and every command in flight writes such rows,
\* whatever is compiled before and committed after the others.
THEOREM TypeCorrect == Spec => []TypeOK
<1>1. SpaceInv => TypeOK
  BY DEF SpaceInv
<1> QED
  BY <1>1, SpaceInvariance, PTL

\* Trees stay at most three levels deep except below items that were placed by commands
\* that overlapped, the dependencies whose check saw all the others are acyclic, and no
\* number and no label name is used twice (_parent_depth, detect_cycle_incremental,
\* _require_unique_label_name).
THEOREM StructureIsKept == Spec => []StructureHolds
<1>1. SpaceInv => StructureHolds
  BY DEF SpaceInv, Sound, TreeSound, NamesSound, StructureHolds, TreesAreShallow, KeysAreUnique
<1> QED
  BY <1>1, SpaceInvariance, PTL

\* The last event of an item tells the devices its row and its labels, although both
\* were read when the command was compiled (_work_item_update_command,
\* _compile_label_set_mutation).
THEOREM EventsAreCurrent == Spec => []EventsShowRows
<1>1. SpaceInv => EventsShowRows
  BY DEF SpaceInv, Sound, EventsSound
<1> QED
  BY <1>1, SpaceInvariance, PTL

\* A command that commits keeps every field, label and block that it is not about: the
\* row comparison of DbMutationInterpreter.apply is enough to refuse it otherwise.
THEOREM EditsStand == Spec => NoEditIsUndone
<1>1. SpaceInv /\ [Next]_vars =>
         [\A r \in Requests : ~Idle(r) /\ Idle(r)' => UndoesNothing(flight[r].op)]_vars
  BY NextKeeps DEF Kept
<1> QED
  BY <1>1, SpaceInvariance, PTL DEF Spec, NoEditIsUndone


----------------------------------------------------------------------------
(* The knowledge of a Space. *)

\* A row of the kind that k identifies.
ItemsOf(k, row) ==
    \/ k \in Folders /\ row \in FolderRow
    \/ k \in Notes /\ row \in NoteRow
    \/ k \in Quicks /\ row \in QuickRow

RowsAreTyped ==
    /\ stored = [k \in Things |-> stored[k]]
    /\ \A k \in Things : Here(k) => ItemsOf(k, stored[k])

Askings == [op : {"none", "ask", "purge", "convert"}, of : Things \cup {Nothing},
            keys : SUBSET Things, stale : SUBSET Things,
            folder : Locations, note : Notes \cup {Nothing}]

AskingIsTyped ==
    /\ asking = [r \in Askers |-> asking[r]]
    /\ \A r \in Askers :
         /\ asking[r] \in Askings
         /\ asking[r].op = "purge" => asking[r].keys \subseteq Folders
         /\ asking[r].op = "convert" => asking[r].of \in Quicks /\ asking[r].note \in Notes

\* The derived stores, as a function of the rows.
Shown ==
    /\ index = [k \in Shelved |-> ShownAs(k, stored[k])]
    /\ file = [p \in Paths |-> IF Here(p[2]) /\ p = NotePath(p[2], stored[p[2]])
                               THEN Frontmatter(stored[p[2]]) ELSE Nothing]

\* The inductive invariant of the tree: rows and reads are typed, the folders
\* form a tree, and the derived stores are a function of the rows.
KnowledgeInv ==
    /\ RowsAreTyped /\ AskingIsTyped /\ cast \in Casts
    /\ FoldersAreTree /\ LocationsAreKnown /\ TrashHidesNothing /\ Shown

\* Writes of rows of the right kind.
Writable(W) ==
    /\ DOMAIN W \subseteq Things
    /\ \A k \in DOMAIN W : W[k] # Nothing => ItemsOf(k, W[k])

\* What a command that is carried out writes.
Carried(W, strays, done) ==
    /\ stored' = After(W)
    /\ gone' = gone \cup {k \in DOMAIN W : W[k] = Nothing}
    /\ Complete(W) /\ Projected(W)
    /\ loose' = loose \cup strays
    /\ Restale(DOMAIN W, done)
    /\ cast' = cast

\* Folders, notes and quick notes have different identities.
LEMMA Kinds ==
    /\ \A k \in Folders : k \notin Notes /\ k \notin Quicks /\ k \in Shelved
    /\ \A k \in Notes : k \notin Folders /\ k \notin Quicks /\ k \in Shelved
    /\ \A k \in Quicks : k \notin Folders /\ k \notin Notes /\ k \in Things
    /\ \A k \in Things : k # Nothing
    /\ \A k \in Things : k \in Folders \/ k \in Notes \/ k \in Quicks
    /\ \A k \in Shelved : k \in Things
BY ThingsAssumption DEF Things, Shelved

\* A row, an entry and the head of a file are not Nothing.
LEMMA RowsAreSomething ==
    /\ \A row \in FolderRow \cup NoteRow \cup QuickRow : row # Nothing
    /\ \A n \in Notes, row \in NoteRow :
         /\ NotePath(n, row) \in Paths /\ NotePath(n, row)[2] = n
         /\ Entry(n, row) # Nothing /\ Entry(n, row).path = NotePath(n, row)
         /\ Frontmatter(row) # Nothing
<1>1. \A row \in FolderRow \cup NoteRow \cup QuickRow : row # Nothing
  BY NothingAssumption
<1>2. SUFFICES ASSUME NEW n \in Notes, NEW row \in NoteRow
               PROVE  /\ NotePath(n, row) \in Paths /\ NotePath(n, row)[2] = n
                      /\ Entry(n, row) # Nothing /\ Entry(n, row).path = NotePath(n, row)
                      /\ Frontmatter(row) # Nothing
  BY <1>1
<1>3. row.folder \in Locations /\ row.title \in Headings  BY DEF NoteRow
<1>4. NotePath(n, row) \in Paths /\ NotePath(n, row)[2] = n  BY <1>3 DEF NotePath, Paths
<1>5. Entry(n, row) \in [row : NoteRow, path : Paths]  BY <1>4 DEF Entry
<1>6. Frontmatter(row) \in [title : Headings, folder : Locations]  BY <1>3 DEF Frontmatter
<1>7. Entry(n, row) # Nothing  BY <1>5, NothingAssumption
<1>8. Frontmatter(row) # Nothing  BY <1>6, NothingAssumption
<1>9. Entry(n, row).path = NotePath(n, row)  BY DEF Entry
<1> QED  BY <1>4, <1>7, <1>8, <1>9

\* Writes of the right kind leave typed rows.
LEMMA LandingIsTyped ==
    ASSUME RowsAreTyped, NEW W, Writable(W), stored' = After(W)
    PROVE  /\ RowsAreTyped'
           /\ \A k \in Things : stored'[k] = IF k \in DOMAIN W THEN W[k] ELSE stored[k]
<1>1. \A k \in Things : stored'[k] = IF k \in DOMAIN W THEN W[k] ELSE stored[k]
  BY DEF After
<1>2. stored' = [k \in Things |-> stored'[k]]  BY DEF After
<1>3. ASSUME NEW k \in Things, stored'[k] # Nothing
      PROVE  ItemsOf(k, stored'[k])
  BY <1>1, <1>3 DEF Writable, RowsAreTyped, Here
<1> QED  BY <1>1, <1>2, <1>3 DEF RowsAreTyped, Here

\* What is removed, renamed and written in the derived stores follows the rows
\* (Projected), as the index says where the files are.
LEMMA LandingIsShown ==
    ASSUME RowsAreTyped, Shown, NEW W, Writable(W), stored' = After(W), Projected(W)
    PROVE  Shown'
<1> USE DEF Here
<1>1. \A k \in Things : stored'[k] = IF k \in DOMAIN W THEN W[k] ELSE stored[k]
  BY LandingIsTyped
<1>2. index' = [k \in Shelved |-> ShownAs(k, stored'[k])]
  <2>1. ASSUME NEW k \in Shelved
        PROVE  (IF k \in DOMAIN W THEN ShownAs(k, W[k]) ELSE index[k]) = ShownAs(k, stored'[k])
    <3>1. k \in Things /\ index[k] = ShownAs(k, stored[k])  BY Kinds DEF Shown
    <3> QED  BY <3>1, <1>1
  <2> QED  BY <2>1, Zenon DEF Projected
<1>3. file' = [p \in Paths |-> IF stored'[p[2]] # Nothing /\ p = NotePath(p[2], stored'[p[2]])
                              THEN Frontmatter(stored'[p[2]]) ELSE Nothing]
  <2>1. ASSUME NEW p \in Paths
        PROVE  (IF p[2] \notin DOMAIN W THEN file[p]
                ELSE IF W[p[2]] # Nothing /\ p = NotePath(p[2], W[p[2]]) THEN Frontmatter(W[p[2]])
                ELSE IF stored[p[2]] # Nothing /\ p = index[p[2]].path THEN Nothing
                ELSE file[p])
               = IF stored'[p[2]] # Nothing /\ p = NotePath(p[2], stored'[p[2]])
                 THEN Frontmatter(stored'[p[2]]) ELSE Nothing
    <3>1. PICK n \in Notes : n = p[2]  BY DEF Paths
    <3>2. n \in Things /\ n \in Shelved /\ n \notin Folders /\ n \notin Quicks  BY Kinds
    <3>3. stored'[n] = IF n \in DOMAIN W THEN W[n] ELSE stored[n]  BY <1>1, <3>2
    <3>4. file[p] = IF stored[n] # Nothing /\ p = NotePath(n, stored[n])
                    THEN Frontmatter(stored[n]) ELSE Nothing
      BY <3>1 DEF Shown
    <3>5. stored[n] # Nothing => index[n].path = NotePath(n, stored[n])
      <4>1. stored[n] # Nothing => stored[n] \in NoteRow
        BY <3>2 DEF RowsAreTyped, ItemsOf
      <4>2. stored[n] # Nothing => index[n] = Entry(n, stored[n])
        BY <3>2 DEF Shown, ShownAs
      <4> QED  BY <4>1, <4>2, RowsAreSomething
    <3> QED  BY <3>1, <3>3, <3>4, <3>5
  <2> QED  BY <2>1, Zenon DEF Projected
<1> QED  BY <1>2, <1>3 DEF Shown

\* Growing stale changes no other part of what was read.
LEMMA AskingStaysTyped ==
    ASSUME AskingIsTyped, NEW keys, NEW done, Restale(keys, done)
    PROVE  AskingIsTyped'
<1>1. asking' = [r \in Askers |-> asking'[r]]  BY DEF Restale
<1>2. ASSUME NEW r \in Askers
      PROVE  /\ asking'[r] \in Askings
             /\ asking'[r].op = "purge" => asking'[r].keys \subseteq Folders
             /\ asking'[r].op = "convert" => asking'[r].of \in Quicks /\ asking'[r].note \in Notes
  <2>1. asking'[r] = IF r \in done THEN NotAsking
                     ELSE [asking[r] EXCEPT !.stale = @ \cup (asking[r].keys \cap keys)]
    BY DEF Restale
  <2>2. CASE r \in done
    BY <2>1, <2>2 DEF NotAsking, Asked, Askings, Locations
  <2>3. CASE r \notin done
    BY <2>1, <2>3 DEF AskingIsTyped, Askings
  <2> QED  BY <2>2, <2>3
<1> QED  BY <1>1, <1>2 DEF AskingIsTyped

\* Writes that place things in what exists, or leave them where they are, keep
\* every location known: what is removed leaves a tombstone.
LEMMA LocationsStayKnown ==
    ASSUME RowsAreTyped, LocationsAreKnown, NEW W, Writable(W),
           stored' = After(W), gone' = gone \cup {k \in DOMAIN W : W[k] = Nothing},
           \A k \in Folders \cap DOMAIN W : W[k] # Nothing =>
              \/ W[k].parent = Nothing \/ Here(W[k].parent)
              \/ Here(k) /\ W[k].parent = stored[k].parent,
           \A k \in Notes \cap DOMAIN W : W[k] # Nothing =>
              \/ W[k].folder = Nothing \/ Here(W[k].folder)
              \/ Here(k) /\ W[k].folder = stored[k].folder
    PROVE  LocationsAreKnown'
<1>1. \A k \in Things : stored'[k] = IF k \in DOMAIN W THEN W[k] ELSE stored[k]
  BY LandingIsTyped
<1>2. \A p \in Folders : Here(p) \/ p \in gone => stored'[p] # Nothing \/ p \in gone'
  BY <1>1, Kinds DEF Here
<1>3. ASSUME NEW f \in Folders, stored'[f] # Nothing
      PROVE  \/ stored'[f].parent = Nothing \/ stored'[f].parent \in gone'
             \/ stored'[stored'[f].parent] # Nothing
  <2>1. f \in Things /\ f \notin Notes /\ f \notin Quicks  BY Kinds
  <2>2. stored'[f] \in FolderRow
    BY <1>1, <1>3, <2>1 DEF Writable, RowsAreTyped, ItemsOf, Here
  <2>3. PICK p : p = stored'[f].parent  OBVIOUS
  <2>4. p \in Locations  BY <2>2, <2>3 DEF FolderRow
  <2>5. p = Nothing \/ Here(p) \/ p \in gone
    BY <1>1, <1>3, <2>1, <2>3 DEF LocationsAreKnown, Here
  <2> QED  BY <1>2, <2>3, <2>4, <2>5 DEF Locations
<1>4. ASSUME NEW n \in Notes, stored'[n] # Nothing
      PROVE  \/ stored'[n].folder = Nothing \/ stored'[n].folder \in gone'
             \/ stored'[stored'[n].folder] # Nothing
  <2>1. n \in Things /\ n \notin Folders /\ n \notin Quicks  BY Kinds
  <2>2. stored'[n] \in NoteRow
    BY <1>1, <1>4, <2>1 DEF Writable, RowsAreTyped, ItemsOf, Here
  <2>3. PICK p : p = stored'[n].folder  OBVIOUS
  <2>4. p \in Locations  BY <2>2, <2>3 DEF NoteRow
  <2>5. p = Nothing \/ Here(p) \/ p \in gone
    BY <1>1, <1>4, <2>1, <2>3 DEF LocationsAreKnown, Here
  <2> QED  BY <1>2, <2>3, <2>4, <2>5 DEF Locations
<1> QED  BY <1>3, <1>4 DEF LocationsAreKnown, Here

\* Folders that keep their parents, or go, form no cycle.
LEMMA FoldersStayTree ==
    ASSUME FoldersAreTree,
           \A f \in Folders : stored'[f] # Nothing =>
              stored[f] # Nothing /\ stored'[f].parent = stored[f].parent
    PROVE  FoldersAreTree'
<1> SUFFICES ASSUME NEW S \in SUBSET Folders, S # {},
                    \A f \in S : stored'[f] # Nothing /\ stored'[f].parent \in S
             PROVE  FALSE
  BY DEF FoldersAreTree, Here
<1>1. \A f \in S : stored[f] # Nothing /\ stored[f].parent \in S  OBVIOUS
<1> QED  BY <1>1 DEF FoldersAreTree, Here

\* A new folder that nothing lies in, and that does not lie in itself, closes
\* no cycle.
LEMMA FolderArrivesInTree ==
    ASSUME FoldersAreTree, NEW f \in Folders, ~Here(f), stored'[f].parent # f,
           \A g \in Folders \ {f} : stored'[g] = stored[g],
           \A g \in Folders : Here(g) => stored[g].parent # f
    PROVE  FoldersAreTree'
<1> SUFFICES ASSUME NEW S \in SUBSET Folders, S # {},
                    \A g \in S : stored'[g] # Nothing /\ stored'[g].parent \in S
             PROVE  FALSE
  BY DEF FoldersAreTree, Here
<1>1. PICK T : T = S \ {f}  OBVIOUS
<1>2. T # {}
  <2>1. CASE f \in S  BY <2>1, <1>1
  <2>2. CASE f \notin S  BY <2>2, <1>1
  <2> QED  BY <2>1, <2>2
<1>3. \A g \in T : Here(g) /\ stored[g].parent \in T  BY <1>1 DEF Here
<1>4. T \in SUBSET Folders  BY <1>1
<1> QED  BY <1>2, <1>3, <1>4 DEF FoldersAreTree

\* A folder moves under p if the walk up from p does not meet it: a set that
\* holds its parents after the move would, without those below f, hold them
\* before.
LEMMA FolderMovesInTree ==
    ASSUME FoldersAreTree, NEW f \in Folders, NEW p \in Folders, NoCycle(f, p),
           stored'[f].parent = p,
           \A g \in Folders \ {f} : stored'[g] = stored[g]
    PROVE  FoldersAreTree'
<1> SUFFICES ASSUME NEW S \in SUBSET Folders, S # {},
                    \A g \in S : stored'[g] # Nothing /\ stored'[g].parent \in S
             PROVE  FALSE
  BY DEF FoldersAreTree, Here
<1>1. f \in S
  <2> SUFFICES ASSUME f \notin S  PROVE FALSE  OBVIOUS
  <2>1. \A g \in S : Here(g) /\ stored[g].parent \in S  BY DEF Here
  <2> QED  BY <2>1 DEF FoldersAreTree
<1>2. p \in S  BY <1>1
<1>3. PICK T \in SUBSET Folders : p \in T /\ f \notin T /\ \A e \in Upwards : e[1] \in T => e[2] \in T
  <2>1. f \notin Reach(p, Upwards)  BY DEF NoCycle
  <2> QED  BY <2>1, Zenon DEF Reach
<1>4. PICK B : B = S \cap T  OBVIOUS
<1>5. B # {} /\ B \in SUBSET Folders  BY <1>2, <1>3, <1>4
<1>6. ASSUME NEW g \in B
      PROVE  Here(g) /\ stored[g].parent \in B
  <2>1. g \in S /\ g \in T /\ g # f /\ g \in Folders  BY <1>3, <1>4
  <2>2. Here(g) /\ stored[g].parent \in S  BY <2>1 DEF Here
  <2>3. <<g, stored[g].parent>> \in Upwards  BY <2>1, <2>2 DEF Upwards
  <2>4. stored[g].parent \in T  BY <1>3, <2>1, <2>3
  <2> QED  BY <2>2, <2>4, <1>4
<1> QED  BY <1>5, <1>6 DEF FoldersAreTree

\* What stands in a folder of the descent is of the descent.
LEMMA DescentGoesDown ==
    ASSUME NEW f \in Folders, NEW p \in Folders, p \in {f} \cup Descent(f),
           NEW g \in Folders, Standing(g), stored[g].parent = p
    PROVE  g \in Descent(f)
<1>1. <<p, g>> \in Downwards({h \in Folders : Standing(h)})  BY DEF Downwards, Standing
<1>2. PICK E : E = Downwards({h \in Folders : Standing(h)})  OBVIOUS
<1>3. ASSUME NEW S \in SUBSET Folders, f \in S, \A e \in E : e[1] \in S => e[2] \in S
      PROVE  g \in S
  <2>1. p \in S
    <3>1. CASE p = f  BY <3>1, <1>3
    <3>2. CASE p \in Descent(f)  BY <3>2, <1>2, <1>3 DEF Descent, Reach
    <3> QED  BY <3>1, <3>2
  <2> QED  BY <2>1, <1>1, <1>2, <1>3
<1> QED  BY <1>2, <1>3 DEF Descent, Reach

\* A command that is carried out, or jams, keeps the invariant, if what it
\* writes has its place and leaves a tree that hides nothing.
LEMMA CarriedKeepsInv ==
    ASSUME KnowledgeInv, NEW W, NEW strays, NEW done, Writable(W), Carry(W, strays, done),
           \A k \in Folders \cap DOMAIN W : W[k] # Nothing =>
              \/ W[k].parent = Nothing \/ Here(W[k].parent)
              \/ Here(k) /\ W[k].parent = stored[k].parent,
           \A k \in Notes \cap DOMAIN W : W[k] # Nothing =>
              \/ W[k].folder = Nothing \/ Here(W[k].folder)
              \/ Here(k) /\ W[k].folder = stored[k].folder,
           stored' = After(W) /\ loose' = loose \cup strays
              => FoldersAreTree' /\ TrashHidesNothing'
    PROVE  KnowledgeInv'
<1>1. CASE UNCHANGED <<stored, gone, index, file, loose, asking, cast>>
  BY <1>1 DEF KnowledgeInv, RowsAreTyped, AskingIsTyped, FoldersAreTree, LocationsAreKnown,
              TrashHidesNothing, Shown, Here, Standing, ParentActive
<1>2. CASE Carried(W, strays, done)
  <2>1. RowsAreTyped'  BY <1>2, LandingIsTyped DEF KnowledgeInv, Carried
  <2>2. AskingIsTyped'  BY <1>2, AskingStaysTyped DEF KnowledgeInv, Carried
  <2>3. Shown'  BY <1>2, LandingIsShown DEF KnowledgeInv, Carried
  <2>4. LocationsAreKnown'  BY <1>2, LocationsStayKnown DEF KnowledgeInv, Carried
  <2>5. FoldersAreTree' /\ TrashHidesNothing'  BY <1>2 DEF Carried
  <2>6. cast' \in Casts  BY <1>2 DEF KnowledgeInv, Carried
  <2> QED  BY <2>1, <2>2, <2>3, <2>4, <2>5, <2>6 DEF KnowledgeInv
<1> QED  BY <1>1, <1>2 DEF Carry, Carried

\* The rows after a command, key by key.
LEMMA RowsAfter ==
    ASSUME NEW W, stored' = After(W)
    PROVE  \A k \in Things : stored'[k] = IF k \in DOMAIN W THEN W[k] ELSE stored[k]
BY DEF After

\* A new folder lies in an active one, and nothing lies in it: a location is
\* known, and this identity neither exists nor did.
LEMMA CreateFolderKeepsInv ==
    ASSUME KnowledgeInv, NEW f \in Folders, CreateFolder(f)
    PROVE  KnowledgeInv'
<1>1. PICK row \in SomeFolderRow : ParentActive(row.parent) /\ Carry(Just(f, row), {}, {})
  BY DEF CreateFolder
<1>2. ~Here(f) /\ f \notin gone  BY DEF CreateFolder
<1>3. row \in FolderRow
  BY <1>1, CastsAssumption DEF KnowledgeInv, SomeFolderRow, FolderRow, Locations
<1>4. PICK W : W = Just(f, row)  OBVIOUS
<1>5. DOMAIN W = {f} /\ W[f] = row  BY <1>4 DEF Just
<1>6. Writable(W)  BY <1>3, <1>5, Kinds DEF Writable, ItemsOf
<1>7. row.parent \in Locations  BY <1>3 DEF FolderRow
<1>8. row.parent = Nothing \/ Standing(row.parent)  BY <1>1, <1>7 DEF ParentActive, Locations
<1>9. ASSUME stored' = After(W), loose' = loose \cup {}
      PROVE  FoldersAreTree' /\ TrashHidesNothing'
  <2>1. \A k \in Things : stored'[k] = IF k = f THEN row ELSE stored[k]
    BY <1>5, <1>9, RowsAfter
  <2>2. stored'[f] = row /\ \A g \in Folders \ {f} : stored'[g] = stored[g]
    BY <2>1, Kinds
  <2>3. row.parent # f  BY <1>2, <1>8, Kinds DEF Standing
  <2>4. \A g \in Folders : Here(g) => stored[g].parent # f
    BY <1>2, Kinds DEF KnowledgeInv, LocationsAreKnown
  <2>5. FoldersAreTree'
    BY <1>2, <2>2, <2>3, <2>4, FolderArrivesInTree DEF KnowledgeInv
  <2>6. \A p \in Folders : Standing(p) => Standing(p)'
    BY <1>2, <2>2 DEF Standing, Here
  <2>7. ASSUME NEW g \in Folders, Standing(g)', g \notin loose'
        PROVE  ParentActive(stored[g].parent)'
    <3>1. CASE g = f  BY <3>1, <1>8, <2>2, <2>6, Kinds DEF ParentActive
    <3>2. CASE g # f
      <4>1. stored'[g] = stored[g]  BY <3>2, <2>2
      <4>2. Standing(g) /\ g \notin loose  BY <4>1, <1>9, <2>7 DEF Standing, Here
      <4>3. ParentActive(stored[g].parent)  BY <4>2 DEF KnowledgeInv, TrashHidesNothing
      <4> QED  BY <4>1, <4>3, <2>6 DEF ParentActive
    <3> QED  BY <3>1, <3>2
  <2>8. ASSUME NEW n \in Notes, Standing(n)', n \notin loose'
        PROVE  ParentActive(stored[n].folder)'
    <3>1. stored'[n] = stored[n]  BY <2>1, Kinds
    <3>2. Standing(n) /\ n \notin loose  BY <3>1, <1>9, <2>8 DEF Standing, Here
    <3>3. ParentActive(stored[n].folder)  BY <3>2 DEF KnowledgeInv, TrashHidesNothing
    <3> QED  BY <3>1, <3>3, <2>6 DEF ParentActive
  <2>9. TrashHidesNothing'  BY <2>7, <2>8 DEF TrashHidesNothing
  <2> QED  BY <2>5, <2>9
<1>10. \A k \in Folders \cap DOMAIN W : W[k] # Nothing =>
          \/ W[k].parent = Nothing \/ Here(W[k].parent)
          \/ Here(k) /\ W[k].parent = stored[k].parent
  BY <1>5, <1>8 DEF Standing
<1>11. \A k \in Notes \cap DOMAIN W : W[k] # Nothing =>
          \/ W[k].folder = Nothing \/ Here(W[k].folder)
          \/ Here(k) /\ W[k].folder = stored[k].folder
  BY <1>5, Kinds
<1>12. Carry(W, {}, {})  BY <1>1, <1>4
<1> QED  BY <1>6, <1>9, <1>10, <1>11, <1>12, CarriedKeepsInv

\* A folder that is moved keeps the tree by the walk up from its new parent;
\* one that is trashed or restored on its own leaves its strays loose.
LEMMA UpdateFolderKeepsInv ==
    ASSUME KnowledgeInv, NEW f \in Folders, UpdateFolder(f)
    PROVE  KnowledgeInv'
<1>1. PICK row \in SomeFolderRow :
         /\ row.parent # stored[f].parent /\ row.parent # Nothing
              => Standing(row.parent) /\ NoCycle(f, row.parent)
         /\ Carry(Just(f, row),
                  IF row.trashed THEN Strays({f})
                  ELSE IF stored[f].trashed THEN {f} ELSE {}, {})
  BY DEF UpdateFolder
<1>2. Here(f)  BY DEF UpdateFolder
<1>3. row \in FolderRow
  BY <1>1, CastsAssumption DEF KnowledgeInv, SomeFolderRow, FolderRow, Locations
<1>4. PICK W : W = Just(f, row)  OBVIOUS
<1>5. DOMAIN W = {f} /\ W[f] = row  BY <1>4 DEF Just
<1>6. Writable(W)  BY <1>3, <1>5, Kinds DEF Writable, ItemsOf
<1>7. row.parent \in Locations  BY <1>3 DEF FolderRow
<1>8. PICK strays : strays = IF row.trashed THEN Strays({f})
                             ELSE IF stored[f].trashed THEN {f} ELSE {}
  OBVIOUS
<1>9. ASSUME stored' = After(W), loose' = loose \cup strays
      PROVE  FoldersAreTree' /\ TrashHidesNothing'
  <2>1. \A k \in Things : stored'[k] = IF k = f THEN row ELSE stored[k]
    BY <1>5, <1>9, RowsAfter
  <2>2. stored'[f] = row /\ \A g \in Folders \ {f} : stored'[g] = stored[g]
    BY <2>1, Kinds
  <2>3. FoldersAreTree'
    <3>1. CASE row.parent = stored[f].parent
      <4>1. \A g \in Folders : stored'[g] # Nothing =>
              stored[g] # Nothing /\ stored'[g].parent = stored[g].parent
        BY <3>1, <1>2, <2>2 DEF Here
      <4> QED  BY <4>1, FoldersStayTree DEF KnowledgeInv
    <3>2. CASE row.parent = Nothing
      <4> SUFFICES ASSUME NEW S \in SUBSET Folders, S # {},
                          \A g \in S : stored'[g] # Nothing /\ stored'[g].parent \in S
                   PROVE  FALSE
        BY DEF FoldersAreTree, Here
      <4>1. f \notin S  BY <3>2, <2>2, Kinds
      <4>2. \A g \in S : Here(g) /\ stored[g].parent \in S  BY <4>1, <2>2 DEF Here
      <4> QED  BY <4>2 DEF KnowledgeInv, FoldersAreTree
    <3>3. CASE row.parent # stored[f].parent /\ row.parent # Nothing
      <4>1. NoCycle(f, row.parent) /\ row.parent \in Folders
        BY <3>3, <1>1, <1>7 DEF Locations
      <4> QED  BY <4>1, <2>2, FolderMovesInTree DEF KnowledgeInv
    <3> QED  BY <3>1, <3>2, <3>3
  <2>4. \A p \in Folders \ {f} : Standing(p) => Standing(p)'
    BY <2>2 DEF Standing, Here
  <2>5. ASSUME NEW g \in Folders, Standing(g)', g \notin loose'
        PROVE  ParentActive(stored[g].parent)'
    <3>1. CASE g = f
      <4>1. ~row.trashed /\ ~stored[f].trashed  BY <3>1, <2>2, <2>5, <1>8, <1>9 DEF Standing
      <4>2. Standing(f) /\ f \notin loose  BY <3>1, <4>1, <1>2, <1>9, <2>5 DEF Standing
      <4>3. ParentActive(row.parent)
        BY <4>2, <1>1, <1>7, Kinds DEF KnowledgeInv, TrashHidesNothing, ParentActive, Locations
      <4>4. row.parent = f => Standing(row.parent)'  BY <3>1, <2>5
      <4> QED  BY <3>1, <4>3, <4>4, <2>2, <2>4 DEF ParentActive
    <3>2. CASE g # f
      <4>1. stored'[g] = stored[g]  BY <3>2, <2>2
      <4>2. Standing(g) /\ g \notin loose  BY <4>1, <1>9, <2>5 DEF Standing, Here
      <4>3. ParentActive(stored[g].parent)  BY <4>2 DEF KnowledgeInv, TrashHidesNothing
      <4>4. ASSUME stored[g].parent = f
            PROVE  Standing(f)'
        <5>1. ~row.trashed  BY <4>2, <4>4, <1>8, <1>9, <2>5 DEF Strays
        <5>2. row # Nothing  BY <1>3, RowsAreSomething
        <5> QED  BY <5>1, <5>2, <2>2 DEF Standing, Here
      <4> QED  BY <4>1, <4>3, <4>4, <2>4 DEF ParentActive
    <3> QED  BY <3>1, <3>2
  <2>6. ASSUME NEW n \in Notes, Standing(n)', n \notin loose'
        PROVE  ParentActive(stored[n].folder)'
    <3>1. stored'[n] = stored[n]  BY <2>1, Kinds
    <3>2. Standing(n) /\ n \notin loose  BY <3>1, <1>9, <2>6 DEF Standing, Here
    <3>3. ParentActive(stored[n].folder)  BY <3>2 DEF KnowledgeInv, TrashHidesNothing
    <3>4. ASSUME stored[n].folder = f
          PROVE  Standing(f)'
      <4>1. ~row.trashed  BY <3>2, <3>4, <1>8, <1>9, <2>6 DEF Strays
      <4>2. row # Nothing  BY <1>3, RowsAreSomething
      <4> QED  BY <4>1, <4>2, <2>2 DEF Standing, Here
    <3> QED  BY <3>1, <3>3, <3>4, <2>4 DEF ParentActive
  <2>7. TrashHidesNothing'  BY <2>5, <2>6 DEF TrashHidesNothing
  <2> QED  BY <2>3, <2>7
<1>10. \A k \in Folders \cap DOMAIN W : W[k] # Nothing =>
          \/ W[k].parent = Nothing \/ Here(W[k].parent)
          \/ Here(k) /\ W[k].parent = stored[k].parent
  BY <1>1, <1>2, <1>5 DEF Standing
<1>11. \A k \in Notes \cap DOMAIN W : W[k] # Nothing =>
          \/ W[k].folder = Nothing \/ Here(W[k].folder)
          \/ Here(k) /\ W[k].folder = stored[k].folder
  BY <1>5, Kinds
<1>12. Carry(W, strays, {})  BY <1>1, <1>4, <1>8
<1> QED  BY <1>6, <1>9, <1>10, <1>11, <1>12, CarriedKeepsInv

\* Commands that write no folder.
LEMMA ContentsKeepInv ==
    ASSUME KnowledgeInv, NEW W, NEW strays, NEW done, Writable(W), Carry(W, strays, done),
           \A f \in Folders : f \notin DOMAIN W,
           \A n \in Notes \cap DOMAIN W : W[n] # Nothing =>
              \/ W[n].folder = Nothing \/ Here(W[n].folder)
              \/ Here(n) /\ W[n].folder = stored[n].folder,
           \A n \in Notes \cap DOMAIN W : W[n] # Nothing /\ ~W[n].trashed =>
              \/ n \in strays \/ ParentActive(W[n].folder)
              \/ Standing(n) /\ W[n].folder = stored[n].folder
    PROVE  KnowledgeInv'
<1>1. ASSUME stored' = After(W), loose' = loose \cup strays
      PROVE  FoldersAreTree' /\ TrashHidesNothing'
  <2>1. \A k \in Things : stored'[k] = IF k \in DOMAIN W THEN W[k] ELSE stored[k]
    BY <1>1, RowsAfter
  <2>2. \A f \in Folders : stored'[f] = stored[f]  BY <2>1, Kinds
  <2>3. FoldersAreTree'  BY <2>2, FoldersStayTree DEF KnowledgeInv
  <2>4. \A p \in Folders : Standing(p) => Standing(p)'  BY <2>2 DEF Standing, Here
  <2>5. ASSUME NEW g \in Folders, Standing(g)', g \notin loose'
        PROVE  ParentActive(stored[g].parent)'
    <3>1. Standing(g) /\ g \notin loose /\ stored'[g] = stored[g]
      BY <2>2, <2>5, <1>1 DEF Standing, Here
    <3>2. ParentActive(stored[g].parent)  BY <3>1 DEF KnowledgeInv, TrashHidesNothing
    <3> QED  BY <3>1, <3>2, <2>4 DEF ParentActive
  <2>6. ASSUME NEW n \in Notes, Standing(n)', n \notin loose'
        PROVE  ParentActive(stored[n].folder)'
    <3>1. ParentActive(stored'[n].folder)
      <4>1. CASE n \in DOMAIN W
        <5>1. stored'[n] = W[n]  BY <4>1, <2>1, Kinds
        <5>2. W[n] # Nothing /\ ~W[n].trashed /\ n \notin strays /\ n \notin loose
          BY <5>1, <2>6, <1>1 DEF Standing, Here
        <5>3. CASE ParentActive(W[n].folder)  BY <5>1, <5>3
        <5>4. CASE Standing(n) /\ W[n].folder = stored[n].folder
          BY <5>1, <5>2, <5>4 DEF KnowledgeInv, TrashHidesNothing
        <5> QED  BY <4>1, <5>2, <5>3, <5>4
      <4>2. CASE n \notin DOMAIN W
        <5>1. stored'[n] = stored[n]  BY <4>2, <2>1, Kinds
        <5>2. Standing(n) /\ n \notin loose  BY <5>1, <2>6, <1>1 DEF Standing, Here
        <5> QED  BY <5>1, <5>2 DEF KnowledgeInv, TrashHidesNothing
      <4> QED  BY <4>1, <4>2
    <3> QED  BY <3>1, <2>4 DEF ParentActive
  <2>7. TrashHidesNothing'  BY <2>5, <2>6 DEF TrashHidesNothing
  <2> QED  BY <2>3, <2>7
<1>2. \A k \in Folders \cap DOMAIN W : W[k] # Nothing =>
          \/ W[k].parent = Nothing \/ Here(W[k].parent)
          \/ Here(k) /\ W[k].parent = stored[k].parent
  OBVIOUS
<1> QED  BY <1>1, <1>2, CarriedKeepsInv

\* The cascade of a deletion takes every active folder below, as a walk through
\* active ones reaches each that lies in one it takes, and empties them.
LEMMA TrashFolderKeepsInv ==
    ASSUME KnowledgeInv, NEW f \in Folders, TrashFolder(f)
    PROVE  KnowledgeInv'
<1>1. PICK folders : folders = {f} \cup Descent(f)  OBVIOUS
<1>2. PICK C : C = Contents(folders)  OBVIOUS
<1>3. PICK U : U = [g \in folders |-> [stored[g] EXCEPT !.trashed = TRUE]]  OBVIOUS
<1>4. PICK V : V = [k \in C |-> [stored[k] EXCEPT !.folder = Nothing]]  OBVIOUS
<1>5. PICK W : W = Both(U, V)  OBVIOUS
<1>6. Carry(W, {}, {})
  BY <1>1, <1>2, <1>3, <1>4, <1>5 DEF TrashFolder
<1>7. folders \subseteq Folders
  BY <1>1 DEF Descent, Reach
<1>8. \A g \in folders : Here(g)
  <2>1. Here(f)  BY DEF TrashFolder
  <2>2. ASSUME NEW g \in Descent(f), ~Here(g)  PROVE FALSE
    <3>1. \A S \in SUBSET Folders :
             f \in S /\ (\A e \in Downwards({h \in Folders : Standing(h)}) : e[1] \in S => e[2] \in S)
             => g \in S
      BY <2>2 DEF Descent, Reach
    <3>2. PICK S : S = {h \in Folders : Here(h)}  OBVIOUS
    <3>3. \A e \in Downwards({h \in Folders : Standing(h)}) : e[2] \in S
      BY <3>2 DEF Downwards, Standing
    <3> QED  BY <2>1, <2>2, <3>1, <3>2, <3>3
  <2> QED  BY <1>1, <2>1, <2>2
<1>9. /\ C \subseteq Notes \cup Quicks
      /\ \A k \in C : Here(k)
      /\ \A n \in Notes : Standing(n) /\ stored[n].folder \in folders => n \in C
  BY <1>2 DEF Contents, Standing
<1>10. /\ DOMAIN W = folders \cup C
       /\ \A g \in folders : W[g] = [stored[g] EXCEPT !.trashed = TRUE]
       /\ \A k \in C : k \notin folders => W[k] = [stored[k] EXCEPT !.folder = Nothing]
  BY <1>3, <1>4, <1>5 DEF Both
<1>11. \A g \in folders : /\ stored[g] \in FolderRow /\ W[g] \in FolderRow
                          /\ W[g].trashed = TRUE /\ W[g].parent = stored[g].parent
  <2> SUFFICES ASSUME NEW g \in folders
               PROVE  /\ stored[g] \in FolderRow /\ W[g] \in FolderRow
                      /\ W[g].trashed = TRUE /\ W[g].parent = stored[g].parent
    OBVIOUS
  <2>1. g \in Folders /\ g \in Things /\ g \notin Notes /\ g \notin Quicks  BY <1>7, Kinds
  <2>2. stored[g] \in FolderRow  BY <1>8, <2>1 DEF KnowledgeInv, RowsAreTyped, ItemsOf
  <2>3. W[g] = [stored[g] EXCEPT !.trashed = TRUE]  BY <1>10
  <2> QED  BY <2>2, <2>3 DEF FolderRow
<1>12. \A k \in C : k \notin folders /\ k \notin Folders /\ k \in Things
  BY <1>7, <1>9, Kinds
<1>13. \A n \in Notes \cap C : W[n] \in NoteRow /\ W[n].folder = Nothing
  <2> SUFFICES ASSUME NEW n \in Notes, n \in C
               PROVE  W[n] \in NoteRow /\ W[n].folder = Nothing
    OBVIOUS
  <2>1. n \notin Folders /\ n \notin Quicks /\ n \in Things  BY Kinds
  <2>2. stored[n] \in NoteRow  BY <1>9, <2>1 DEF KnowledgeInv, RowsAreTyped, ItemsOf
  <2>3. W[n] = [stored[n] EXCEPT !.folder = Nothing]  BY <1>10, <1>12
  <2> QED  BY <2>2, <2>3 DEF NoteRow, Locations
<1>14. \A q \in Quicks \cap C : W[q] \in QuickRow
  <2> SUFFICES ASSUME NEW q \in Quicks, q \in C
               PROVE  W[q] \in QuickRow
    OBVIOUS
  <2>1. q \notin Folders /\ q \notin Notes /\ q \in Things  BY Kinds
  <2>2. stored[q] \in QuickRow  BY <1>9, <2>1 DEF KnowledgeInv, RowsAreTyped, ItemsOf
  <2>3. W[q] = [stored[q] EXCEPT !.folder = Nothing]  BY <1>10, <1>12
  <2> QED  BY <2>2, <2>3 DEF QuickRow, Locations
<1>15. Writable(W)
  <2>1. DOMAIN W \subseteq Things  BY <1>7, <1>10, <1>12, Kinds
  <2>2. \A k \in DOMAIN W : ItemsOf(k, W[k])
    BY <1>7, <1>9, <1>10, <1>11, <1>13, <1>14 DEF ItemsOf
  <2> QED  BY <2>1, <2>2 DEF Writable
<1>16. ASSUME stored' = After(W), loose' = loose \cup {}
       PROVE  FoldersAreTree' /\ TrashHidesNothing'
  <2>1. \A k \in Things : stored'[k] = IF k \in DOMAIN W THEN W[k] ELSE stored[k]
    BY <1>16, RowsAfter
  <2>2. \A g \in Folders : stored'[g] # Nothing =>
          stored[g] # Nothing /\ stored'[g].parent = stored[g].parent
    <3> SUFFICES ASSUME NEW g \in Folders, stored'[g] # Nothing
                 PROVE  stored[g] # Nothing /\ stored'[g].parent = stored[g].parent
      OBVIOUS
    <3>1. CASE g \in folders  BY <3>1, <1>8, <1>10, <1>11, <2>1, Kinds DEF Here
    <3>2. CASE g \notin folders
      <4>1. g \notin DOMAIN W  BY <3>2, <1>10, <1>12
      <4> QED  BY <4>1, <2>1, Kinds
    <3> QED  BY <3>1, <3>2
  <2>3. FoldersAreTree'  BY <2>2, FoldersStayTree DEF KnowledgeInv
  <2>4. \A g \in Folders : IF g \in folders THEN ~Standing(g)'
                           ELSE stored'[g] = stored[g] /\ (Standing(g) <=> Standing(g)')
    <3> SUFFICES ASSUME NEW g \in Folders
                 PROVE  IF g \in folders THEN ~Standing(g)'
                        ELSE stored'[g] = stored[g] /\ (Standing(g) <=> Standing(g)')
      OBVIOUS
    <3>1. CASE g \in folders
      BY <3>1, <1>10, <1>11, <2>1, Kinds DEF Standing
    <3>2. CASE g \notin folders
      <4>1. g \notin DOMAIN W  BY <3>2, <1>10, <1>12
      <4>2. stored'[g] = stored[g]  BY <4>1, <2>1, Kinds
      <4> QED  BY <3>2, <4>2 DEF Standing, Here
    <3> QED  BY <3>1, <3>2
  <2>5. ASSUME NEW g \in Folders, Standing(g)', g \notin loose'
        PROVE  ParentActive(stored[g].parent)'
    <3>1. g \notin folders /\ Standing(g) /\ stored'[g] = stored[g] /\ g \notin loose
      BY <2>4, <2>5, <1>16
    <3>2. ParentActive(stored[g].parent)  BY <3>1 DEF KnowledgeInv, TrashHidesNothing
    <3>3. stored[g].parent \notin folders
      BY <3>1, <1>1, <1>7, DescentGoesDown
    <3> QED  BY <3>1, <3>2, <3>3, <2>4 DEF ParentActive
  <2>6. ASSUME NEW n \in Notes, Standing(n)', n \notin loose'
        PROVE  ParentActive(stored[n].folder)'
    <3>1. CASE n \in C
      <4>1. stored'[n].folder = Nothing  BY <3>1, <1>10, <1>13, <2>1, Kinds
      <4> QED  BY <4>1, Kinds DEF ParentActive
    <3>2. CASE n \notin C
      <4>1. n \notin DOMAIN W  BY <3>2, <1>7, <1>10, Kinds
      <4>2. stored'[n] = stored[n]  BY <4>1, <2>1, Kinds
      <4>3. Standing(n) /\ n \notin loose  BY <4>2, <1>16, <2>6 DEF Standing, Here
      <4>4. ParentActive(stored[n].folder)  BY <4>3 DEF KnowledgeInv, TrashHidesNothing
      <4>5. stored[n].folder \notin folders  BY <3>2, <4>3, <1>9
      <4> QED  BY <4>2, <4>4, <4>5, <2>4 DEF ParentActive
    <3> QED  BY <3>1, <3>2
  <2>7. TrashHidesNothing'  BY <2>5, <2>6 DEF TrashHidesNothing
  <2> QED  BY <2>3, <2>7
<1>17. \A k \in Folders \cap DOMAIN W : W[k] # Nothing =>
          \/ W[k].parent = Nothing \/ Here(W[k].parent)
          \/ Here(k) /\ W[k].parent = stored[k].parent
  BY <1>8, <1>10, <1>11, <1>12
<1>18. \A k \in Notes \cap DOMAIN W : W[k] # Nothing =>
          \/ W[k].folder = Nothing \/ Here(W[k].folder)
          \/ Here(k) /\ W[k].folder = stored[k].folder
  BY <1>7, <1>10, <1>13, Kinds
<1> QED  BY <1>6, <1>15, <1>16, <1>17, <1>18, CarriedKeepsInv

\* A purge removes the folders read that nobody wrote since; what is active in
\* them is loose from then on.
LEMMA PurgeFolderKeepsInv ==
    ASSUME KnowledgeInv, NEW r \in Askers, PurgeFolder(r)
    PROVE  KnowledgeInv'
<1>1. PICK accepted : accepted = {f \in asking[r].keys \ asking[r].stale : Here(f)}  OBVIOUS
<1>2. PICK W : W = [f \in accepted |-> Nothing]  OBVIOUS
<1>3. PICK strays : strays = Strays(accepted) \ accepted  OBVIOUS
<1>4. Carry(W, strays, {r})  BY <1>1, <1>2, <1>3 DEF PurgeFolder
<1>5. accepted \subseteq Folders
  BY <1>1 DEF PurgeFolder, KnowledgeInv, AskingIsTyped
<1>6. DOMAIN W = accepted /\ \A k \in accepted : W[k] = Nothing  BY <1>2
<1>7. Writable(W)  BY <1>5, <1>6, Kinds DEF Writable
<1>8. ASSUME stored' = After(W), loose' = loose \cup strays
      PROVE  FoldersAreTree' /\ TrashHidesNothing'
  <2>1. \A k \in Things : stored'[k] = IF k \in accepted THEN Nothing ELSE stored[k]
    BY <1>6, <1>8, RowsAfter
  <2>2. \A g \in Folders : stored'[g] # Nothing =>
          stored[g] # Nothing /\ stored'[g].parent = stored[g].parent
    BY <2>1, Kinds
  <2>3. FoldersAreTree'  BY <2>2, FoldersStayTree DEF KnowledgeInv
  <2>4. ASSUME NEW p, p \in Folders \ accepted, Standing(p)
        PROVE  Standing(p)'
    <3>1. stored'[p] = stored[p]  BY <2>1, <2>4, Kinds
    <3> QED  BY <2>4, <3>1 DEF Standing, Here
  <2>5. ASSUME NEW k \in Shelved, Standing(k)', k \notin loose'
        PROVE  stored'[k] = stored[k] /\ Standing(k) /\ k \notin loose /\ k \notin Strays(accepted)
    <3>1. k \notin accepted /\ stored'[k] = stored[k]
      BY <2>1, <2>5, Kinds DEF Standing, Here
    <3> QED  BY <3>1, <2>5, <1>3, <1>8 DEF Standing, Here
  <2>6. ASSUME NEW g \in Folders, Standing(g)', g \notin loose'
        PROVE  ParentActive(stored[g].parent)'
    <3>1. stored'[g] = stored[g] /\ Standing(g) /\ g \notin loose /\ g \notin Strays(accepted)
      BY <2>5, <2>6, Kinds
    <3>2. ParentActive(stored[g].parent)  BY <3>1 DEF KnowledgeInv, TrashHidesNothing
    <3>3. stored[g].parent \notin accepted  BY <3>1 DEF Strays
    <3> QED  BY <3>1, <3>2, <3>3, <2>4 DEF ParentActive
  <2>7. ASSUME NEW n \in Notes, Standing(n)', n \notin loose'
        PROVE  ParentActive(stored[n].folder)'
    <3>1. stored'[n] = stored[n] /\ Standing(n) /\ n \notin loose /\ n \notin Strays(accepted)
      BY <2>5, <2>7, Kinds
    <3>2. ParentActive(stored[n].folder)  BY <3>1 DEF KnowledgeInv, TrashHidesNothing
    <3>3. stored[n].folder \notin accepted  BY <3>1 DEF Strays
    <3> QED  BY <3>1, <3>2, <3>3, <2>4 DEF ParentActive
  <2>8. TrashHidesNothing'  BY <2>6, <2>7 DEF TrashHidesNothing
  <2> QED  BY <2>3, <2>8
<1>9. \A k \in DOMAIN W : W[k] = Nothing  BY <1>6
<1> QED  BY <1>4, <1>7, <1>8, <1>9, CarriedKeepsInv

\* What a request reads changes nothing of the rows.
LEMMA ReadsKeepInv ==
    ASSUME KnowledgeInv, UNCHANGED <<stored, gone, index, file, loose, stuck, cast>>,
           NEW r \in Askers, NEW asked, asking' = [asking EXCEPT ![r] = asked],
           asked \in Askings,
           asked.op = "purge" => asked.keys \subseteq Folders,
           asked.op = "convert" => asked.of \in Quicks /\ asked.note \in Notes
    PROVE  KnowledgeInv'
<1>1. AskingIsTyped'
  <2>1. asking = [s \in Askers |-> asking[s]]  BY DEF KnowledgeInv, AskingIsTyped
  <2>2. asking' = [s \in Askers |-> IF s = r THEN asked ELSE asking[s]]
    BY <2>1
  <2> HIDE <2>1
  <2>3. asking' = [s \in Askers |-> asking'[s]]  BY <2>2
  <2>4. \A s \in Askers : asking'[s] = IF s = r THEN asked ELSE asking[s]  BY <2>2
  <2> QED  BY <2>3, <2>4 DEF KnowledgeInv, AskingIsTyped
<1>2. UNCHANGED <<stored, gone, index, file, loose, cast>>  OBVIOUS
<1>3. RowsAreTyped'  BY <1>2 DEF KnowledgeInv, RowsAreTyped, Here
<1>4. FoldersAreTree'  BY <1>2 DEF KnowledgeInv, FoldersAreTree, Here
<1>5. LocationsAreKnown'  BY <1>2 DEF KnowledgeInv, LocationsAreKnown, Here
<1>6. TrashHidesNothing'
  BY <1>2 DEF KnowledgeInv, TrashHidesNothing, Here, Standing, ParentActive
<1>7. Shown'  BY <1>2 DEF KnowledgeInv, Shown, Here
<1>8. cast' \in Casts  BY <1>2 DEF KnowledgeInv
<1> QED  BY <1>1, <1>3, <1>4, <1>5, <1>6, <1>7, <1>8 DEF KnowledgeInv

\* The reads before a lease: of a row, of what lies below a folder, of a quick
\* note; and the end of a request that failed.
LEMMA AskKeepsInv ==
    ASSUME KnowledgeInv, NEW r \in Askers, NEW k \in Folders \cup Quicks, Ask(r, k)
    PROVE  KnowledgeInv'
<1>1. PICK asked : asked = Asked("ask", k, {k}, Nothing, Nothing)  OBVIOUS
<1>2. asking' = [asking EXCEPT ![r] = asked]  BY <1>1 DEF Ask
<1>3. k \in Things  BY Kinds
<1>4. /\ asked \in Askings
      /\ asked.op = "ask"
  BY <1>1, <1>3 DEF Asked, Askings, Locations
<1>5. UNCHANGED <<stored, gone, index, file, loose, stuck, cast>>  BY DEF Ask
<1> HIDE DEF Asked
<1> QED  BY <1>2, <1>4, <1>5, ReadsKeepInv

LEMMA FailKeepsInv ==
    ASSUME KnowledgeInv, NEW r \in Askers, Fail(r)
    PROVE  KnowledgeInv'
<1>1. PICK asked : asked = NotAsking  OBVIOUS
<1>2. asking' = [asking EXCEPT ![r] = asked]  BY <1>1 DEF Fail
<1>3. /\ asked \in Askings
      /\ asked.op = "none"
  BY <1>1 DEF NotAsking, Asked, Askings, Locations
<1>4. UNCHANGED <<stored, gone, index, file, loose, stuck, cast>>  BY DEF Fail
<1> QED  BY <1>2, <1>3, <1>4, ReadsKeepInv

LEMMA ReadFamilyKeepsInv ==
    ASSUME KnowledgeInv, NEW r \in Askers, ReadFamily(r)
    PROVE  KnowledgeInv'
<1>1. asking = [s \in Askers |-> asking[s]]  BY DEF KnowledgeInv, AskingIsTyped
<1>2. PICK keys : keys = {asking[r].of} \cup Subtree(asking[r].of)  OBVIOUS
<1>3. PICK asked : asked = [asking[r] EXCEPT !.op = "purge", !.keys = keys]  OBVIOUS
<1>4. asking' = [asking EXCEPT ![r] = asked]  BY <1>1, <1>2, <1>3 DEF ReadFamily
<1>5. keys \subseteq Folders  BY <1>2 DEF ReadFamily, Subtree, Reach
<1>6. keys \subseteq Things  BY <1>5, Kinds
<1>7. asking[r] \in Askings
  BY DEF KnowledgeInv, AskingIsTyped
<1>8. /\ asked \in Askings
      /\ asked.op = "purge" /\ asked.keys = keys
  BY <1>3, <1>6, <1>7 DEF Askings
<1>9. UNCHANGED <<stored, gone, index, file, loose, stuck, cast>>  BY DEF ReadFamily
<1> QED  BY <1>4, <1>5, <1>8, <1>9, ReadsKeepInv

LEMMA ReadQuickKeepsInv ==
    ASSUME KnowledgeInv, NEW r \in Askers, NEW n \in Notes, ReadQuick(r, n)
    PROVE  KnowledgeInv'
<1>1. asking = [s \in Askers |-> asking[s]]  BY DEF KnowledgeInv, AskingIsTyped
<1>2. PICK folder : folder = stored[asking[r].of].folder  OBVIOUS
<1>3. PICK asked : asked = [asking[r] EXCEPT !.op = "convert", !.note = n, !.folder = folder]
  OBVIOUS
<1>4. asking' = [asking EXCEPT ![r] = asked]  BY <1>1, <1>2, <1>3 DEF ReadQuick
<1>5. folder \in Locations
  <2>1. PICK q \in Quicks : q = asking[r].of  BY DEF ReadQuick
  <2>2. Here(q)  BY <2>1 DEF ReadQuick, Standing
  <2>3. q \in Things /\ q \notin Folders /\ q \notin Notes  BY Kinds
  <2>4. stored[q] \in QuickRow  BY <2>2, <2>3 DEF KnowledgeInv, RowsAreTyped, ItemsOf
  <2> QED  BY <2>1, <2>4, <1>2 DEF QuickRow
<1>6. asking[r] \in Askings
  BY DEF KnowledgeInv, AskingIsTyped
<1>7. /\ asked \in Askings
      /\ asked.op = "convert" /\ asked.of = asking[r].of /\ asked.note = n
  BY <1>3, <1>5, <1>6 DEF Askings
<1>8. asking[r].of \in Quicks  BY DEF ReadQuick
<1>9. UNCHANGED <<stored, gone, index, file, loose, stuck, cast>>  BY DEF ReadQuick
<1> QED  BY <1>4, <1>7, <1>8, <1>9, ReadsKeepInv

\* What a command about one note or one quick note may write.
Settled(k, row, strays) ==
    \/ row = Nothing
    \/ k \in Quicks /\ row \in QuickRow
    \/ /\ k \in Notes /\ row \in NoteRow
       /\ \/ row.folder = Nothing \/ Here(row.folder)
          \/ Here(k) /\ row.folder = stored[k].folder
       /\ \/ row.trashed \/ k \in strays \/ ParentActive(row.folder)
          \/ Standing(k) /\ row.folder = stored[k].folder

LEMMA OneRowKeepsInv ==
    ASSUME KnowledgeInv, NEW k \in Notes \cup Quicks, NEW row, NEW strays, NEW done,
           Settled(k, row, strays), Carry(Just(k, row), strays, done)
    PROVE  KnowledgeInv'
<1>1. PICK W : W = Just(k, row)  OBVIOUS
<1>2. DOMAIN W = {k} /\ W[k] = row  BY <1>1 DEF Just
<1>3. Writable(W)  BY <1>2, Kinds DEF Writable, ItemsOf, Settled
<1>4. \A f \in Folders : f \notin DOMAIN W  BY <1>2, Kinds
<1>5. Carry(W, strays, done)  BY <1>1
<1>6. \A n \in Notes \cap DOMAIN W : W[n] # Nothing =>
        \/ W[n].folder = Nothing \/ Here(W[n].folder)
        \/ Here(n) /\ W[n].folder = stored[n].folder
  BY <1>2, Kinds DEF Settled
<1>7. \A n \in Notes \cap DOMAIN W : W[n] # Nothing /\ ~W[n].trashed =>
        \/ n \in strays \/ ParentActive(W[n].folder)
        \/ Standing(n) /\ W[n].folder = stored[n].folder
  BY <1>2, Kinds DEF Settled
<1> QED  BY <1>3, <1>4, <1>5, <1>6, <1>7, ContentsKeepInv

\* A note that exists has the row of a note.
LEMMA NotesAreRows ==
    ASSUME KnowledgeInv, NEW n \in Notes
    PROVE  Here(n) => stored[n] \in NoteRow
BY Kinds DEF KnowledgeInv, RowsAreTyped, ItemsOf

\* A note is placed in an active folder or stays where it is; a restored one
\* is loose.
LEMMA NoteActionsKeepInv ==
    ASSUME KnowledgeInv, NEW n \in Notes,
           CreateNote(n) \/ UpdateNote(n) \/ RestoreNote(n) \/ PurgeNote(n)
    PROVE  KnowledgeInv'
<1>1. ASSUME NEW row \in SomeNoteRow
      PROVE  /\ row \in NoteRow
             /\ ParentActive(row.folder) => row.folder = Nothing \/ Here(row.folder)
  <2>1. row \in NoteRow
    BY CastsAssumption DEF KnowledgeInv, SomeNoteRow, NoteRow, Locations
  <2>2. row.folder \in Locations  BY <2>1 DEF NoteRow
  <2> QED  BY <2>1, <2>2 DEF ParentActive, Locations, Standing
<1>2. CASE CreateNote(n)
  <2>1. PICK row \in SomeNoteRow : ParentActive(row.folder) /\ Carry(Just(n, row), {}, {})
    BY <1>2 DEF CreateNote
  <2>2. Settled(n, row, {})  BY <1>1, <2>1 DEF Settled
  <2> QED  BY <2>1, <2>2, OneRowKeepsInv
<1>3. CASE UpdateNote(n)
  <2>1. PICK row \in SomeNoteRow : /\ row.folder # stored[n].folder => ParentActive(row.folder)
                                   /\ Carry(Just(n, row), {}, {})
    BY <1>3 DEF UpdateNote
  <2>2. Standing(n) /\ Here(n)  BY <1>3 DEF UpdateNote, Standing
  <2>3. Settled(n, row, {})  BY <1>1, <2>1, <2>2 DEF Settled
  <2> QED  BY <2>1, <2>3, OneRowKeepsInv
<1>4. CASE RestoreNote(n)
  <2>1. PICK row : row = [stored[n] EXCEPT !.trashed = FALSE]  OBVIOUS
  <2>2. Here(n) /\ Carry(Just(n, row), {n}, {})  BY <1>4, <2>1 DEF RestoreNote
  <2>3. row \in NoteRow /\ row.folder = stored[n].folder
    BY <2>1, <2>2, NotesAreRows DEF NoteRow
  <2>4. Settled(n, row, {n})  BY <2>2, <2>3 DEF Settled
  <2> QED  BY <2>2, <2>4, OneRowKeepsInv
<1>5. CASE PurgeNote(n)
  <2>1. Settled(n, Nothing, {})  BY DEF Settled
  <2>2. Carry(Just(n, Nothing), {}, {})  BY <1>5 DEF PurgeNote
  <2> QED  BY <2>1, <2>2, OneRowKeepsInv
<1> QED  BY <1>2, <1>3, <1>4, <1>5

\* Quick notes are not shown, and nothing lies in them.
LEMMA QuickActionsKeepInv ==
    ASSUME KnowledgeInv, NEW q \in Quicks, WriteQuick(q) \/ DeleteQuick(q)
    PROVE  KnowledgeInv'
<1>1. CASE WriteQuick(q)
  <2>1. PICK row \in SomeQuickRow : Carry(Just(q, row), {}, {})
    BY <1>1 DEF WriteQuick
  <2>2. row \in QuickRow
    BY <2>1, CastsAssumption DEF KnowledgeInv, SomeQuickRow, QuickRow, Locations
  <2>3. Settled(q, row, {})  BY <2>2 DEF Settled
  <2> QED  BY <2>1, <2>3, OneRowKeepsInv
<1>2. CASE DeleteQuick(q)
  <2>1. Settled(q, Nothing, {})  BY DEF Settled
  <2>2. Carry(Just(q, Nothing), {}, {})  BY <1>2 DEF DeleteQuick
  <2> QED  BY <2>1, <2>2, OneRowKeepsInv
<1> QED  BY <1>1, <1>2

\* The note of a conversion lies in a folder that is active when the command
\* is compiled, whichever of its two commands are accepted.
LEMMA ConvertQuickKeepsInv ==
    ASSUME KnowledgeInv, NEW r \in Askers, ConvertQuick(r)
    PROVE  KnowledgeInv'
<1>1. PICK q \in Quicks, n \in Notes : q = asking[r].of /\ n = asking[r].note
  BY DEF ConvertQuick, KnowledgeInv, AskingIsTyped
<1>2. PICK creates \in BOOLEAN, archives \in BOOLEAN :
        /\ creates = (~Here(n) /\ ParentActive(asking[r].folder))
        /\ archives = (Here(q) /\ q \notin asking[r].stale)
  OBVIOUS
<1>3. PICK folder \in Locations : folder = asking[r].folder
  BY DEF KnowledgeInv, AskingIsTyped, Askings
<1>4. /\ creates \/ archives
      /\ \E h \in cast.headings :
           LET note == [title |-> h, folder |-> asking[r].folder, trashed |-> FALSE]
               quick == [stored[q] EXCEPT !.note = n]
           IN Carry(IF creates /\ archives THEN Both(Just(n, note), Just(q, quick))
                    ELSE IF creates THEN Just(n, note) ELSE Just(q, quick),
                    {}, {r})
  BY <1>1, <1>2 DEF ConvertQuick
<1>5. PICK h \in cast.headings :
        LET note == [title |-> h, folder |-> asking[r].folder, trashed |-> FALSE]
            quick == [stored[q] EXCEPT !.note = n]
        IN Carry(IF creates /\ archives THEN Both(Just(n, note), Just(q, quick))
                 ELSE IF creates THEN Just(n, note) ELSE Just(q, quick),
                 {}, {r})
  BY <1>4
<1>6. PICK note : note = [title |-> h, folder |-> folder, trashed |-> FALSE]  OBVIOUS
<1>7. PICK quick : quick = [stored[q] EXCEPT !.note = n]  OBVIOUS
<1>8. Carry(IF creates /\ archives THEN Both(Just(n, note), Just(q, quick))
            ELSE IF creates THEN Just(n, note) ELSE Just(q, quick),
            {}, {r})
  BY <1>3, <1>5, <1>6, <1>7
<1>9. note \in NoteRow /\ note.folder = folder
  BY <1>6, CastsAssumption DEF KnowledgeInv, NoteRow
<1>10. archives => quick \in QuickRow
  <2> SUFFICES ASSUME archives  PROVE quick \in QuickRow  OBVIOUS
  <2>1. Here(q)  BY <1>2
  <2>2. stored[q] \in QuickRow  BY <2>1, Kinds DEF KnowledgeInv, RowsAreTyped, ItemsOf
  <2> QED  BY <2>2, <1>7 DEF QuickRow
<1>11. creates => /\ ParentActive(folder)
                  /\ folder = Nothing \/ Here(folder)
  BY <1>2, <1>3 DEF ParentActive, Locations, Standing
<1>12. n # q /\ q \notin Notes /\ q \notin Folders /\ n \notin Quicks /\ n \notin Folders
       /\ n \in Things /\ q \in Things
  BY Kinds
<1>13. CASE creates /\ archives
  <2>1. PICK W : W = Both(Just(n, note), Just(q, quick))  OBVIOUS
  <2>2. DOMAIN W = {n, q} /\ W[n] = note /\ W[q] = quick
    BY <2>1, <1>12 DEF Both, Just
  <2>3. Carry(W, {}, {r})  BY <1>8, <1>13, <2>1
  <2>4. Writable(W)  BY <2>2, <1>9, <1>10, <1>12, <1>13 DEF Writable, ItemsOf
  <2>5. \A f \in Folders : f \notin DOMAIN W  BY <2>2, <1>12
  <2>6. \A m \in Notes \cap DOMAIN W : W[m] # Nothing =>
          \/ W[m].folder = Nothing \/ Here(W[m].folder)
          \/ Here(m) /\ W[m].folder = stored[m].folder
    BY <2>2, <1>9, <1>11, <1>12, <1>13
  <2>7. \A m \in Notes \cap DOMAIN W : W[m] # Nothing /\ ~W[m].trashed =>
          \/ m \in {} \/ ParentActive(W[m].folder)
          \/ Standing(m) /\ W[m].folder = stored[m].folder
    BY <2>2, <1>9, <1>11, <1>12, <1>13
  <2> QED  BY <2>3, <2>4, <2>5, <2>6, <2>7, ContentsKeepInv
<1>14. CASE creates /\ ~archives
  <2>1. Carry(Just(n, note), {}, {r})  BY <1>8, <1>14
  <2>2. Settled(n, note, {})  BY <1>9, <1>11, <1>14 DEF Settled
  <2> QED  BY <2>1, <2>2, OneRowKeepsInv
<1>15. CASE ~creates
  <2>1. archives /\ Carry(Just(q, quick), {}, {r})  BY <1>4, <1>8, <1>15
  <2>2. Settled(q, quick, {})  BY <2>1, <1>10 DEF Settled
  <2> QED  BY <2>1, <2>2, OneRowKeepsInv
<1> QED  BY <1>13, <1>14, <1>15

\* An empty Space.
LEMMA KnowledgeInvHoldsAtFirst == TreeInit => KnowledgeInv
<1> SUFFICES ASSUME TreeInit  PROVE KnowledgeInv  OBVIOUS
<1> USE DEF TreeInit
<1>1. \A k \in Things : ~Here(k)  BY DEF Here
<1>2. RowsAreTyped  BY <1>1 DEF RowsAreTyped
<1>3. AskingIsTyped  BY DEF AskingIsTyped, Askings, NotAsking, Asked, Locations
<1>4. FoldersAreTree  BY <1>1, Kinds DEF FoldersAreTree
<1>5. LocationsAreKnown  BY <1>1, Kinds DEF LocationsAreKnown
<1>6. TrashHidesNothing  BY <1>1, Kinds DEF TrashHidesNothing, Standing
<1>7. \A k \in Shelved : ShownAs(k, stored[k]) = Nothing
  BY <1>1, Kinds DEF ShownAs, Here
<1>8. \A p \in Paths : p[2] \in Things  BY Kinds DEF Paths
<1>9. index = [k \in Shelved |-> ShownAs(k, stored[k])]  BY <1>7
<1>10. file = [p \in Paths |-> IF Here(p[2]) /\ p = NotePath(p[2], stored[p[2]])
                               THEN Frontmatter(stored[p[2]]) ELSE Nothing]
  BY <1>1, <1>8
<1> QED  BY <1>2, <1>3, <1>4, <1>5, <1>6, <1>9, <1>10 DEF KnowledgeInv, Shown

\* For any folders, notes and quick notes, any names and titles and what paths
\* keep of them, and any requests: the invariant holds of every behaviour of
\* the commands of the knowledge.
THEOREM KnowledgeInvariance == TreeSpec => []KnowledgeInv
<1>1. TreeInit => KnowledgeInv  BY KnowledgeInvHoldsAtFirst
<1>2. KnowledgeInv /\ [TreeNext]_treeVars => KnowledgeInv'
  <2> SUFFICES ASSUME KnowledgeInv, [TreeNext]_treeVars  PROVE KnowledgeInv'  OBVIOUS
  <2>1. /\ cast.folders \subseteq Folders /\ cast.notes \subseteq Notes
        /\ cast.quicks \subseteq Quicks
    BY CastsAssumption DEF KnowledgeInv
  <2>2. CASE \E f \in cast.folders : CreateFolder(f) \/ UpdateFolder(f) \/ TrashFolder(f)
    BY <2>1, <2>2, CreateFolderKeepsInv, UpdateFolderKeepsInv, TrashFolderKeepsInv
  <2>3. CASE \E n \in cast.notes :
               CreateNote(n) \/ UpdateNote(n) \/ RestoreNote(n) \/ PurgeNote(n)
    BY <2>1, <2>3, NoteActionsKeepInv
  <2>4. CASE \E q \in cast.quicks : WriteQuick(q) \/ DeleteQuick(q)
    BY <2>1, <2>4, QuickActionsKeepInv
  <2>5. ASSUME NEW r \in Askers,
               \/ \E k \in cast.folders \cup cast.quicks : Ask(r, k)
               \/ Fail(r) \/ ReadFamily(r) \/ PurgeFolder(r) \/ ConvertQuick(r)
               \/ \E n \in cast.notes : ReadQuick(r, n)
        PROVE  KnowledgeInv'
    BY <2>1, <2>5, AskKeepsInv, FailKeepsInv, ReadFamilyKeepsInv, PurgeFolderKeepsInv,
       ConvertQuickKeepsInv, ReadQuickKeepsInv
  <2>6. CASE UNCHANGED treeVars
    BY <2>6 DEF treeVars, KnowledgeInv, RowsAreTyped, AskingIsTyped, FoldersAreTree,
                LocationsAreKnown, TrashHidesNothing, Shown, Here, Standing, ParentActive
  <2> QED  BY <2>2, <2>3, <2>4, <2>5, <2>6 DEF TreeNext
<1> QED  BY <1>1, <1>2, PTL DEF TreeSpec

\* Folders form a tree, locations are known, a deletion hides no active thing
\* but the loose ones, and the derived stores show the rows, however commands,
\* purges and conversions interleave (FolderPolicy, NotePolicy, the cascade).
THEOREM KnowledgeStays == TreeSpec => []KnowledgeHolds
<1>1. KnowledgeInv => KnowledgeHolds
  <2> SUFFICES ASSUME KnowledgeInv  PROVE ShelvesShowRows
    BY DEF KnowledgeInv, KnowledgeHolds
  <2>1. \A k \in Shelved : index[k] = ShownAs(k, stored[k])
    BY DEF KnowledgeInv, Shown
  <2>2. \A p \in Paths : file[p] = IF Here(p[2]) /\ p = NotePath(p[2], stored[p[2]])
                                   THEN Frontmatter(stored[p[2]]) ELSE Nothing
    BY DEF KnowledgeInv, Shown
  <2> QED  BY <2>1, <2>2 DEF ShelvesShowRows
<1> QED  BY <1>1, KnowledgeInvariance, PTL
=============================================================================
