--------------------------- MODULE KnowledgeTree ---------------------------
(***************************************************************************)
(* The knowledge of one Space: folders in a tree, the notes and the quick  *)
(* notes in them, and what the derived stores show of folders and notes.   *)
(*                                                                         *)
(* No foreign key ties a row to its folder: every rule of the tree is in   *)
(* the code that compiles a command.  A command is compiled and carried    *)
(* out under one lease, so that it is one action here.  A purge of a       *)
(* folder and the conversion of a quick note read rows before they have    *)
(* the lease; their commands then name the versions read, and each of them *)
(* is refused on its own when its row was written since (stale).           *)
(*                                                                         *)
(* Requests come from pages, with a patch, and from devices, which push    *)
(* whole rows.  A request that names an old version is refused without     *)
(* effect, or wins by its timestamp and then applies to the rows as they   *)
(* are; so versions do not appear.  Left out: contents, comments, colours  *)
(* and orders, the text search, and batches of several edits of one push.  *)
(***************************************************************************)
EXTENDS Naturals, FiniteSets

CONSTANTS Folders, Notes, Quicks,   \* identities of the rows
          FolderNames,
          Headings, Slug,           \* titles, and what file names keep of them
          Askers,                   \* requests that read before their lease
          Casts,                    \* who takes part in a behaviour: sets of
                                    \* folders, names, notes, headings, quicks
          Nothing

Shelved == Folders \cup Notes       \* what the index shows
Things == Shelved \cup Quicks
Locations == Folders \cup {Nothing}

ASSUME ThingsAssumption ==
    /\ Folders \cap Notes = {} /\ Shelved \cap Quicks = {}
    /\ Nothing \notin Things
ASSUME SlugAssumption == DOMAIN Slug = Headings
ASSUME CastsAssumption ==
    \A c \in Casts : /\ c.folders \subseteq Folders /\ c.names \subseteq FolderNames
                     /\ c.notes \subseteq Notes /\ c.headings \subseteq Headings
                     /\ c.quicks \subseteq Quicks

FolderRow == [name : FolderNames, parent : Locations, trashed : BOOLEAN]
NoteRow == [title : Headings, folder : Locations, trashed : BOOLEAN]
\* note: what it was converted to, when it is archived
QuickRow == [folder : Locations, trashed : BOOLEAN, note : Notes \cup {Nothing}]

Paths == Locations \X Notes \X {Slug[h] : h \in Headings}
NotePath(n, row) == <<row.folder, n, Slug[row.title]>>

\* What the index has of a note, and what the head of its file says.
Entry(n, row) == [row |-> row, path |-> NotePath(n, row)]
Frontmatter(row) == [title |-> row.title, folder |-> row.folder]

ASSUME NothingAssumption ==
    Nothing \notin FolderRow \cup NoteRow \cup QuickRow
                    \cup [row : NoteRow, path : Paths] \cup [title : Headings, folder : Locations]

VARIABLES stored,   \* the rows
          gone,     \* what has a tombstone
          index,    \* the entries of folders and notes
          file,     \* path -> the Markdown there
          loose,    \* what is active where its folder is not (see Strays)
          asking,   \* what a request has read
          stuck,    \* a batch is staged that can never commit
          cast

treeVars == <<stored, gone, index, file, loose, asking, stuck, cast>>

Asked(op, of, keys, folder, note) ==
    [op |-> op, of |-> of, keys |-> keys, stale |-> {}, folder |-> folder, note |-> note]
NotAsking == Asked("none", Nothing, {}, Nothing, Nothing)

Here(k) == stored[k] # Nothing
Standing(k) == Here(k) /\ ~stored[k].trashed

TreeInit ==
    /\ cast \in Casts
    /\ stored = [k \in Things |-> Nothing]
    /\ gone = {} /\ loose = {}
    /\ index = [k \in Shelved |-> Nothing]
    /\ file = [p \in Paths |-> Nothing]
    /\ asking = [r \in Askers |-> NotAsking]
    /\ stuck = FALSE

----------------------------------------------------------------------------
(* The tree. *)

\* The ends of the walks from f along the edges.
Reach(f, edges) ==
    {g \in Folders : \A S \in SUBSET Folders :
        f \in S /\ (\A e \in edges : e[1] \in S => e[2] \in S) => g \in S}

Upwards == {e \in Folders \X Folders : Here(e[1]) /\ stored[e[1]].parent = e[2]}
Downwards(S) == {e \in Folders \X S : Here(e[2]) /\ stored[e[2]].parent = e[1]}

Subtree(f) == Reach(f, Downwards(Folders))
Descent(f) == Reach(f, Downwards({g \in Folders : Standing(g)}))

ParentActive(p) == p \in Folders => Standing(p)

\* Faulty: looks no further than the new parent and its own.
NoCycleNear(f, p) == f # p /\ ~(Here(p) /\ stored[p].parent = f)

\* The walk up from p comes to an end without f.
NoCycle(f, p) ==
    LET walk == Reach(p, Upwards) IN
    /\ f \notin walk
    /\ \E g \in walk : Here(g) => stored[g].parent = Nothing

----------------------------------------------------------------------------
(* A command: what it writes, a row or its removal. *)

Just(k, row) == [x \in {k} |-> row]
Both(w, v) == [k \in DOMAIN w \cup DOMAIN v |-> IF k \in DOMAIN w THEN w[k] ELSE v[k]]
After(writes) == [k \in Things |-> IF k \in DOMAIN writes THEN writes[k] ELSE stored[k]]

\* The unique indexes over parent and name, trashed folders included.
NamesCollide(rows) ==
    \E f, g \in Folders :
        /\ f # g /\ rows[f] # Nothing /\ rows[g] # Nothing
        /\ rows[f].parent = rows[g].parent /\ rows[f].name = rows[g].name

\* The index knows where the note is, and the file is there.
Held(n) == index[n] # Nothing /\ file[index[n].path] # Nothing

\* An update of a title or a folder owes a rename.  One is built if the path
\* changes; else the request fails.
OwesRename(n, row) == row.title # stored[n].title \/ row.folder # stored[n].folder

Complete(writes) ==
    \A n \in Notes \cap DOMAIN writes : Here(n) =>
        /\ Held(n)
        /\ writes[n] # Nothing /\ OwesRename(n, writes[n])
              => NotePath(n, writes[n]) # index[n].path

ShownAs(k, row) == IF k \in Notes /\ row # Nothing THEN Entry(k, row) ELSE row

\* The file of a note is renamed or removed from where the index has it, and
\* written where its row puts it.
Projected(writes) ==
    /\ index' = [k \in Shelved |->
                   IF k \in DOMAIN writes THEN ShownAs(k, writes[k]) ELSE index[k]]
    /\ file' = [p \in Paths |->
                  LET n == p[2] IN
                  IF n \notin DOMAIN writes THEN file[p]
                  ELSE IF writes[n] # Nothing /\ p = NotePath(n, writes[n])
                       THEN Frontmatter(writes[n])
                  ELSE IF Here(n) /\ p = index[n].path THEN Nothing
                  ELSE file[p]]

\* The reads of the other requests grow stale.
Restale(keys, done) ==
    asking' = [r \in Askers |->
                 IF r \in done THEN NotAsking
                 ELSE [asking[r] EXCEPT !.stale = @ \cup (asking[r].keys \cap keys)]]

\* A batch that breaks a unique index is staged before the index is asked,
\* and no recovery gets past it.
Carry(writes, strays, done) ==
    /\ ~stuck /\ Complete(writes)
    /\ \/ /\ NamesCollide(After(writes))
          /\ stuck' = TRUE
          /\ UNCHANGED <<stored, gone, index, file, loose, asking>>
       \/ /\ ~NamesCollide(After(writes))
          /\ stored' = After(writes)
          /\ gone' = gone \cup {k \in DOMAIN writes : writes[k] = Nothing}
          /\ Projected(writes)
          /\ loose' = loose \cup strays
          /\ Restale(DOMAIN writes, done)
          /\ UNCHANGED stuck
    /\ UNCHANGED cast

\* What is active in some folders.
Strays(places) ==
    {f \in Folders : Standing(f) /\ stored[f].parent \in places}
    \cup {n \in Notes : Standing(n) /\ stored[n].folder \in places}

----------------------------------------------------------------------------
(* Folders. *)

SomeFolderRow == [name : cast.names, parent : cast.folders \cup {Nothing}, trashed : BOOLEAN]

CreateFolder(f) ==
    /\ ~Here(f) /\ f \notin gone
    /\ \E row \in SomeFolderRow :
         /\ ParentActive(row.parent)
         /\ Carry(Just(f, row), {}, {})

\* A patch without a parent, as a page sends to rename or to restore; or a
\* row with one.  Neither looks at the children, nor at the parent it keeps.
UpdateFolder(f) ==
    /\ Here(f) /\ f \notin gone
    /\ \E row \in SomeFolderRow :
         /\ row.parent # stored[f].parent /\ row.parent # Nothing
              => Standing(row.parent) /\ NoCycle(f, row.parent)
         /\ Carry(Just(f, row),
                  IF row.trashed THEN Strays({f})
                  ELSE IF stored[f].trashed THEN {f} ELSE {}, {})

\* Faulty: leaves the notes where they are.
ContentsButNotes(folders) == {q \in Quicks : Here(q) /\ stored[q].folder \in folders}

Contents(folders) ==
    {n \in Notes : Standing(n) /\ stored[n].folder \in folders}
    \cup {q \in Quicks : Here(q) /\ stored[q].folder \in folders}

\* With the folders under it that a walk through active ones reaches.  Their
\* active notes and their quick notes are taken out.
TrashFolder(f) ==
    /\ Here(f)
    /\ LET folders == {f} \cup Descent(f)
       IN Carry(Both([g \in folders |-> [stored[g] EXCEPT !.trashed = TRUE]],
                     [k \in Contents(folders) |-> [stored[k] EXCEPT !.folder = Nothing]]),
                {}, {})

\* A route has read the row, and its version.
Ask(r, k) ==
    /\ ~stuck /\ asking[r] = NotAsking
    /\ \/ k \in Folders /\ Here(k) /\ stored[k].trashed
       \/ k \in Quicks /\ Here(k)
    /\ asking' = [asking EXCEPT ![r] = Asked("ask", k, {k}, Nothing, Nothing)]
    /\ UNCHANGED <<stored, gone, index, file, loose, stuck, cast>>

\* The request fails, before the lease or on it.
Fail(r) ==
    /\ asking[r] # NotAsking
    /\ asking' = [asking EXCEPT ![r] = NotAsking]
    /\ UNCHANGED <<stored, gone, index, file, loose, stuck, cast>>

ReadFamily(r) ==
    /\ ~stuck /\ asking[r].op = "ask" /\ asking[r].of \in Folders
    /\ asking' = [asking EXCEPT ![r].op = "purge",
                                ![r].keys = {asking[r].of} \cup Subtree(asking[r].of)]
    /\ UNCHANGED <<stored, gone, index, file, loose, stuck, cast>>

\* One command for each folder read, whether it is trashed or not.
PurgeFolder(r) ==
    /\ asking[r].op = "purge"
    /\ LET accepted == {f \in asking[r].keys \ asking[r].stale : Here(f)}
       IN /\ accepted # {}
          /\ Carry([f \in accepted |-> Nothing], Strays(accepted) \ accepted, {r})

----------------------------------------------------------------------------
(* Notes. *)

SomeNoteRow == [title : cast.headings, folder : cast.folders \cup {Nothing}, trashed : BOOLEAN]

\* The request of a page is not refused for a tombstone.
CreateNote(n) ==
    /\ ~Here(n)
    /\ \E row \in SomeNoteRow :
         /\ ParentActive(row.folder)
         /\ Carry(Just(n, row), {}, {})

UpdateNote(n) ==
    /\ Standing(n)
    /\ \E row \in SomeNoteRow :
         /\ row.folder # stored[n].folder => ParentActive(row.folder)
         /\ Carry(Just(n, row), {}, {})

\* The only patch a trashed note takes.  Its folder is not looked at.
RestoreNote(n) ==
    /\ Here(n) /\ stored[n].trashed
    /\ Carry(Just(n, [stored[n] EXCEPT !.trashed = FALSE]), {n}, {})

PurgeNote(n) ==
    /\ Here(n)
    /\ Carry(Just(n, Nothing), {}, {})

----------------------------------------------------------------------------
(* Quick notes: no policy looks at what their rows name. *)

SomeQuickRow == [folder : cast.folders \cup {Nothing}, trashed : BOOLEAN,
                 note : cast.notes \cup {Nothing}]

WriteQuick(q) ==
    /\ q \notin gone
    /\ \E row \in SomeQuickRow : Carry(Just(q, row), {}, {})

DeleteQuick(q) ==
    /\ Here(q)
    /\ Carry(Just(q, Nothing), {}, {})

\* The identity of the note follows from that of the operation.
ReadQuick(r, n) ==
    /\ ~stuck /\ asking[r].op = "ask" /\ asking[r].of \in Quicks
    /\ Standing(asking[r].of) /\ stored[asking[r].of].note = Nothing
    /\ ~Here(n) /\ n \notin gone /\ \A s \in Askers : asking[s].note # n
    /\ asking' = [asking EXCEPT ![r].op = "convert", ![r].note = n,
                                ![r].folder = stored[asking[r].of].folder]
    /\ UNCHANGED <<stored, gone, index, file, loose, stuck, cast>>

\* A command that creates the note and one that archives the quick note; the
\* batch carries the ones that are accepted.
ConvertQuick(r) ==
    /\ asking[r].op = "convert"
    /\ LET q == asking[r].of
           n == asking[r].note
           creates == ~Here(n) /\ ParentActive(asking[r].folder)
           archives == Here(q) /\ q \notin asking[r].stale
       IN /\ creates \/ archives
          /\ \E h \in cast.headings :
               LET note == [title |-> h, folder |-> asking[r].folder, trashed |-> FALSE]
                   quick == [stored[q] EXCEPT !.note = n]
               IN Carry(IF creates /\ archives THEN Both(Just(n, note), Just(q, quick))
                        ELSE IF creates THEN Just(n, note) ELSE Just(q, quick),
                        {}, {r})

----------------------------------------------------------------------------

TreeNext ==
    \/ \E f \in cast.folders : CreateFolder(f) \/ UpdateFolder(f) \/ TrashFolder(f)
    \/ \E n \in cast.notes : CreateNote(n) \/ UpdateNote(n) \/ RestoreNote(n) \/ PurgeNote(n)
    \/ \E q \in cast.quicks : WriteQuick(q) \/ DeleteQuick(q)
    \/ \E r \in Askers :
         \/ \E k \in cast.folders \cup cast.quicks : Ask(r, k)
         \/ Fail(r) \/ ReadFamily(r) \/ PurgeFolder(r) \/ ConvertQuick(r)
         \/ \E n \in cast.notes : ReadQuick(r, n)

TreeSpec == TreeInit /\ [][TreeNext]_treeVars

----------------------------------------------------------------------------

\* Folders form no cycle, whatever they are moved under (_require_no_cycle
\* walks up from the new parent, once, when the command is compiled): no set
\* of folders holds the parent of each of its members.
FoldersAreTree ==
    \A S \in SUBSET Folders : S # {} =>
        \E f \in S : Here(f) => stored[f].parent \notin S

\* What a folder or a note lies in exists or did, with no foreign key to
\* check it (FolderDomainPolicy.compile, the note's policy, the cascades).
LocationsAreKnown ==
    /\ \A f \in Folders : Here(f) =>
          stored[f].parent = Nothing \/ Here(stored[f].parent) \/ stored[f].parent \in gone
    /\ \A n \in Notes : Here(n) =>
          stored[n].folder = Nothing \/ Here(stored[n].folder) \/ stored[n].folder \in gone

\* What is active lies in active folders, but for what was restored on its
\* own, or trashed or purged around it by a request that did not see it: the
\* cascade of a deletion (_compile_cascade_soft_delete) misses nothing.
TrashHidesNothing ==
    /\ \A f \in Folders : Standing(f) /\ f \notin loose => ParentActive(stored[f].parent)
    /\ \A n \in Notes : Standing(n) /\ n \notin loose => ParentActive(stored[n].folder)

\* The index has each folder and note as its row is, and there is one file
\* for each note, where its row puts it, and none besides (the compiled
\* writes, removals and renames).
ShelvesShowRows ==
    /\ \A k \in Shelved : index[k] = ShownAs(k, stored[k])
    /\ \A p \in Paths :
          file[p] = IF Here(p[2]) /\ p = NotePath(p[2], stored[p[2]])
                    THEN Frontmatter(stored[p[2]]) ELSE Nothing

\* Whatever commands cross, the rows keep their places and are shown there.
KnowledgeHolds ==
    FoldersAreTree /\ LocationsAreKnown /\ TrashHidesNothing /\ ShelvesShowRows
=============================================================================
