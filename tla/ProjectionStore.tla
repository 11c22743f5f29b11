-------------------------- MODULE ProjectionStore --------------------------
(***************************************************************************)
(* The derived stores of one Space: Markdown files, the SQLite index and   *)
(* the FTS table.  This module has no state of its own.  It describes what *)
(* one projection step does to the stores (file_system/engine/base.py),    *)
(* which steps a command has (knowledge/projections.py) and how recovery   *)
(* classifies a step from the stores' content (mutation/recovery.py).      *)
(*                                                                         *)
(* Content is abstracted to a title and the identity of the operation that *)
(* wrote the body: two images are equal here exactly when their digests    *)
(* are equal in the code.                                                  *)
(***************************************************************************)
EXTENDS Naturals, Sequences

CONSTANTS
    Entities,   \* entity identities of the Space
    Titles,     \* note titles; a title determines the note's file name
    Kind        \* Kind[e]: what sort of entity e is

EntityKinds == {"record", "json", "folder", "note"}

ASSUME KindAssumption == Kind \in [Entities -> EntityKinds]

(* "none", "index" and "fts" name stores, so they are no titles. *)
ASSUME TitlesAssumption == Titles \cap {"none", "index", "fts"} = {}

(* Bodies are operation identities <<batch, sequence>>; these two are not. *)
InitBody  == <<0, 0>>
EmptyBody == <<0, 1>>

(* The absence of a file, of an index row or of an FTS row. *)
NoContent == [t |-> "none", c |-> InitBody]

(* <<e, title>> is a Markdown path, the last two are the table rows of e.  *)
(* A note without an index row has the path <<e, "none">>, always empty.   *)
Targets == Entities \X (Titles \cup {"none", "index", "fts"})

Tags == {"markdown_write", "path_rename", "path_remove",
         "index_replace", "fts_replace"}

Image(title, body) == [t |-> title, c |-> body]

(* A persisted projection descriptor; source = target except for a rename. *)
Step(tag, source, target, before, after) ==
    [tag |-> tag, source |-> source, target |-> target,
     before |-> before, after |-> after]

(***************************************************************************)
(* The ordered steps of a command of entity e.  A rename leaves the bytes  *)
(* alone, so its two images are equal; the write that follows it names the *)
(* renamed file.                                                           *)
(***************************************************************************)
NoteSteps(fs, e, act, title, body) ==
    LET index  == fs[<<e, "index">>]
        old    == <<e, index.t>>
        new    == <<e, title>>
        after  == IF act = "delete" THEN NoContent ELSE Image(title, body)
        write(before) == Step("markdown_write", new, new, before, after)
        rename == Step("path_rename", old, new, fs[old], fs[old])
        remove == Step("path_remove", old, old, fs[old], NoContent)
        idx    == Step("index_replace", <<e, "index">>, <<e, "index">>, index, after)
        fts    == Step("fts_replace", <<e, "fts">>, <<e, "fts">>,
                       fs[<<e, "fts">>], after)
    IN  CASE act = "create"               -> << write(NoContent), idx, fts >>
          [] act = "update" /\ old = new -> << write(fs[old]), idx, fts >>
          [] act = "update" /\ old # new -> << rename, write(fs[old]), idx, fts >>
          [] OTHER                        -> << remove, idx, fts >>

FolderSteps(fs, e, act, title, body) ==
    << Step("index_replace", <<e, "index">>, <<e, "index">>, fs[<<e, "index">>],
            IF act = "delete" THEN NoContent ELSE Image(title, body)) >>

StepsOf(fs, e, act, title, body) ==
    CASE Kind[e] = "note"   -> NoteSteps(fs, e, act, title, body)
      [] Kind[e] = "folder" -> FolderSteps(fs, e, act, title, body)
      [] OTHER              -> << >>

(***************************************************************************)
(* The stores as the steps of a command will leave them: later commands of *)
(* the batch are compiled against this.  Triggers play no part, as whoever *)
(* replaces the index row of a note also replaces its FTS row.             *)
(***************************************************************************)
Planned(fs, steps) ==
    [x \in Targets |->
       LET last == {k \in DOMAIN steps :
                      /\ steps[k].target = x
                      /\ \A j \in DOMAIN steps : steps[j].target = x => j <= k}
       IN  IF last # {} THEN steps[CHOOSE k \in last : TRUE].after
           ELSE IF \E k \in DOMAIN steps : steps[k].source = x THEN NoContent
           ELSE fs[x]]

(***************************************************************************)
(* Replacing a row of the notes table fires the FTS triggers: an insert    *)
(* adds an FTS row with an empty body, an update rewrites the FTS title, a *)
(* delete removes the FTS row.  The folders table has no trigger.          *)
(***************************************************************************)
TriggeredFts(fs, e, v) ==
    LET fts == fs[<<e, "fts">>]
    IN  CASE Kind[e] # "note" \/ (v # NoContent /\ fs[<<e, "index">>] # NoContent
                                                /\ fts = NoContent) -> fts
          [] Kind[e] = "note" /\ v = NoContent -> NoContent
          [] Kind[e] = "note" /\ v # NoContent
                              /\ fs[<<e, "index">>] = NoContent -> Image(v.t, EmptyBody)
          [] OTHER -> [fts EXCEPT !.t = v.t]

IndexReplace(fs, e, v) ==
    [fs EXCEPT ![<<e, "index">>] = v, ![<<e, "fts">>] = TriggeredFts(fs, e, v)]

(* Faulty variant: leaves the old file in place.                           *)
RenameByCopy(fs, source, target) ==
    IF fs[source] = NoContent THEN fs ELSE [fs EXCEPT ![target] = fs[source]]

Rename(fs, source, target) ==
    IF fs[source] = NoContent
    THEN fs
    ELSE [fs EXCEPT ![target] = fs[source], ![source] = NoContent]

(* What the stage holds for one side of a step: a rename is inverted by    *)
(* swapping its paths, every other step by writing the other image.        *)
SideSource(d, side) == IF side = "before" THEN d.target ELSE d.source
SideTarget(d, side) == IF side = "before" THEN d.source ELSE d.target
SideImage(d, side)  == IF side = "before" THEN d.before ELSE d.after

(* The action raises: nothing to rename, or an FTS row without its note.   *)
CanApply(fs, d, side) ==
    /\ d.tag = "path_rename" =>
          fs[SideSource(d, side)] # NoContent \/ fs[SideTarget(d, side)] # NoContent
    /\ d.tag = "fts_replace" /\ SideImage(d, side) # NoContent =>
          fs[<<d.target[1], "index">>] # NoContent

(* _apply_one_contained_action *)
ApplyStep(fs, d, side) ==
    CASE d.tag = "path_rename"   -> Rename(fs, SideSource(d, side), SideTarget(d, side))
      [] d.tag = "index_replace" -> IndexReplace(fs, d.target[1], SideImage(d, side))
      [] OTHER                   -> [fs EXCEPT ![d.target] = SideImage(d, side)]

(* MutationRecovery._descriptor_state: "after" wins when both images match. *)
DescriptorState(fs, d) ==
    LET rename == d.tag = "path_rename"
        after  == IF rename
                  THEN fs[d.source] = NoContent /\ fs[d.target] = d.after
                  ELSE fs[d.target] = d.after
        before == IF rename
                  THEN fs[d.source] = d.before /\ fs[d.target] = NoContent
                  ELSE fs[d.target] = d.before
    IN  IF after THEN "after" ELSE IF before THEN "before" ELSE "neither"
=============================================================================
