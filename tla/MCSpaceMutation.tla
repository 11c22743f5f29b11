-------------------------- MODULE MCSpaceMutation --------------------------
(* Small instances of SpaceMutation for TLC. *)
EXTENDS SpaceMutation, TLC

CONSTANTS p1, p2, e1, e2, e3

Cmd(e, act, title, blind) ==
    [ent |-> e, act |-> act, title |-> title, blind |-> blind]

(* A batch that creates a folder and updates it, and one that deletes it   *)
(* and renames a note.                                                     *)
MixedKind     == (e1 :> "folder") @@ (e2 :> "note")
MixedExisting == (e2 :> "A")
MixedRequest  ==
    (<<1, 1>> :> Cmd(e1, "create", "A", FALSE)) @@
    (<<1, 2>> :> Cmd(e1, "update", "B", TRUE)) @@
    (<<2, 1>> :> Cmd(e1, "delete", "A", TRUE)) @@
    (<<2, 2>> :> Cmd(e2, "update", "B", FALSE))

(* Two requests that both saw the version of a record they update. *)
RivalKind     == (e1 :> "record")
RivalExisting == (e1 :> "A")
RivalRequest  ==
    (<<1, 1>> :> Cmd(e1, "update", "A", FALSE)) @@
    (<<2, 1>> :> Cmd(e1, "update", "A", FALSE))
=============================================================================
