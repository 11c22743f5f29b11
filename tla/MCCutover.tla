----------------------------- MODULE MCCutover -----------------------------
(***************************************************************************)
(* Instances of Cutover and of DurableFiles for TLC: what failures, deaths *)
(* and losses of power leave of the roots of the data, and of the files of *)
(* one mutation.  A scene shows one or the other.                          *)
(***************************************************************************)
EXTENDS Cutover, DurableFiles

CONSTANTS r1, c1, c2,    \* of the roots
          o1, o2         \* of the files

\* A creation, and an update that keeps the old body.
MCImages == [o \in Ops |-> IF o = o1 THEN {"after"} ELSE Sides]

VARIABLE scene

MCInit ==
    /\ Init /\ FileInit
    /\ scene \in {"roots", "files"}

MCNext ==
    /\ \/ scene = "roots" /\ Next /\ UNCHANGED fileVars
       \/ scene = "files" /\ FileNext /\ UNCHANGED vars
    /\ scene' = scene

MCSpec == MCInit /\ [][MCNext]_<<vars, fileVars, scene>>
=============================================================================
