------------------------ MODULE MCProvisionalSession ------------------------
(* A small instance of ProvisionalSession for TLC: two pages, and two      *)
(* sessions in two Spaces.                                                 *)
EXTENDS ProvisionalSession, TLC

CONSTANTS p1, p2, t1, t2, o1, o2, s1, s2

TwoPages  == (p1 :> t1) @@ (p2 :> t2)
Apart     == (o1 :> s1) @@ (o2 :> s2)

(* The first session runs through pause, resume and end; the second is     *)
(* there to be started beside it.                                          *)
Revisions == (o1 :> 3) @@ (o2 :> 1)

(* The tasks may change places with their pages. *)
Symmetry == {(p1 :> p2) @@ (p2 :> p1) @@ (t1 :> t2) @@ (t2 :> t1)}
=============================================================================
