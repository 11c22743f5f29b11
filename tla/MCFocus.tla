------------------------------ MODULE MCFocus ------------------------------
(* A small instance of the active session and its coordinator for TLC. *)
EXTENDS RecoveryAuthority

CONSTANTS s1, s2, i1, i2

\* In one Space the sessions share effort and lease; in two they share neither.
MCSpaceOf == [s \in Sessions |-> 1]
MCTwoSpaces == [s \in Sessions |-> IF s = s1 THEN 1 ELSE 2]

\* Nothing tells the sessions apart: one order of every pair is enough.  The
\* paused one is tried beside a session that counts, whose effort it blocks.
Rank(row) == CASE row = Absent -> 0
               [] row.own = "authoritative" -> 1
               [] row.clock = "paused" -> 2
               [] row.clock = "ended" -> 3
               [] row.own = "provisional" -> 4
               [] OTHER -> 5
MCInitialRows == {r \in [Sessions -> Before] :
                      /\ Rank(r[s1]) <= Rank(r[s2])
                      /\ Rank(r[s2]) = 2 => Rank(r[s1]) = 1
                      /\ Rank(r[s1]) # 2}
=============================================================================
