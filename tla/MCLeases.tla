----------------------------- MODULE MCLeases -----------------------------
(* A small instance of Leases for TLC. *)
EXTENDS Leases

CONSTANTS server, tool,            \* processes
          owner, request,          \* tasks of the server
          snapshot                 \* task of the tool

MCSpaces == {2, 3}
MCProcOf == [t \in Tasks |-> IF t = snapshot THEN tool ELSE server]

X(s) == [scope |-> s, mode |-> Exclusive]
S(s) == [scope |-> s, mode |-> Shared]

\* The owner starts up, a request works on one Space or two, the tool takes a
\* snapshot or reads a Space.
MCAsks == [t \in Tasks |->
    CASE t = owner -> {<<X(Owner)>>, <<X(Global)>>}
      [] t = request -> {<<S(Global)>>, <<X(2), X(3)>>}
      [] OTHER -> {<<S(Global)>>, <<S(2)>>}]
=============================================================================
