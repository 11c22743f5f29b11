----------------------------- MODULE MCRuntime -----------------------------
(***************************************************************************)
(* Instances of OwnerProcess for TLC: one Space, registered at first or    *)
(* still to be provisioned.  A scene says who takes part and how much may  *)
(* go wrong, so that each part of a process's life is explored to the end  *)
(* without the product of all of them.                                     *)
(***************************************************************************)
EXTENDS OwnerProcess

CONSTANTS meta, s1, owner1, r1, r2, c1, c2

VARIABLE scene

mcVars == <<procVars, scene>>

MCSpaces == {s1}
MCStores == {meta, s1}
MCTokens == 1..3

Scene(requests, clients, maxFaults, maxCrashes, upgraded) ==
    [requests |-> requests, clients |-> clients, faults |-> maxFaults,
     crashes |-> maxCrashes, upgraded |-> upgraded]

\* Startups that fail and start again.
Starting == Scene({}, {}, 2, 2, FALSE)

\* Requests side by side, one of which writes, after a clean or an unclean start.
Serving == Scene({r1, r2}, {}, 2, 0, TRUE)

\* A process that died beside a request, and the requests of the next one.
Restarted == Scene({r1}, {}, 1, 1, TRUE)

\* A Space is provisioned beside a request.
Provisioned == Scene({r1}, {c1}, 2, 1, TRUE)

\* Two clients and a queue with room for one.
Asking == Scene({}, {c1, c2}, 2, 1, TRUE)

MCInit ==
    /\ scene \in {Starting, Serving, Restarted, Provisioned, Asking}
    /\ ProcInit
    /\ scene.upgraded => \A x \in Stores : schema[x] = "head" /\ ~journal[x]
    /\ scene.clients # {} <=> registered = {}

Within ==
    /\ faults' <= scene.faults /\ crashes' <= scene.crashes
    /\ \A h \in Requests \ scene.requests : At(h, "idle")'
    /\ \A c \in Clients \ scene.clients : command'[c].pc = "none"
    /\ scene' = scene

MCNext == ProcNext /\ Within

MCSpec == MCInit /\ [][MCNext]_mcVars /\ Fairness
=============================================================================
