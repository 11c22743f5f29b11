-------------------------- MODULE MCDirectCommands --------------------------
(***************************************************************************)
(* Instances of DirectCommands and of SessionReview for TLC: how the pages *)
(* of the frontend get a command or a review to the server, and what the   *)
(* server makes of the reviews and reconciliations of a session.  A scene  *)
(* shows one or the other, so that each is explored to the end.            *)
(***************************************************************************)
EXTENDS DirectCommands, SessionReview

CONSTANTS p1, p2, c1, c2, i1, s1, x1, x2,    \* of the frontend
          a, b, l, q1, q2, q3,                \* of the session
          Scenes

VARIABLE scene

mcVars == <<vars, reviewVars, scene>>

InBrowser(pages, commands) == [side |-> "browser", pages |-> pages, commands |-> commands]

\* Two pages that work on one intent, and one whose rounds resume two.
SideBySide == InBrowser({p1, p2}, {c1})
Rounds == InBrowser({p1}, {c1, c2})

OnServer(planned, ended, roots, maxEvents, reconciled) ==
    [side |-> "server", planned |-> planned, ended |-> ended, roots |-> roots,
     events |-> maxEvents, reconciled |-> reconciled]

\* A plan that is changed and pushed, and its review; two reviews of a session
\* that has ended; a review of two tasks.
Planning == OnServer({a}, FALSE, {q1}, 1, FALSE)
Reviewing == OnServer({a}, TRUE, {q1, q2}, 1, FALSE)
Comparing == OnServer({a, b}, TRUE, {q1}, 0, FALSE)

\* q1 completes or cancels the task; the others carry the command out, give it
\* up or watch.
Reconciling == OnServer({a}, TRUE, {q1, q2, q3}, 2, TRUE)

EveryScene == {SideBySide, Planning, Reviewing, Comparing, Reconciling}
RoundsAlone == {Rounds}

MCInit ==
    /\ Init /\ ReviewInit
    /\ scene \in Scenes
    /\ IF scene.side = "browser"
       THEN session.own = "authoritative" /\ session.ended /\ plan = [i \in Tasks |-> Nil]
       ELSE /\ imported = {}
            /\ session.ended = scene.ended
            /\ \A i \in Tasks \ scene.planned : plan[i] = Nil
            /\ scene.reconciled => session.own = "authoritative" /\ plan[a] # Nil

TakesPart(r) ==
    \/ calls'[r] = calls[r]
    \/ /\ r \in scene.roots
       /\ IF scene.reconciled /\ r # q1 THEN calls'[r].pc # "review"
          ELSE calls'[r].pc \in {"review", "done"}

\* The review whose command is carried out marks its task.
Marked == \A r \in Roots : calls'[r].pc = "review" =>
              calls'[r].marks # <<>> /\ calls'[r].marks[a] # "none"

Within ==
    /\ \A i \in Tasks \ scene.planned : plan'[i] = Nil /\ work'[i] = work[i]
    /\ events' <= scene.events
    /\ \A r \in Roots : TakesPart(r)
    /\ scene.reconciled => Marked

Played ==
    /\ \A p \in Pages \ scene.pages : call'[p] = None /\ held'[p] = None
    /\ taken' \subseteq scene.commands

MCNext ==
    /\ \/ scene.side = "browser" /\ Next /\ Played /\ UNCHANGED reviewVars
       \/ scene.side = "server" /\ ReviewNext /\ Within /\ UNCHANGED vars
    /\ scene' = scene

MCSpec == MCInit /\ [][MCNext]_mcVars
MCFairSpec == MCSpec /\ Fairness
=============================================================================
