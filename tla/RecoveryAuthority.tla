------------------------- MODULE RecoveryAuthority -------------------------
(***************************************************************************)
(* The read-only authority that says whether the active session of a data  *)
(* root can be carried on (focus_session/recovery_authority.py).  Backup,  *)
(* verification and cutover refuse a root whose verdict is not clean.  It  *)
(* sees the meta database and the Spaces at rest.                          *)
(*                                                                         *)
(* One operator per function of the authority.  Each asks the questions of *)
(* its function in their order; every failure code is the one verdict      *)
(* recovery_required.  What no writer of this program can leave behind (a  *)
(* row of the wrong shape, a Space without a readable database) fails the  *)
(* same way and is left out.                                               *)
(***************************************************************************)
EXTENDS ActiveSession

Required == "recovery_required"

----------------------------------------------------------------------------
(* What it reads *)

\* The states and phases that may go together.
PhasesOf(state) ==
    CASE state = "active" -> {"completed"}
      [] state = "claiming" -> {"claimed", "awaiting_resolution", "transferred"}
      [] state = "releasing" -> {"space_committed"}

\* The session that a Space has under its id: None, or whether it has ended,
\* whose it is, and what is thought of it.
Fact(s) ==
    IF ~Exists(rows, s) THEN None
    ELSE [ended |-> Ended(s), own |-> rows[s].own, validity |-> rows[s].validity]

ASSUME FactAssumption == None \notin [ended : BOOLEAN, own : Owns, validity : Validities]

\* The receipt beside the envelope of a named child.  A child that never ran,
\* that died half-way or whose mutation lacks its receipt has none.
ChildOutcome(c, role) ==
    CASE child[c][role] = "succeeded" -> "terminal_success"
      [] child[c][role] = "failed" -> "terminal_rejected"
      [] OTHER -> "missing"

\* The children that the intent declares, under ids that derive from the id of
\* the operation and the role.
Declared(c) == Range(RolesOf(c))

\* The two sessions that the intent pairs, and the one that a role is about.
Pair(c) == [active |-> Sides(c).active, candidate |-> Sides(c).candidate]
Side(c, role) ==
    CASE role = "winner" -> Pair(c)[ops[c].winner]
      [] role = "loser" -> Pair(c)[IF ops[c].winner = "active" THEN "candidate" ELSE "active"]
      [] OTHER -> Pair(c)[role]

\* The intent repeats the row: its command, its session, its epoch, its kind.
\* An intent is frozen with its operation, the locator moves on.  A touch is
\* sent without its Space, so its intent never matches.
IntentMatches ==
    LET c == locator.op IN
    CASE c \in Starts -> locator.epoch = 1
      [] c \in Activations -> locator.session = Pair(c).active /\ locator.epoch = 1
      [] c \in Resolutions -> locator.session = Side(c, "winner")
      [] OTHER -> FALSE

\* A chain of related operations has one link: from a resolution, to the
\* conflict that it decides.  The link must be there; a resolution need not
\* agree with it on the session.
RelationHolds(c) == c \in Resolutions => ops[ops[c].related] # None

----------------------------------------------------------------------------
(* What it concludes *)

\* The children of these roles are declared, and each has the receipt that
\* counts.
AllSucceeded(c, roles) ==
    /\ roles \subseteq Declared(c)
    /\ \A r \in roles : ChildOutcome(c, r) = "terminal_success"

\* Both sessions of the pair are still marked.
InConflict(c) ==
    \A s \in {Pair(c).active, Pair(c).candidate} :
        Fact(s) # None /\ Fact(s).own = "conflict"

\* Conflict children that all succeeded prove that the resolution is awaited,
\* although the phase does not say so yet.  The child of a simple operation would
\* have the id of the operation itself; the coordinator writes envelopes for
\* named children only, so a claim of a start or an end is never proved.
ClassifyClaimed(c) ==
    IF c \in Activations /\ AllSucceeded(c, {"candidate", "active"})
    THEN "awaiting_resolution" ELSE Required

ClassifyAwaiting(c) ==
    IF /\ c \in Activations
       /\ locator.session = Pair(c).active
       /\ AllSucceeded(c, {"candidate", "active"})
       /\ InConflict(c)
    THEN "awaiting_resolution" ELSE Required

\* The winner goes on as the only authoritative session; the loser was ended
\* and declared invalid.
ClassifyTransferred(c) ==
    LET winner == Fact(Side(c, "winner"))
        loser == Fact(Side(c, "loser"))
    IN
    IF /\ c \in Resolutions
       /\ AllSucceeded(c, {"winner", "loser"})
       /\ winner # None /\ ~winner.ended /\ winner.own = "authoritative"
       /\ loser # None /\ loser.ended /\ loser.validity = "invalid"
    THEN "recoverable_claiming" ELSE Required

\* No writer leaves a locator in the state "releasing".
Classify ==
    LET c == locator.op
        phase == ops[c].phase
        fact == Fact(locator.session)
    IN
    CASE locator.state = "active" /\ fact # None /\ ~fact.ended -> "active_consistent"
      [] locator.state = "claiming" /\ phase = "awaiting_resolution" -> ClassifyAwaiting(c)
      [] locator.state = "claiming" /\ phase = "claimed" -> ClassifyClaimed(c)
      [] locator.state = "claiming" /\ phase = "transferred" -> ClassifyTransferred(c)
      [] OTHER -> Required

\* The verdict on a root, when the lease of its locator has or has not expired.
\* The lease of a claim does not matter.
Verdict(expired) ==
    IF locator = None THEN "empty"
    ELSE IF /\ ops[locator.op] # None
            /\ IntentMatches
            /\ ops[locator.op].phase \in PhasesOf(locator.state)
            /\ ops[locator.op].phase = "transferred" => locator.op \in Resolutions
            /\ ~(locator.state = "active" /\ expired)
            /\ RelationHolds(locator.op)
         THEN Classify ELSE Required

----------------------------------------------------------------------------
\* A clean verdict can be relied on by whoever restores that root: an empty one
\* leaves no session running that nobody could stop, an active one has the
\* session that runs under its owner's name, and of a conflict that awaits its
\* resolution both sessions are still as the activation left them.
CleanIsCoherent ==
    \A expired \in BOOLEAN :
        /\ Verdict(expired) = "empty" =>
               \A s \in Sessions : ~(Is(s, "authoritative") /\ Live(s))
        /\ Verdict(expired) = "awaiting_resolution" => InConflict(locator.op)
        /\ Verdict(expired) \in {"active_consistent", "recoverable_claiming"} =>
               \A s \in Sessions \ {locator.session} : ~(Is(s, "authoritative") /\ Live(s))

\* What the locator, recovery and backup say of the sessions is so: the locator
\* names the one that runs, and the phase of an operation and the verdict on the
\* locator rest on evidence that still holds.
EvidenceHolds == RunningUnderLocator /\ PhasesAreProven /\ CleanIsCoherent
=============================================================================
