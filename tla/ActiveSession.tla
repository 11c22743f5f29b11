--------------------------- MODULE ActiveSession ---------------------------
(***************************************************************************)
(* The coordinator of the one active focus session                         *)
(* (focus_session/coordinator.py).  Its authority is in the meta database: *)
(* a singleton row, the locator, which names the active session and the    *)
(* operation that last claimed it, and one row for every operation.  The   *)
(* sessions lie in the databases of the Spaces.  No transaction covers     *)
(* both, so a handler is a sequence of meta transactions and Space         *)
(* mutations; requests run concurrently, are repeated by the client, and   *)
(* the process may crash between any two of their steps.                   *)
(*                                                                         *)
(* A Space mutation takes two steps: its policy reads the locator and      *)
(* compiles, then it commits, under the exclusive lease of the Space all   *)
(* the while.  Meta transactions are not under that lease.                 *)
(***************************************************************************)
EXTENDS FocusSession

CONSTANTS MaxTasks,      \* bound: requests in flight
          Starts, Activations, Resolutions, Ends, Touches,
                         \* command ids, by the endpoint they are sent to
          TouchKinds,    \* the touches among them
          MaxEpoch,      \* bound: ownership epochs
          MaxCommands,   \* bound: commands that anything is known of
          MaxEvents,     \* bound: crashes, and mutations by others
          None

SpaceKinds == {"pause", "resume", "note"}

ASSUME CoordinatorAssumption ==
    /\ {MaxTasks, MaxEpoch, MaxCommands} \subseteq Nat \ {0}
    /\ MaxEvents \in Nat
    /\ TouchKinds \subseteq SpaceKinds \cup {"heartbeat", "takeover"}

Tasks == 1..MaxTasks

Commands == Starts \cup Activations \cup Resolutions \cup Ends \cup Touches
Roles == {"candidate", "active", "winner", "loser"}

Locators == [session : Sessions, op : Commands, state : {"claiming", "active"},
             epoch : 1..MaxEpoch]

\* The rows of operations: of a conflict with its sides, of a resolution with
\* its conflict, and of all others.
OtherRows == [kind : SpaceKinds \cup {"start", "end", "heartbeat", "takeover"},
              phase : {"claimed", "space_committed", "completed"}]
ConflictRows == [kind : {"activate_provisional"}, active : Sessions, candidate : Sessions,
                 phase : {"claimed", "awaiting_resolution", "completed"}]
ResolutionRows == [kind : {"resolve_activation_conflict"}, related : Activations,
                   winner : {"active", "candidate"},
                   phase : {"claimed", "transferred", "completed"}]

\* An id is sent to one endpoint.
ASSUME CommandAssumption ==
    /\ Activations \cap Resolutions = {}
    /\ (Activations \cup Resolutions) \cap (Starts \cup Ends \cup Touches) = {}
    /\ Starts \cap Ends = {} /\ (Starts \cup Ends) \cap Touches = {}

ASSUME NoneAssumption ==
    None \notin Tasks \cup Locators \cup OtherRows \cup ConflictRows \cup ResolutionRows

VARIABLES
    locator,    \* None or [session, op, state, epoch]
    ops,        \* command -> None or its operation row
    child,      \* command -> role -> what the Space knows of that child
    frame,      \* task -> None or the handler it runs: [cmd, at, session, epoch, aux]
    lease,      \* Space -> the task that holds its exclusive lease, or None
    events      \* crashes and mutations by others so far

metaVars == <<locator, ops>>
coordinatorVars == <<rows, revisions, effort, locator, ops, child, frame, lease, events>>

\* Where a handler goes on after the step at hand.
Go(t, f) == frame' = [frame EXCEPT ![t] = f]
Return(t) == Go(t, None)
At(t, step) == frame[t] # None /\ frame[t].at = step
To(t, step) == Go(t, [frame[t] EXCEPT !.at = step])

Session(t) == frame[t].session
Cmd(t) == frame[t].cmd
LeaseOf(t) == lease[SpaceOf[Session(t)]]
Lock(t) == lease' = [lease EXCEPT ![SpaceOf[Session(t)]] = t]
\* Mutant: the lease outlives the mutation.
UnlockNever(t) == UNCHANGED lease
Unlock(t) == lease' = [lease EXCEPT ![SpaceOf[Session(t)]] = None]

Idle(t) == frame[t] = None

\* A request is served by the first task that is free.
Free(t) == Idle(t) /\ \A u \in 1..(t - 1) : ~Idle(u)

\* A command of which nothing is known yet.
Fresh(c) == ops[c] = None /\ Cardinality({d \in Commands : ops[d] # None}) < MaxCommands

OnlyMeta == UNCHANGED <<rows, revisions, effort, child, lease, events>>

----------------------------------------------------------------------------
(* The claim that the policy compiler demands of the locator. *)

Holds(t) ==
    /\ locator # None
    /\ locator.state = "claiming"
    /\ locator.op = Cmd(t)
    /\ locator.session = Session(t)
    /\ locator.epoch = frame[t].epoch

\* The commands that carry the claim, by what they do to the row.
Admitted(t, action) ==
    /\ Holds(t)
    /\ IF action = "start" THEN CanStart(Session(t))
                           ELSE CanTransit(Session(t), action)

\* Mutant: an end that is rejected goes on to release the locator.
CompileOrRelease(t) ==
    /\ At(t, "compile") /\ LeaseOf(t) = None
    /\ \/ Admitted(t, frame[t].aux.kind) /\ Lock(t) /\ To(t, "commit")
       \/ /\ IF frame[t].aux.kind = "end" THEN To(t, "release") ELSE Return(t)
          /\ UNCHANGED lease
    /\ UNCHANGED <<rows, revisions, effort, locator, ops, child, events>>

\* Compile: admitted, or rejected and journaled as such, which ends the handler
\* with an error.  A client's stale row version rejects as well.  The handler of
\* start finds a session that exists under the same lease and does not write it.
Compile(t) ==
    /\ At(t, "compile") /\ LeaseOf(t) = None
    /\ \/ Admitted(t, frame[t].aux.kind) /\ Lock(t) /\ To(t, "commit")
       \/ Return(t) /\ UNCHANGED lease
    /\ UNCHANGED <<rows, revisions, effort, locator, ops, child, events>>

\* An end names the validity; the other commands leave it alone.
Commit(t) ==
    LET kind == frame[t].aux.kind IN
    /\ At(t, "commit")
    /\ IF kind = "start" THEN \E i \in Items : Start(Session(t), i)
                         ELSE \E v \in Validities : Transit(Session(t), kind, v)
    /\ Unlock(t)
    /\ IF kind = "end" THEN To(t, "release") ELSE Return(t)
    /\ UNCHANGED <<locator, ops, child, events>>

----------------------------------------------------------------------------
(* start *)

\* One meta transaction claims the empty slot.  A replay, a slot that is taken
\* and a command id that was used before change nothing.
ClaimStart(t, c, s) ==
    /\ Free(t) /\ locator = None /\ Fresh(c)
    /\ locator' = [session |-> s, op |-> c, state |-> "claiming", epoch |-> 1]
    /\ ops' = [ops EXCEPT ![c] = [kind |-> "start", phase |-> "claimed"]]
    /\ Go(t, [cmd |-> c, at |-> "compile", session |-> s, epoch |-> 1,
              aux |-> [kind |-> "start"]])
    /\ OnlyMeta

----------------------------------------------------------------------------
(* heartbeat, takeover, pause, resume and the edits of note and plan *)

\* The command rotates the locator to its own id, a takeover advances the epoch.
\* A command that was executed before rotates it all the same and returns.
TouchLocator(t, c, kind, epoch) ==
    LET replay == ops[c] # None
        takes == kind = "takeover" /\ ~replay
    IN
    /\ Free(t) /\ locator # None /\ (replay \/ Fresh(c))
    /\ epoch = locator.epoch \/ (kind = "takeover" /\ replay)
    /\ replay => ops[c].kind = kind
    /\ takes => locator.epoch < MaxEpoch
    /\ locator' = [locator EXCEPT !.op = c, !.epoch = IF takes THEN @ + 1 ELSE @]
    /\ ops' = [ops EXCEPT ![c] = [kind |-> kind, phase |-> "completed"]]
    /\ IF replay \/ kind \notin SpaceKinds
       THEN Return(t)
       ELSE Go(t, [cmd |-> c, at |-> "compile", session |-> locator.session,
                   epoch |-> epoch, aux |-> [kind |-> kind]])
    /\ OnlyMeta

----------------------------------------------------------------------------
(* end *)

\* The operation is recorded as committed before anything was written to the
\* Space.  Without a locator, or when the command was seen before, the handler
\* answers with the session as it is.
ClaimEnd(t, c, epoch) ==
    /\ Free(t) /\ locator # None /\ epoch = locator.epoch /\ Fresh(c)
    /\ ops' = [ops EXCEPT ![c] = [kind |-> "end", phase |-> "space_committed"]]
    /\ Go(t, [cmd |-> c, at |-> "rotate", session |-> locator.session,
              epoch |-> epoch,
              aux |-> [kind |-> "end", seen |-> locator.op]])
    /\ UNCHANGED locator /\ OnlyMeta

\* A second transaction rotates the locator, if the operation seen in the first
\* is still the one installed.
RotateEnd(t) ==
    /\ At(t, "rotate")
    /\ IF locator # None /\ locator.op = frame[t].aux.seen
       THEN locator' = [locator EXCEPT !.op = Cmd(t)] /\ To(t, "compile")
       ELSE Return(t) /\ UNCHANGED locator
    /\ UNCHANGED ops /\ OnlyMeta

\* After the commit the singleton is deleted, whatever it names by then.
ReleaseEnd(t) ==
    /\ At(t, "release")
    /\ locator' = None
    /\ Return(t)
    /\ UNCHANGED ops /\ OnlyMeta

----------------------------------------------------------------------------
(* activate_provisional: two sessions are declared to be in conflict. *)

\* The sides of a conflict and of the resolution that decides it.
Sides(c) == IF c \in Resolutions THEN ops[ops[c].related] ELSE ops[c]
Target(c, role) ==
    LET win == ops[c].winner IN
    CASE role \in {"candidate", "active"} -> Sides(c)[role]
      [] role = "winner" -> Sides(c)[win]
      [] role = "loser" -> Sides(c)[IF win = "active" THEN "candidate" ELSE "active"]

RolesOf(c) == IF c \in Resolutions THEN <<"winner", "loser">>
                                   ELSE <<"candidate", "active">>

\* A used command id fails on its primary key.
Activate(t, c, active, candidate) ==
    /\ Free(t) /\ active # candidate
    /\ locator # None => locator.state = "claiming" /\ locator.op = c
    /\ Fresh(c)
    /\ locator' = IF locator = None
                  THEN [session |-> active, op |-> c, state |-> "claiming", epoch |-> 1]
                  ELSE locator
    /\ ops' = [ops EXCEPT ![c] = [kind |-> "activate_provisional", phase |-> "claimed",
                                  active |-> active, candidate |-> candidate]]
    /\ Go(t, [cmd |-> c, at |-> "child", session |-> candidate, epoch |-> 1,
              aux |-> "candidate"])
    /\ OnlyMeta

\* The phase moves on without a look at what it was.
AwaitResolution(t) ==
    /\ At(t, "await")
    /\ ops' = [ops EXCEPT ![Cmd(t)].phase = "awaiting_resolution"]
    /\ Return(t)
    /\ UNCHANGED locator /\ OnlyMeta

----------------------------------------------------------------------------
(* The named children of an activation or a resolution, one after the      *)
(* other.  Envelope, mutation and receipt are three transactions under one *)
(* lease.  A child is "none" until its mutation is in the journal, then    *)
(* "applied", and "succeeded" once a receipt says so; or it is "failed"    *)
(* (the policy rejected it) or "aborted" (the process died half-way),      *)
(* neither of which is ever run again.                                     *)

Second(t) == frame[t].aux = RolesOf(Cmd(t))[2]

\* On to the other child, or to the phase change once both have receipts.
NextChild(t) ==
    IF Second(t)
    THEN To(t, IF Cmd(t) \in Resolutions THEN "transfer" ELSE "await")
    ELSE LET role == RolesOf(Cmd(t))[2] IN
         Go(t, [frame[t] EXCEPT !.at = "child", !.aux = role,
                                !.session = Target(Cmd(t), role)])

Status(t) == child[Cmd(t)][frame[t].aux]
SetStatus(t, x) == child' = [child EXCEPT ![Cmd(t)][frame[t].aux] = x]

\* The proof of a resolution's child is the locator on the winner's side under
\* this operation, still claimed.
ResolutionProved(t) ==
    /\ locator # None /\ locator.state = "claiming" /\ locator.op = Cmd(t)
    /\ locator.session = Target(Cmd(t), "winner")
    /\ locator.epoch = frame[t].epoch
    /\ ops[Cmd(t)].phase = "claimed"

ChildAllowed(t) ==
    IF Cmd(t) \in Resolutions THEN ResolutionProved(t) /\ CanResolve(Session(t))
                              ELSE CanMark(Session(t))

AtChild(t) == At(t, "child") /\ LeaseOf(t) = None

ChildSkip(t) ==
    /\ AtChild(t) /\ Status(t) = "succeeded"
    /\ NextChild(t)
    /\ UNCHANGED <<rows, revisions, effort, locator, ops, child, lease, events>>

\* Mutant: a mutation without a receipt is as good as an aborted one.
ChildRestoreRefused(t) ==
    /\ AtChild(t) /\ Status(t) = "applied"
    /\ Return(t)
    /\ UNCHANGED <<rows, revisions, effort, locator, ops, child, lease, events>>

\* The journal proves the mutation and only the receipt is missing.
ChildRestore(t) ==
    /\ AtChild(t) /\ Status(t) = "applied"
    /\ SetStatus(t, "succeeded") /\ NextChild(t)
    /\ UNCHANGED <<rows, revisions, effort, locator, ops, lease, events>>

\* Mutant: a child that was rejected does not stop the operation.
ChildRefusedGoesOn(t) ==
    /\ AtChild(t) /\ Status(t) \in {"failed", "aborted"}
    /\ NextChild(t)
    /\ UNCHANGED <<rows, revisions, effort, locator, ops, child, lease, events>>

ChildRefused(t) ==
    /\ AtChild(t) /\ Status(t) \in {"failed", "aborted"}
    /\ Return(t)
    /\ UNCHANGED <<rows, revisions, effort, locator, ops, child, lease, events>>

ChildCompile(t) ==
    /\ AtChild(t) /\ Status(t) = "none"
    /\ IF ChildAllowed(t)
       THEN Lock(t) /\ To(t, "child_commit") /\ UNCHANGED child
       ELSE SetStatus(t, "failed") /\ Return(t) /\ UNCHANGED lease
    /\ UNCHANGED <<rows, revisions, effort, locator, ops, events>>

ChildEffect(t) ==
    CASE frame[t].aux = "winner" -> Win(Session(t))
      [] frame[t].aux = "loser" -> Lose(Session(t))
      [] OTHER -> Mark(Session(t))

\* The mutation and its receipt: nobody looks between the two, but see Crash.
ChildCommit(t) ==
    /\ At(t, "child_commit")
    /\ ChildEffect(t)
    /\ SetStatus(t, "succeeded") /\ Unlock(t) /\ NextChild(t)
    /\ UNCHANGED <<locator, ops, events>>

----------------------------------------------------------------------------
(* resolve_activation_conflict *)

\* A read of the locator finds the conflict's operation there, or this very
\* resolution, which a request before this one had installed.
ReadConflict(t, c, winner) ==
    /\ Free(t) /\ locator # None /\ locator.state = "claiming"
    /\ \/ /\ locator.op = c /\ ops[c] # None
          /\ Go(t, [cmd |-> c, at |-> "anchor", session |-> None, epoch |-> locator.epoch,
                    aux |-> [related |-> ops[c].related, winner |-> winner, restart |-> TRUE]])
       \/ /\ locator.op \in Activations /\ ops[locator.op] # None
          /\ ops[c] # None \/ Fresh(c)
          /\ locator.epoch < MaxEpoch
          /\ Go(t, [cmd |-> c, at |-> "anchor", session |-> None, epoch |-> locator.epoch + 1,
                    aux |-> [related |-> locator.op, winner |-> winner, restart |-> FALSE]])
    /\ UNCHANGED metaVars /\ OnlyMeta

\* One transaction records the resolution and moves the locator to the winner
\* at the next epoch, unless it has changed since it was read.
AnchorResolution(t) ==
    LET x == frame[t].aux
        c == Cmd(t)
        conflict == ops[x.related]
        unmoved == /\ locator # None /\ locator.state = "claiming"
                   /\ locator.op = x.related /\ locator.epoch = frame[t].epoch - 1
                   /\ locator.session = conflict.active
    IN
    /\ At(t, "anchor")
    /\ \/ /\ ops[c] = None /\ unmoved
          /\ ops' = [ops EXCEPT ![c] = [kind |-> "resolve_activation_conflict",
                                        phase |-> "claimed", related |-> x.related,
                                        winner |-> x.winner]]
          /\ locator' = [locator EXCEPT !.op = c, !.epoch = frame[t].epoch,
                                        !.session = conflict[x.winner]]
          /\ To(t, "proof")
       \/ /\ ops[c] = None /\ ~unmoved
          /\ Return(t) /\ UNCHANGED metaVars
       \/ /\ ops[c] # None
          /\ IF ops[c].winner = x.winner /\ ops[c].related = x.related
             THEN To(t, "proof") ELSE Return(t)
          /\ UNCHANGED metaVars
    /\ OnlyMeta

\* The proof is built from the rows as they are now.
ReadProof(t) ==
    LET c == Cmd(t) IN
    /\ At(t, "proof")
    /\ IF locator # None /\ locator.session = Target(c, "winner")
       THEN Go(t, [frame[t] EXCEPT !.at = "child", !.aux = "winner",
                                   !.session = Target(c, "winner")])
       ELSE Return(t)
    /\ UNCHANGED metaVars /\ OnlyMeta

Transfer(t) ==
    LET c == Cmd(t) IN
    /\ At(t, "transfer")
    /\ ops' = IF ops[c].phase = "claimed"
              THEN [ops EXCEPT ![c].phase = "transferred"] ELSE ops
    /\ To(t, "complete")
    /\ UNCHANGED locator /\ OnlyMeta

\* Three conditional updates in one transaction: all of them or none.
Complete(t) ==
    LET c == Cmd(t)
        conflict == ops[c].related
        ready == /\ locator # None /\ locator.state = "claiming" /\ locator.op = c
                 /\ locator.epoch = frame[t].epoch
                 /\ locator.session = Target(c, "winner")
                 /\ ops[c].phase = "transferred"
                 /\ ops[conflict].phase = "awaiting_resolution"
    IN
    /\ At(t, "complete")
    /\ IF ready
       THEN /\ locator' = [locator EXCEPT !.state = "active"]
            /\ ops' = [ops EXCEPT ![c].phase = "completed", ![conflict].phase = "completed"]
       ELSE UNCHANGED metaVars
    /\ Return(t)
    /\ OnlyMeta

----------------------------------------------------------------------------
(* The process dies between two steps, and every request with it.  The     *)
(* journal has then nothing of the child that was under way, has it        *)
(* aborted when the next mutation of the Space recovers it, or completes   *)
(* it without a receipt.                                                   *)

Crash ==
    /\ \E t \in Tasks : ~Idle(t)
    /\ events < MaxEvents /\ events' = events + 1
    /\ frame' = [t \in Tasks |-> None]
    /\ lease' = [space \in Spaces |-> None]
    /\ \/ UNCHANGED child /\ UNCHANGED focusVars
       \/ \E t \in Tasks : /\ At(t, "child_commit")
                           /\ SetStatus(t, "aborted") /\ UNCHANGED focusVars
       \/ \E t \in Tasks : /\ At(t, "child_commit")
                           /\ SetStatus(t, "applied") /\ ChildEffect(t)
    /\ UNCHANGED <<locator, ops>>

----------------------------------------------------------------------------
Begin(t) ==
    \/ \E c \in Starts, s \in Sessions : ClaimStart(t, c, s)
    \/ \E c \in Touches, kind \in TouchKinds, e \in 1..MaxEpoch : TouchLocator(t, c, kind, e)
    \/ \E c \in Ends, e \in 1..MaxEpoch : ClaimEnd(t, c, e)
    \/ \E c \in Activations, a, b \in Sessions : Activate(t, c, a, b)
    \/ \E c \in Resolutions, w \in {"active", "candidate"} : ReadConflict(t, c, w)

Proceed(t) ==
    \/ Compile(t) \/ Commit(t) \/ RotateEnd(t) \/ ReleaseEnd(t)
    \/ ChildSkip(t) \/ ChildRestore(t) \/ ChildRefused(t) \/ ChildCompile(t)
    \/ ChildCommit(t) \/ AwaitResolution(t)
    \/ AnchorResolution(t) \/ ReadProof(t) \/ Transfer(t) \/ Complete(t)

\* Reviews, corrections and what devices push.
Others == /\ \E space \in Spaces : lease[space] = None /\ Elsewhere(space)
          /\ events < MaxEvents /\ events' = events + 1
          /\ UNCHANGED <<locator, ops, child, frame, lease>>

CoordinatorInit ==
    /\ FocusInit
    /\ locator = None
    /\ ops = [c \in Commands |-> None]
    /\ child = [c \in Activations \cup Resolutions |-> [r \in Roles |-> "none"]]
    /\ frame = [t \in Tasks |-> None]
    /\ lease = [space \in Spaces |-> None]
    /\ events = 0

CoordinatorNext ==
    \/ \E t \in Tasks : Begin(t) \/ Proceed(t)
    \/ Crash \/ Others

CoordinatorSpec == CoordinatorInit /\ [][CoordinatorNext]_coordinatorVars

\* A handler goes on until it returns, and a client that was told that its
\* resolution failed sends it again: among the requests that arrive it is
\* admitted time and again.
FairCoordinatorSpec ==
    /\ CoordinatorSpec
    /\ \A t \in Tasks : WF_coordinatorVars(Proceed(t))
    /\ \A c \in Resolutions : SF_coordinatorVars(\E t \in Tasks :
           ReadConflict(t, c, IF ops[c] = None THEN "candidate" ELSE ops[c].winner))

----------------------------------------------------------------------------
CoordinatorTypeOK ==
    /\ FocusTypeOK
    /\ locator \in [session : Sessions, op : Commands, epoch : 1..MaxEpoch,
                    state : {"claiming", "active"}] \cup {None}
    /\ \A c \in Commands : ops[c] = None \/ ops[c].phase \in
           CASE c \in Starts -> {"claimed"}
             [] c \in Ends -> {"space_committed"}
             [] c \in Touches -> {"completed"}
             [] c \in Activations -> {"claimed", "awaiting_resolution", "completed"}
             [] OTHER -> {"claimed", "transferred", "completed"}
    /\ child \in [Activations \cup Resolutions ->
                    [Roles -> {"none", "applied", "succeeded", "failed", "aborted"}]]
    /\ \A t \in Tasks : ~Idle(t) => Cmd(t) \in Commands
    /\ lease \in [Spaces -> Tasks \cup {None}]
    /\ \A t \in Tasks : At(t, "commit") \/ At(t, "child_commit")
                           <=> \E space \in Spaces : lease[space] = t

\* There is at most one active session, and it is the one the locator names: a
\* session of authoritative ownership runs or is paused only while the locator
\* points at it, although the row is written when the policy read the locator
\* some time before, and the locator is deleted by whoever ended a session.
RunningUnderLocator ==
    \A s \in Sessions : Is(s, "authoritative") /\ Live(s) =>
        locator # None /\ locator.session = s

\* A phase is as good as its evidence: a conflict awaits its resolution, and a
\* resolution is transferred, only when the Space has a receipt of both
\* children; and what they did to the sessions is still so.
PhasesAreProven ==
    /\ \A c \in Activations : ops[c] # None /\ ops[c].phase # "claimed" =>
           \A r \in {"candidate", "active"} : child[c][r] = "succeeded"
    /\ \A c \in Activations : ops[c] # None /\ ops[c].phase = "completed" =>
           \E d \in Resolutions : /\ ops[d] # None /\ ops[d].phase = "completed"
                                   /\ ops[d].related = c
    /\ \A c \in Resolutions : ops[c] # None /\ ops[c].phase # "claimed" =>
           /\ \A r \in {"winner", "loser"} : child[c][r] = "succeeded"
           /\ Ended(Target(c, "loser"))

\* A resolution that has the locator, of a conflict that awaits it, is completed
\* in the end, whatever the process lost on the way: unless another command
\* rotates the locator first, or one of its children was rejected or aborted.
ResolutionCompletes ==
    \A c \in Resolutions :
        (/\ locator # None /\ locator.op = c
         /\ ops[c] # None /\ ops[ops[c].related].phase = "awaiting_resolution")
        ~> (\/ ops[c] # None /\ ops[c].phase = "completed"
            \/ locator = None \/ locator.op # c
            \/ \E r \in {"winner", "loser"} : child[c][r] \in {"failed", "aborted"})
=============================================================================
