---------------------------- MODULE OwnerProcess ----------------------------
(***************************************************************************)
(* One server process from start to end (runtime/bootstrap.py) and the     *)
(* provisioning of Spaces (runtime/space.py).  A single owner task starts  *)
(* the process - preflight, migration and recovery of every store under    *)
(* the EXCLUSIVE global lease - then runs commands one at a time beside    *)
(* the requests, and at last drains them and closes what is open.  The     *)
(* process may die at any point and be started again.                      *)
(*                                                                         *)
(* Bounds: MaxQueue commands wait for the owner task (32 in the code);     *)
(* MaxCrashes deaths of the process.                                       *)
(***************************************************************************)
EXTENDS SpaceRuntime, Sequences

CONSTANTS Meta,        \* the database of registrations
          Clients,     \* tasks that ask for a new Space
          MaxQueue, MaxCrashes

ASSUME StoresAssumption ==
    /\ Meta \notin Spaces /\ Stores = Spaces \cup {Meta}
    /\ Owner \notin Requests /\ MaxQueue \in Nat \ {0}

VARIABLES
    gate,        \* the state of the admission gate; "off": there is no process
    owner,       \* the owner task
    command,     \* client -> its command
    queue,       \* the commands the owner task has accepted
    registered,  \* Spaces registered in the meta database
    tree,        \* Space -> its directory
    orphaned,    \* registered Spaces whose directory a failed registration removed
    crashes

ownVars == <<gate, owner, command, queue, registered, tree, orphaned, crashes>>
procVars == <<vfsVars, diskVars, runVars, ownVars>>

NoOwner == [pc |-> "idle", global |-> FALSE, left |-> {}, at |-> None,
            client |-> None, failed |-> FALSE]
NoCommand == [pc |-> "none", space |-> None, cancelled |-> FALSE]
NoTree == [at |-> "none", marker |-> FALSE, filled |-> FALSE]
WholeTree == [at |-> "final", marker |-> FALSE, filled |-> TRUE]

StartupPcs == {"global", "preflight", "migrate", "migrating", "prepare", "recovering"}
ProvisionPcs == {"mkdir", "pglobal", "isolated", "mark", "fill", "publish", "register",
                 "unmark", "remove", "release"}

OwnTypeOK ==
    /\ gate \in {"off", "starting", "ready", "draining", "closed", "failed"}
    /\ owner \in [pc : {"idle", "loop", "cleanup", "verdict", "over"} \cup StartupPcs \cup ProvisionPcs,
                  global : BOOLEAN, left : SUBSET Spaces, at : Stores \cup {None},
                  client : Clients \cup {None}, failed : BOOLEAN]
    /\ command \in [Clients -> [pc : {"none", "waiting", "queued", "running", "done"},
                                space : Spaces \cup {None}, cancelled : BOOLEAN]]
    /\ queue \in UNION {[1..n -> Clients] : n \in 0..MaxQueue}
    /\ registered \subseteq Spaces /\ orphaned \subseteq registered
    /\ tree \in [Spaces -> [at : {"none", "staging", "final"}, marker : BOOLEAN, filled : BOOLEAN]]
    /\ crashes \in 0..MaxCrashes

TypeOK == VfsTypeOK /\ MigTypeOK /\ RunTypeOK /\ OwnTypeOK

Existing == {Meta} \cup (registered \ orphaned)

ProcInit ==
    /\ VfsInit
    /\ registered \in SUBSET Spaces
    /\ MigInit({Meta} \cup registered)
    /\ \A x \in Spaces \ registered : ~journal[x] /\ schema[x] = "head"
    /\ RunInit
    /\ unclean \in [Spaces -> {{}, {Owner}}]
    /\ \A s \in Spaces \ registered : unclean[s] = {}
    /\ gate = "off" /\ owner = NoOwner
    /\ command = [c \in Clients |-> NoCommand] /\ queue = <<>>
    /\ tree = [s \in Spaces |-> IF s \in registered THEN WholeTree ELSE NoTree]
    /\ orphaned = {} /\ crashes = 0

Now(pc) == owner' = [owner EXCEPT !.pc = pc]

----------------------------------------------------------------------------
(* Startup *)

Start ==
    /\ gate = "off"
    /\ gate' = "starting"
    /\ owner' = [NoOwner EXCEPT !.pc = "global"]
    /\ UNCHANGED <<vfsVars, diskVars, runVars, command, queue, registered, tree, orphaned, crashes>>

\* What fails the startup closes the gate for good and leads to the cleanup.
Abort ==
    /\ gate' = "failed"
    /\ owner' = [owner EXCEPT !.pc = "cleanup", !.failed = TRUE]
    /\ UNCHANGED <<command, queue, registered, tree, orphaned, crashes>>

Proceed(to) ==
    /\ owner' = to
    /\ UNCHANGED <<gate, command, queue, registered, tree, orphaned, crashes>>

StartGlobal ==
    /\ owner.pc = "global"
    /\ Proceed([owner EXCEPT !.pc = "preflight", !.global = TRUE])
    /\ UNCHANGED <<vfsVars, diskVars, runVars>>

\* Every store is looked at before one is touched; the registrations are
\* frozen.  A store that is missing, or that a policy refuses, ends it.
Preflight ==
    /\ owner.pc = "preflight"
    /\ UNCHANGED <<diskVars, runVars, bindings>>
    /\ \/ /\ \A x \in {Meta} \cup registered : place[x].main # None
          /\ journal' = [x \in Stores |-> FALSE]
          /\ Proceed([owner EXCEPT !.pc = "migrate", !.at = Meta, !.left = registered])
          /\ UNCHANGED faults
       \/ /\ \E x \in {Meta} \cup registered : place[x].main = None
          /\ Abort
          /\ UNCHANGED <<journal, faults>>
       \/ /\ Fails
          /\ Abort
          /\ UNCHANGED journal

Migrate ==
    /\ owner.pc = "migrate"
    /\ mig' = [NoMigration EXCEPT !.pc = "begin", !.store = owner.at]
    /\ Proceed([owner EXCEPT !.pc = "migrating"])
    /\ UNCHANGED <<vfsVars, runVars, place, schema, copy, exitRequired, pending>>

\* The meta database is followed by the Spaces, each under its EXCLUSIVE lease.
Migrated ==
    /\ owner.pc = "migrating" /\ mig.pc = "none"
    /\ IF mig.result = "failed"
         THEN Abort /\ handle' = [handle EXCEPT ![Owner] = NoHandle]
       ELSE IF owner.at = Meta
         THEN Proceed([owner EXCEPT !.pc = "prepare"]) /\ UNCHANGED handle
       ELSE /\ Proceed([owner EXCEPT !.pc = "recovering"])
            /\ Go(Owner, "verify")
    /\ UNCHANGED <<vfsVars, diskVars, cache, draining, degraded, unclean>>

Prepare ==
    /\ owner.pc = "prepare" /\ owner.left # {}
    /\ \E s \in owner.left :
          /\ Proceed([owner EXCEPT !.pc = "migrate", !.at = s, !.left = @ \ {s}])
          /\ Step(Owner, [NoHandle EXCEPT !.space = s, !.mode = "recover",
                                          !.lease = "exclusive"])
    /\ UNCHANGED <<vfsVars, diskVars, cache, draining, degraded, unclean>>

\* The borrowed handle has verified and recovered the Space and is closed
\* again; one that could not, or that a human must look at, fails the startup.
Prepared ==
    LET s == owner.at
        fine == At(Owner, "leave") /\ s \notin degraded /\ unclean[s] = {} IN
    /\ owner.pc = "recovering" /\ (At(Owner, "leave") \/ At(Owner, "stuck"))
    /\ IF fine THEN Proceed([owner EXCEPT !.pc = "prepare"]) ELSE Abort
    /\ IF At(Owner, "leave") THEN Step(Owner, NoHandle) ELSE UNCHANGED handle
    /\ UNCHANGED <<vfsVars, diskVars, cache, draining, degraded, unclean>>

PublishReady ==
    /\ owner.pc = "prepare" /\ owner.left = {}
    /\ gate' = "ready"
    /\ owner' = [NoOwner EXCEPT !.pc = "loop"]
    /\ UNCHANGED <<vfsVars, diskVars, runVars, command, queue, registered, tree, orphaned, crashes>>

----------------------------------------------------------------------------
(* Requests *)

Admit(h) ==
    /\ gate = "ready" /\ At(h, "idle")
    /\ Go(h, "global")
    /\ UNCHANGED <<vfsVars, diskVars, cache, draining, degraded, unclean, ownVars>>

\* The SHARED global lease is waited for with a bound.
TakeGlobal(h) ==
    /\ At(h, "global")
    /\ IF owner.global THEN Step(h, NoHandle)
                       ELSE Step(h, [handle[h] EXCEPT !.global = "shared", !.pc = "resolve"])
    /\ UNCHANGED <<vfsVars, diskVars, cache, draining, degraded, unclean, ownVars>>

\* The registration is read in the meta database, and its directory entered.
Resolve(h) ==
    /\ At(h, "resolve")
    /\ \E s \in Spaces, mode \in {"read", "write"} :
          IF s \in registered /\ tree[s].at = "final"
            THEN Step(h, [handle[h] EXCEPT !.space = s, !.mode = mode,
                              !.pc = IF mode = "read" THEN "lease" ELSE "verify"])
            ELSE Go(h, "leave")
    /\ UNCHANGED <<vfsVars, diskVars, cache, draining, degraded, unclean, ownVars>>

\* The global lease is released, and the admission is given back with it.
Leave(h) ==
    /\ At(h, "leave")
    /\ Step(h, NoHandle)
    /\ UNCHANGED <<vfsVars, diskVars, cache, draining, degraded, unclean, ownVars>>

RequestStep(h) ==
    \/ TakeGlobal(h) \/ Resolve(h) \/ Leave(h)
    \/ HandleStep(h) /\ UNCHANGED ownVars

OwnerHandle == HandleStep(Owner) /\ UNCHANGED ownVars

----------------------------------------------------------------------------
(* Commands *)

\* A client whose command was rejected or has failed may ask again.
Unasked(c) == command' = [command EXCEPT ![c] = NoCommand]
Command(c, pc) == command' = [command EXCEPT ![c].pc = pc]

Submit(c) ==
    /\ gate = "ready" /\ command[c].pc = "none"
    /\ \E s \in Spaces : command' = [command EXCEPT ![c] =
                                        [NoCommand EXCEPT !.pc = "waiting", !.space = s]]
    /\ UNCHANGED <<vfsVars, diskVars, runVars, gate, owner, queue, registered, tree, orphaned, crashes>>

\* A command that waits for room is rejected when the gate leaves READY.
Enter(c) ==
    /\ command[c].pc = "waiting"
    /\ \/ /\ gate = "ready" /\ Len(queue) < MaxQueue
          /\ queue' = Append(queue, c)
          /\ Command(c, "queued")
       \/ /\ gate # "ready"
          /\ Unasked(c)
          /\ UNCHANGED queue
    /\ UNCHANGED <<vfsVars, diskVars, runVars, gate, owner, registered, tree, orphaned, crashes>>

\* The client is cancelled: what the owner has accepted is only asked to stop.
Cancel(c) ==
    /\ \/ command[c].pc = "waiting" /\ Unasked(c)
       \/ /\ command[c].pc \in {"queued", "running"} /\ ~command[c].cancelled
          /\ command' = [command EXCEPT ![c].cancelled = TRUE]
    /\ UNCHANGED <<vfsVars, diskVars, runVars, gate, owner, queue, registered, tree, orphaned, crashes>>

TakeCommand ==
    /\ owner.pc = "loop" /\ queue # <<>>
    /\ owner' = [owner EXCEPT !.pc = "mkdir", !.client = Head(queue),
                              !.at = command[Head(queue)].space, !.failed = FALSE]
    /\ queue' = Tail(queue)
    /\ Command(Head(queue), "running")
    /\ UNCHANGED <<vfsVars, diskVars, runVars, gate, registered, tree, orphaned, crashes>>

----------------------------------------------------------------------------
(* Provisioning *)

Cancelled == command[owner.client].cancelled

Work(to, dir) ==
    /\ owner' = to
    /\ tree' = [tree EXCEPT ![owner.at] = dir]
    /\ UNCHANGED <<gate, command, queue, crashes>>

Onward(pc, dir) == Work([owner EXCEPT !.pc = pc], dir)
Undo(dir) == Work([owner EXCEPT !.pc = "remove", !.failed = TRUE], dir)

Dir == tree[owner.at]

\* A staging directory with a marker, unless the Space is there already.
MakeStaging ==
    /\ owner.pc = "mkdir"
    /\ \/ /\ Dir.at = "final" \/ Cancelled
          /\ Work([owner EXCEPT !.pc = "release", !.failed = TRUE], Dir)
          /\ UNCHANGED faults
       \/ /\ Dir.at # "final" /\ ~Cancelled
          /\ \/ Onward("pglobal", [NoTree EXCEPT !.at = "staging", !.marker = TRUE]) /\ UNCHANGED faults
             \/ /\ Fails
                /\ \E m \in BOOLEAN : Undo([NoTree EXCEPT !.at = "staging", !.marker = m])
    /\ UNCHANGED <<bindings, journal, diskVars, runVars, registered, orphaned>>

\* The EXCLUSIVE leases: requests keep it waiting, and it gives up.  A global
\* lease an earlier command could not give back is waited for as well.
ProvisionLeases ==
    /\ owner.pc = "pglobal"
    /\ IF owner.global \/ \E h \in Requests : handle[h].global = "shared"
         THEN Undo(Dir) /\ UNCHANGED handle
         ELSE /\ Work([owner EXCEPT !.pc = "isolated", !.global = TRUE], Dir)
              /\ Step(Owner, [NoHandle EXCEPT !.space = owner.at, !.mode = "recover",
                                              !.lease = "exclusive"])
    /\ UNCHANGED <<vfsVars, diskVars, cache, draining, degraded, unclean, registered, orphaned>>

\* A database is made under an isolated name and committed: its marker is
\* deleted.  A commit that fails, having deleted it or not, and a discard
\* that fails are cleanups that keep the global lease.
CreateIsolated ==
    LET made == [Dir EXCEPT !.marker = FALSE] IN
    /\ owner.pc = "isolated"
    /\ \/ Onward("mark", made) /\ place' = [place EXCEPT ![owner.at] = InPlace]
          /\ UNCHANGED <<faults, pending>>
       \/ /\ Fails /\ UNCHANGED pending
          /\ Undo(made) /\ UNCHANGED place
       \/ /\ Fails /\ pending' = pending \cup {"marker"}
          /\ \E dir \in {Dir, made} : Undo(dir)
          /\ place' = [place EXCEPT ![owner.at] = InPlace]
    /\ UNCHANGED <<bindings, journal, schema, copy, mig, exitRequired, runVars, registered, orphaned>>

\* A step of the provisioning that writes files.
Writes(pc, next, done, part) ==
    /\ owner.pc = pc
    /\ \/ Onward(next, done) /\ UNCHANGED faults
       \/ Fails /\ \E dir \in {part, done} : Undo(dir)
    /\ UNCHANGED <<bindings, journal, diskVars, runVars, registered, orphaned>>

\* Faulty variant: the marker the commit has deleted is not written again.
MarkAgainNever == Writes("mark", "fill", Dir, Dir)

\* The marker is written again: what follows must be removable.
MarkAgain == Writes("mark", "fill", [Dir EXCEPT !.marker = TRUE], Dir)

FillSpace == Writes("fill", "publish", [Dir EXCEPT !.filled = TRUE], Dir)

\* The directory takes its final name.
PublishTree ==
    /\ owner.pc = "publish" /\ ~Cancelled
    /\ Writes("publish", "register", [Dir EXCEPT !.at = "final"], Dir)

CancelProvision ==
    /\ owner.pc \in {"publish", "register"} /\ Cancelled
    /\ Undo(Dir)
    /\ UNCHANGED <<vfsVars, diskVars, runVars, registered, orphaned>>

\* The registration is committed.  The call may fail all the same - the row
\* is read back after the commit - and the caller takes it for undone.
Register ==
    /\ owner.pc = "register" /\ ~Cancelled
    /\ \/ /\ owner.at \notin registered
          /\ Onward("unmark", Dir) /\ registered' = registered \cup {owner.at} /\ UNCHANGED faults
       \/ /\ owner.at \in registered                      \* the identifier is taken
          /\ Undo(Dir) /\ UNCHANGED <<registered, faults>>
       \/ Fails /\ Undo(Dir) /\ registered' \in {registered, registered \cup {owner.at}}
    /\ UNCHANGED <<bindings, journal, diskVars, runVars, orphaned>>

\* From here on a failure is reported, and nothing is undone.
Unmark ==
    /\ owner.pc = "unmark"
    /\ \/ Onward("release", [Dir EXCEPT !.marker = FALSE]) /\ UNCHANGED faults
       \/ /\ Fails
          /\ \E dir \in {Dir, [Dir EXCEPT !.marker = FALSE]} :
                Work([owner EXCEPT !.pc = "release", !.failed = TRUE], dir)
    /\ UNCHANGED <<bindings, journal, diskVars, runVars, registered, orphaned>>

\* What carries the marker is removed; the removal may stop half-way.  A
\* staging directory that stays is never looked at again.
RemoveTree ==
    LET s == owner.at
        left(dir) == IF dir.at = "staging" THEN NoTree ELSE dir IN
    /\ owner.pc = "remove"
    /\ \/ /\ Dir.marker
          /\ Work([owner EXCEPT !.pc = "release"], NoTree)
          /\ place' = [place EXCEPT ![s] = Absent]
          /\ UNCHANGED faults
       \/ /\ ~Dir.marker
          /\ Work([owner EXCEPT !.pc = "release"], left(Dir))
          /\ place' = [place EXCEPT ![s] = IF Dir.at = "final" THEN @ ELSE Absent]
          /\ UNCHANGED faults
       \/ /\ Dir.marker /\ Fails
          /\ \E m \in BOOLEAN :
                Work([owner EXCEPT !.pc = "release"], left([Dir EXCEPT !.marker = m, !.filled = FALSE]))
          /\ place' = [place EXCEPT ![s] = Absent]
    /\ orphaned' = orphaned \cup ({s} \cap registered)
    /\ UNCHANGED <<bindings, journal, schema, copy, mig, exitRequired, pending, runVars, registered>>

\* The Space lease and, unless a cleanup depends on it, the global one are
\* released and the client is answered.
Answer ==
    /\ owner.pc = "release"
    /\ owner' = [NoOwner EXCEPT !.pc = "loop", !.global = owner.global /\ "marker" \in pending,
                                !.left = {}, !.at = IF "marker" \in pending THEN owner.at ELSE None]
    /\ IF owner.failed THEN Unasked(owner.client)
       ELSE command' = [command EXCEPT ![owner.client] =
                            [pc |-> "done", space |-> owner.at, cancelled |-> FALSE]]
    /\ Step(Owner, NoHandle)
    /\ UNCHANGED <<vfsVars, diskVars, cache, draining, degraded, unclean,
                   gate, queue, registered, tree, orphaned, crashes>>

Provisioning ==
    \/ MakeStaging \/ ProvisionLeases \/ CreateIsolated \/ MarkAgain \/ FillSpace
    \/ PublishTree \/ CancelProvision \/ Register \/ Unmark \/ RemoveTree \/ Answer

----------------------------------------------------------------------------
(* The end *)

Drain ==
    /\ gate = "ready"
    /\ gate' = "draining"
    /\ UNCHANGED <<vfsVars, diskVars, runVars, owner, command, queue, registered, tree, orphaned, crashes>>

\* Faulty variant: the commands that are queued do not count.
DrainedOfRequests ==
    /\ gate = "draining" /\ owner.pc = "loop"
    /\ \A h \in Requests : At(h, "idle")
    /\ Now("cleanup")
    /\ UNCHANGED <<vfsVars, diskVars, runVars, gate, command, queue, registered, tree, orphaned, crashes>>

\* No command and no handle is left: the owner task is told to end.
Drained ==
    /\ gate = "draining" /\ owner.pc = "loop" /\ queue = <<>>
    /\ \A h \in Requests : At(h, "idle")
    /\ Now("cleanup")
    /\ UNCHANGED <<vfsVars, diskVars, runVars, gate, command, queue, registered, tree, orphaned, crashes>>

\* The cleanups of the owner task are tried again.  A checkpoint that gave no
\* receipt never ends; nor does the deletion of a marker that is gone.
RetryCleanups ==
    /\ owner.pc = "cleanup"
    /\ pending' \in {pending \ {"marker"}, pending}
    /\ IF At(Owner, "stuck")
         THEN Step(Owner, [handle[Owner] EXCEPT !.pc = "close", !.broken = FALSE])
         ELSE UNCHANGED handle
    /\ Now("verdict")
    /\ UNCHANGED <<vfsVars, place, schema, copy, mig, exitRequired, cache, draining, degraded, unclean,
                   gate, command, queue, registered, tree, orphaned, crashes>>

\* The process is closed if nothing is left open, else it has failed and
\* keeps the owner's lock for as long as it lives.
Verdict ==
    LET clean == pending = {} /\ ~At(Owner, "stuck") IN
    /\ owner.pc = "verdict" /\ (At(Owner, "idle") \/ At(Owner, "leave") \/ At(Owner, "stuck"))
    /\ gate' = IF clean /\ ~owner.failed THEN "closed" ELSE "failed"
    /\ owner' = [owner EXCEPT !.pc = "over", !.global = ~clean]
    /\ IF At(Owner, "leave") THEN Step(Owner, NoHandle) ELSE UNCHANGED handle
    /\ UNCHANGED <<vfsVars, diskVars, cache, draining, degraded, unclean,
                   command, queue, registered, tree, orphaned, crashes>>

\* The process dies.  What was in its memory is gone, the staging directory
\* among it: nobody remembers its name.
Crash ==
    LET staged == {s \in Spaces : tree[s].at = "staging"} IN
    /\ gate # "off" /\ crashes < MaxCrashes
    /\ crashes' = crashes + 1
    /\ Forget(staged)
    /\ gate' = "off" /\ owner' = NoOwner
    /\ tree' = [s \in Spaces |-> IF s \in staged THEN NoTree ELSE tree[s]]
    /\ command' = [c \in Clients |-> NoCommand] /\ queue' = <<>>
    /\ handle' = [h \in Handles |-> NoHandle] /\ cache' = [s \in Spaces |-> None]
    /\ draining' = {} /\ degraded' = {}
    /\ bindings' = [t \in Tokens |-> NoBinding]
    /\ UNCHANGED <<journal, faults, unclean, registered, orphaned>>

----------------------------------------------------------------------------

OwnerStep ==
    \/ StartGlobal \/ Preflight \/ Migrate \/ Migrated \/ Prepare \/ Prepared \/ PublishReady
    \/ MigrationStep /\ UNCHANGED <<runVars, ownVars>>
    \/ OwnerHandle
    \/ TakeCommand \/ Provisioning
    \/ Drained \/ RetryCleanups \/ Verdict

ProcNext ==
    \/ Start \/ OwnerStep
    \/ \E h \in Requests : Admit(h) \/ RequestStep(h)
    \/ \E c \in Clients : Submit(c) \/ Enter(c) \/ Cancel(c)
    \/ Drain \/ Crash

\* The event loop runs every task that can run; a request ends its work.
Fairness ==
    /\ WF_procVars(OwnerStep)
    /\ \A h \in Requests : WF_procVars(RequestStep(h)) /\ WF_procVars(Finish(h) /\ UNCHANGED <<diskVars, ownVars>>)
    /\ \A c \in Clients : WF_procVars(Enter(c))

ProcSpec == ProcInit /\ [][ProcNext]_procVars /\ Fairness

----------------------------------------------------------------------------
(* Properties *)

\* Whatever failed and whenever the process died, one file holds the whole of
\* each store's data (BoundReplacement's renames, _replace_upgrade).
DataSurvives == DataSurvivesOf(Existing)

\* One failure of the operating system is always repaired: with no crash
\* and at most one failure, a migration that is over has left no store under
\* a random name.
OneFaultIsHarmless ==
    mig.pc = "none" /\ faults <= 1 /\ crashes = 0 =>
        \A x \in Existing : place[x].main = "source" /\ place[x].backup = None

\* Replacing a database never costs its data, nor its place for one failure.
StoresSurvive == DataSurvives /\ OneFaultIsHarmless

Whole(s) == AtHead(s) /\ place[s].backup = None /\ tree[s].at = "final" /\ tree[s].filled

\* READY promises that the startup is done: every registered store is at the
\* head schema in one piece, no migration asked for the process to end, and a
\* client whose command succeeded finds its Space whole.
ServedIsWhole ==
    /\ gate \in {"ready", "draining"} =>
          /\ schema[Meta] = "head" /\ place[Meta].main = "source"
          /\ \A s \in registered \ orphaned : Whole(s)
          /\ ~exitRequired
    /\ \A c \in Clients : command[c].pc = "done" => command[c].space \in registered \ orphaned

\* A directory under a Space's final name belongs to a registration or
\* carries the marker that lets it be removed, unless removing it failed.
LeftoversAreMarked ==
    \A s \in Spaces :
        tree[s].at = "final" /\ s \notin registered /\ faults = 0 => tree[s].marker

\* READY means whole: what is served, and what lies beside it.
ReadyMeansWhole == ServedIsWhole /\ LeftoversAreMarked

\* A command that was accepted is answered, a shutdown too, unless the
\* process dies before (submit, shutdown).
AcceptedIsAnswered ==
    \A c \in Clients :
        command[c].pc = "queued" ~> command[c].pc \in {"none", "done"}

\* A shutdown ends, unless a request could not close what it has open: its
\* cleanup belongs to a task that is gone.
ShutdownEnds ==
    gate = "draining" ~> gate \in {"closed", "failed", "off"} \/ \E h \in Requests : At(h, "stuck")

\* Nobody waits for ever: neither a client whose command was accepted, nor
\* whoever shuts the process down.
EverybodyIsAnswered == AcceptedIsAnswered /\ ShutdownEnds
=============================================================================
