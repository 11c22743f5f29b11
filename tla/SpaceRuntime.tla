---------------------------- MODULE SpaceRuntime ----------------------------
(***************************************************************************)
(* The runtime of one server process (runtime/space.py, runtime/scope.py,  *)
(* runtime/contained_io.py, space_manager.py): handles that open a Space   *)
(* under leases, the cache of engines they share, and the way back - files,*)
(* engine, Space lease, global lease - when they close.                    *)
(*                                                                         *)
(* A handle opens in one of three ways.  "read" holds a SHARED lease (REST *)
(* requests also write under it); a Space with unfinished batches is first *)
(* recovered through a second, EXCLUSIVE handle and opened again.  "write" *)
(* verifies the Space and takes an EXCLUSIVE lease for its work.  "recover"*)
(* borrows an EXCLUSIVE lease: the recovery of a read, or of the startup.  *)
(***************************************************************************)
EXTENDS Replacement

CONSTANTS Spaces, Requests, Owner    \* Owner: the handle of the owner task

VARIABLES
    handle,    \* handle -> where it stands and what it holds
    cache,     \* Space -> the cached engine: its binding and its references
    draining,  \* Spaces whose identity is drained
    degraded,  \* Spaces shut until the process restarts
    unclean    \* Space -> the batches its journal holds unfinished, by their handle

runVars == <<handle, cache, draining, degraded, unclean>>
diskVars == <<place, schema, copy, mig, exitRequired, pending>>

Handles == Requests \cup {Owner}

NoHandle ==
    [pc |-> "idle", space |-> None, mode |-> "read", global |-> "none", lease |-> "none",
     token |-> None, engine |-> None, files |-> FALSE, txn |-> "none",
     evict |-> FALSE, broken |-> FALSE, after |-> "leave"]

HandlePcs == {"idle", "global", "resolve", "lease", "verify", "open", "engine", "files",
              "inspect", "recover", "use", "close", "unref", "dispose", "evict",
              "unlease", "leave", "stuck"}

RunTypeOK ==
    /\ handle \in [Handles ->
          [pc : HandlePcs, space : Spaces \cup {None}, mode : {"read", "write", "recover"},
           global : {"none", "shared"}, lease : {"none", "shared", "exclusive"},
           token : Tokens \cup {None}, engine : Tokens \cup {None}, files : BOOLEAN,
           txn : {"none", "open", "done"}, evict : BOOLEAN, broken : BOOLEAN,
           after : {"leave", "recover", "reopen"}]]
    /\ \A s \in Spaces : cache[s] = None \/ cache[s] \in [token : Tokens, references : 1..3]
    /\ draining \subseteq degraded /\ degraded \subseteq Spaces
    /\ unclean \in [Spaces -> SUBSET (Handles \cup {"manual"})]

RunInit ==
    /\ handle = [h \in Handles |-> NoHandle]
    /\ cache = [s \in Spaces |-> None]
    /\ draining = {}
    /\ degraded = {}

Step(h, to) == handle' = [handle EXCEPT ![h] = to]
At(h, pc) == handle[h].pc = pc
Go(h, pc) == Step(h, [handle[h] EXCEPT !.pc = pc])

\* The handle gives up: it closes what it has opened and leaves.
GiveUp(h) == Step(h, [handle[h] EXCEPT !.pc = "close", !.after = "leave"])

On(s) == {h \in Handles : handle[h].space = s}

\* Leases of a Space, as Leases.tla grants them.
Wanted(h) == IF handle[h].mode = "read" THEN "shared" ELSE "exclusive"

LeaseFree(h) ==
    \A g \in On(handle[h].space) \ {h} :
        handle[g].lease = "none" \/ (handle[g].lease = "shared" /\ Wanted(h) = "shared")

\* The containment lock of a Space is held while its roles are bound.
Contained(s) == \E h \in On(s) : handle[h].pc \in {"engine", "files"}

Writing(s) == \E h \in On(s) : handle[h].txn = "open"

\* The Space's database is where it belongs, at the head schema.
AtHead(s) == place[s].main = "source" /\ schema[s] = "head"

----------------------------------------------------------------------------
(* Opening *)

TakeLease(h) ==
    /\ At(h, "lease") /\ LeaseFree(h)
    /\ Step(h, [handle[h] EXCEPT !.lease = Wanted(h),
                                 !.pc = IF handle[h].mode = "write" THEN "open" ELSE "verify"])
    /\ UNCHANGED <<cache, draining, degraded, unclean, vfsVars>>

\* The wait for a lease is bounded.
LeaseTimeout(h) ==
    /\ At(h, "lease") /\ ~LeaseFree(h)
    /\ Go(h, "leave")
    /\ UNCHANGED <<cache, draining, degraded, unclean, vfsVars>>

\* A read-only look at a database through a binding of its own.
Peek(x, writing) ==
    journal' = [journal EXCEPT ![x] = @ /\ ~SeesHot(Binding(x), writing)]

\* Under the containment lock the roles are bound, the schema is verified
\* and everything is closed again.  A degraded Space is refused first.
Verify(h) ==
    LET s == handle[h].space IN
    /\ At(h, "verify") /\ ~Contained(s)
    /\ \/ /\ s \notin degraded /\ AtHead(s)
          /\ Go(h, IF handle[h].mode = "write" THEN "lease" ELSE "open")
          /\ Peek(s, Writing(s))
          /\ UNCHANGED faults
       \/ /\ s \in degraded \/ ~AtHead(s)
          /\ GiveUp(h)
          /\ UNCHANGED <<journal, faults>>
       \/ /\ Fails
          /\ GiveUp(h)
          /\ UNCHANGED journal
    /\ UNCHANGED <<cache, draining, degraded, unclean, bindings>>

\* The roles are bound for good: from here on resources follow.
BindRoles(h) ==
    LET s == handle[h].space IN
    /\ At(h, "open") /\ ~Contained(s)
    /\ \/ /\ s \notin degraded
          /\ Bind(FreshToken, s)
          /\ Step(h, [handle[h] EXCEPT !.pc = "engine", !.token = FreshToken])
          /\ UNCHANGED faults
       \/ s \in degraded /\ GiveUp(h) /\ UNCHANGED <<bindings, faults>>
       \/ Fails /\ GiveUp(h) /\ UNCHANGED bindings
    /\ UNCHANGED <<cache, draining, degraded, unclean, journal>>

\* Faulty variant: the new binding is left in the registry.
AcquireEngineAsWell(h) ==
    LET s == handle[h].space
        t == handle[h].token
        shared == cache[s] # None IN
    /\ At(h, "engine") /\ s \notin draining
    /\ cache' = [cache EXCEPT ![s] = IF shared THEN [@ EXCEPT !.references = @ + 1]
                                              ELSE [token |-> t, references |-> 1]]
    /\ Step(h, [handle[h] EXCEPT !.pc = "files", !.token = None,
                                 !.engine = IF shared THEN cache[s].token ELSE t])
    /\ UNCHANGED <<bindings, draining, degraded, unclean, journal, faults>>

\* An engine that is cached is shared, and the new binding is not needed;
\* otherwise the binding is transferred to a new engine.  A drained
\* identity is waited for.
AcquireEngine(h) ==
    LET s == handle[h].space
        t == handle[h].token IN
    /\ At(h, "engine") /\ s \notin draining
    /\ IF cache[s] # None
         THEN /\ cache' = [cache EXCEPT ![s].references = @ + 1]
              /\ Step(h, [handle[h] EXCEPT !.pc = "files", !.token = None,
                                           !.engine = cache[s].token])
              /\ Revoke(t)
         ELSE /\ cache' = [cache EXCEPT ![s] = [token |-> t, references |-> 1]]
              /\ Step(h, [handle[h] EXCEPT !.pc = "files", !.token = None, !.engine = t])
              /\ UNCHANGED bindings
    /\ UNCHANGED <<draining, degraded, unclean, journal, faults>>

OpenFiles(h) ==
    /\ At(h, "files")
    /\ \/ /\ Step(h, [handle[h] EXCEPT !.files = TRUE,
                          !.pc = IF handle[h].mode = "read" THEN "inspect" ELSE "recover"])
          /\ UNCHANGED faults
       \/ Fails /\ GiveUp(h)
    /\ UNCHANGED <<cache, draining, degraded, unclean, journal, bindings>>

\* The pool of an engine connects at its first use.
Connects(h) ==
    LET t == handle[h].engine IN
    IF bindings[t].references = 0 THEN Connect(t, Writing(handle[h].space))
                                  ELSE UNCHANGED <<bindings, journal>>

\* A reader that finds unfinished batches - of a dead process, of a request
\* that gave up, or of one at work - gives everything up, its SHARED lease
\* too, and comes back to recover.
Inspect(h) ==
    /\ At(h, "inspect")
    /\ Connects(h)
    /\ IF unclean[handle[h].space] = {}
         THEN Go(h, "use")
         ELSE Step(h, [handle[h] EXCEPT !.pc = "close", !.after = "recover"])
    /\ UNCHANGED <<cache, draining, degraded, unclean, faults>>

\* Recovery under the EXCLUSIVE lease settles every batch, or one of them
\* needs a human: then the Space is degraded and its engine evicted.
Recover(h) ==
    LET s == handle[h].space
        settled == Step(h, [handle[h] EXCEPT
                        !.pc = IF handle[h].mode = "write" THEN "use" ELSE "close",
                        !.after = IF h = Owner \/ handle[h].mode = "write"
                                    THEN "leave" ELSE "reopen"]) IN
    /\ At(h, "recover")
    /\ Connects(h)
    /\ \/ /\ "manual" \notin unclean[s]
          /\ unclean[s] # {} => CanJournal(handle[h].engine)
          /\ unclean' = [unclean EXCEPT ![s] = {}]
          /\ settled
          /\ UNCHANGED degraded
       \/ /\ unclean[s] # {}
          /\ unclean' = [unclean EXCEPT ![s] = @ \cup {"manual"}]
          /\ degraded' = degraded \cup {s}
          /\ Step(h, [handle[h] EXCEPT !.pc = "close", !.after = "leave", !.evict = TRUE])
    /\ UNCHANGED <<cache, draining, faults>>

----------------------------------------------------------------------------
(* Work: one writing transaction of a database at a time *)

BeginWrite(h) ==
    /\ At(h, "use") /\ handle[h].txn = "none" /\ ~Writing(handle[h].space)
    /\ Step(h, [handle[h] EXCEPT !.txn = "open"])
    /\ BeginTransaction(handle[h].engine)
    /\ UNCHANGED <<cache, draining, degraded, unclean, faults>>

\* The engine's binding has a journal on record that is gone: no transaction
\* of this engine can write any more.
WriteRefused(h) ==
    /\ At(h, "use") /\ handle[h].txn = "none" /\ ~CanJournal(handle[h].engine)
    /\ GiveUp(h)
    /\ UNCHANGED <<cache, draining, degraded, unclean, vfsVars>>

\* The rows of a batch are committed; its files are still to be written.
CommitWrite(h) ==
    /\ At(h, "use") /\ handle[h].txn = "open"
    /\ Step(h, [handle[h] EXCEPT !.txn = "done"])
    /\ EndTransaction(handle[h].engine)
    /\ unclean' = [unclean EXCEPT ![handle[h].space] = @ \cup {h}]
    /\ UNCHANGED <<cache, draining, degraded, faults>>

FinishWrite(h) ==
    /\ At(h, "use") /\ handle[h].txn = "done" /\ ~Writing(handle[h].space)
    /\ CanJournal(handle[h].engine)
    /\ unclean' = [unclean EXCEPT ![handle[h].space] = @ \ {h}]
    /\ Step(h, [handle[h] EXCEPT !.txn = "none"])
    /\ UNCHANGED <<cache, draining, degraded, vfsVars>>

\* The request is over, or it is cancelled: an open transaction is rolled back.
Finish(h) ==
    /\ At(h, "use")
    /\ Step(h, [handle[h] EXCEPT !.pc = "close", !.after = "leave", !.txn = "none"])
    /\ IF handle[h].txn = "open" THEN EndTransaction(handle[h].engine)
                                 ELSE UNCHANGED <<bindings, journal>>
    /\ UNCHANGED <<cache, draining, degraded, unclean, faults>>

----------------------------------------------------------------------------
(* Closing: each resource on its own, the leases only after all of them *)

CloseFiles(h) ==
    /\ At(h, "close")
    /\ \/ /\ Step(h, [handle[h] EXCEPT !.files = FALSE, !.pc = "unref"])
          /\ UNCHANGED faults
       \/ /\ handle[h].files /\ Fails
          /\ Step(h, [handle[h] EXCEPT !.broken = TRUE, !.pc = "unref"])
    /\ UNCHANGED <<cache, draining, degraded, unclean, journal, bindings>>

\* What follows the engine: a degraded Space is evicted if all is closed.
AfterEngine(h) == IF handle[h].evict /\ ~handle[h].broken THEN "evict" ELSE "unlease"

\* Faulty variant: the entry of the last reference stays in the cache.
ReleaseEngineOnly(h) ==
    LET s == handle[h].space
        last == cache[s].references <= 1 IN
    /\ At(h, "unref")
    /\ IF handle[h].engine = None
         THEN Go(h, AfterEngine(h)) /\ UNCHANGED cache
         ELSE /\ cache' = [cache EXCEPT ![s].references = @ - 1]
              /\ IF last THEN Go(h, "dispose")
                 ELSE Step(h, [handle[h] EXCEPT !.engine = None, !.pc = AfterEngine(h)])
    /\ UNCHANGED <<draining, degraded, unclean, vfsVars>>

\* The last reference takes the engine out of the cache, then disposes of it.
ReleaseEngine(h) ==
    LET s == handle[h].space IN
    /\ At(h, "unref")
    /\ IF handle[h].engine = None
         THEN Go(h, AfterEngine(h)) /\ UNCHANGED cache
       ELSE IF cache[s].references > 1
         THEN /\ cache' = [cache EXCEPT ![s].references = @ - 1]
              /\ Step(h, [handle[h] EXCEPT !.engine = None, !.pc = AfterEngine(h)])
       ELSE cache' = [cache EXCEPT ![s] = None] /\ Go(h, "dispose")
    /\ UNCHANGED <<draining, degraded, unclean, vfsVars>>

\* The engine closes its connections and its binding is revoked, whether or
\* not the engine reports a failure.  Connections that it failed to close keep
\* the binding, refused to everybody, and the handle waits until they are gone.
DisposeEngine(h) ==
    LET t == handle[h].engine IN
    /\ At(h, "dispose")
    /\ \/ /\ Dispose(t)
          /\ Step(h, [handle[h] EXCEPT !.engine = None, !.pc = AfterEngine(h)])
          /\ UNCHANGED faults
       \/ /\ Fails /\ Dispose(t)
          /\ Step(h, [handle[h] EXCEPT !.engine = None, !.broken = TRUE, !.pc = "unlease"])
       \/ /\ Fails /\ Revoke(t) /\ bindings[t].references > 0
          /\ Step(h, [handle[h] EXCEPT !.broken = TRUE])
    /\ UNCHANGED <<cache, draining, degraded, unclean, journal>>

\* The identity of a degraded Space is drained, and never resumed.
Evict(h) ==
    LET s == handle[h].space IN
    /\ At(h, "evict") /\ cache[s] = None
    /\ draining' = draining \cup {s}
    /\ Step(h, [handle[h] EXCEPT !.evict = FALSE, !.pc = "unlease"])
    /\ UNCHANGED <<cache, degraded, unclean, vfsVars>>

\* Faulty variant: the lease goes although a resource could not be closed.
UnleaseAnyway(h) ==
    /\ At(h, "unlease")
    /\ Step(h, [handle[h] EXCEPT !.lease = "none", !.after = "leave",
                                 !.pc = IF handle[h].broken THEN "stuck" ELSE "leave"])
    /\ UNCHANGED <<cache, draining, degraded, unclean, vfsVars>>

\* The Space lease goes once nothing under it is open; what a failed close
\* left keeps it, and only the task that failed could try again.
Unlease(h) ==
    /\ At(h, "unlease")
    /\ IF handle[h].broken
         THEN Go(h, "stuck")
         ELSE Step(h, [handle[h] EXCEPT !.lease = "none",
                           !.mode = CASE handle[h].after = "recover" -> "recover"
                                      [] handle[h].after = "reopen" -> "read"
                                      [] OTHER -> @,
                           !.pc = IF handle[h].after = "leave" THEN "leave" ELSE "lease",
                           !.after = "leave"])
    /\ UNCHANGED <<cache, draining, degraded, unclean, vfsVars>>

HandleStep(h) ==
    /\ \/ TakeLease(h) \/ LeaseTimeout(h) \/ Verify(h) \/ BindRoles(h)
       \/ AcquireEngine(h) \/ OpenFiles(h) \/ Inspect(h) \/ Recover(h)
       \/ BeginWrite(h) \/ WriteRefused(h) \/ CommitWrite(h) \/ FinishWrite(h) \/ Finish(h)
       \/ CloseFiles(h) \/ ReleaseEngine(h) \/ DisposeEngine(h) \/ Evict(h) \/ Unlease(h)
    /\ UNCHANGED diskVars

----------------------------------------------------------------------------
(* Safety *)

Held(h) == {handle[h].token, handle[h].engine} \ {None}

\* Nothing leaks and nothing is shared by mistake: the bindings that live are
\* those open handles hold; an engine refuses connections only while the handle
\* that failed to dispose of it waits; a cached engine accepts them, and counts
\* exactly its handles.
ResourcesFollowHandles ==
    /\ {t \in Tokens : Lives(t)} = UNION {Held(h) : h \in Handles}
    /\ \A h \in Handles : handle[h].engine # None =>
          /\ bindings[handle[h].engine].file = handle[h].space
          /\ \/ CanConnect(handle[h].engine)
             \/ handle[h].broken /\ At(h, "dispose")
    /\ \A s \in Spaces : cache[s] # None =>
          /\ CanConnect(cache[s].token)
          /\ cache[s].references =
                Cardinality({h \in On(s) : handle[h].engine = cache[s].token})

\* An EXCLUSIVE lease means what recovery, retention and migration rely on:
\* no other handle has anything of the Space open, and the journal on record
\* with the holder's engine is the one on disk, so that it can write.
ExclusiveIsAlone ==
    \A h \in Handles : handle[h].lease = "exclusive" =>
        /\ Bound(handle[h].space) \subseteq Held(h)
        /\ \A g \in On(handle[h].space) \ {h} : ~handle[g].files
        /\ handle[h].pc \in {"recover", "use"} => CanJournal(handle[h].engine)

\* A Space that needs a human is shut: only the handle that found out still
\* has it open, and nobody waits for its engine to come back.
DegradedIsShut ==
    \A s \in degraded : \A h \in On(s) :
        /\ Held(h) # {} => handle[h].evict \/ handle[h].broken
        /\ handle[h].pc \notin {"engine", "use"}

\* What handles hold is what lives, an EXCLUSIVE lease is alone with it, and
\* nothing of a degraded Space lives.
HandlesAreSound == ResourcesFollowHandles /\ ExclusiveIsAlone /\ DegradedIsShut
=============================================================================
