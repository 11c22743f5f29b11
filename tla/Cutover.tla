------------------------------ MODULE Cutover ------------------------------
(***************************************************************************)
(* Backup, restore and cutover of the data root (recovery/), with the      *)
(* server's life cycle (runtime/bootstrap.py, main.py).  The server owns   *)
(* the process-owner lease while it lives and its requests the global      *)
(* lease SHARED; its scheduler takes snapshots and expires old ones.  An   *)
(* operator's tool takes snapshots, restores one to a staging root and     *)
(* puts that in place of the active root by renames, under the owner lease *)
(* and the global lease EXCLUSIVE.  Steps fail, processes die.             *)
(*                                                                         *)
(* Leases are what module SpaceLease promises: here who holds them.        *)
(***************************************************************************)
EXTENDS Naturals, FiniteSets

CONSTANTS MaxWrites,    \* bound: mutations by requests
          MaxSeconds,   \* bound: the clock, in seconds
          Restores,     \* identifiers of restores (staging roots, proofs)
          Cuts,         \* identifiers of cutovers (rollback, rejected roots)
          Keep,         \* retention_count
          MaxMishaps,   \* bound: calls of a cutover that raise, processes that
                        \* die and staging roots an operator copies back
          None

ASSUME BoundAssumption ==
    /\ {MaxWrites, MaxMishaps} \subseteq Nat
    /\ {MaxSeconds, Keep} \subseteq Nat \ {0}

\* The content of a data root: two of its databases, each as the number of the
\* last mutation it has.  A mutation writes one after the other, and what it
\* has written to the first one is what recovery completes in the second.
Data == [meta : 0..MaxWrites, space : 0..MaxWrites]
Whole(d) == d.meta = d.space

Seconds == 1..MaxSeconds
Actors == {"request", "scheduler", "tool"}
Shared == "shared"
Exclusive == "exclusive"

\* None stands for what is absent, and is none of the things that may be there.
ASSUME NoneAssumption ==
    /\ None \notin Data \cup Seconds \cup Restores \cup Cuts
    /\ None \notin {Shared, Exclusive, "server", "tool"}

VARIABLES
    active,      \* the active root, None while there is none
    rollback,    \* cutover -> its rollback root
    rejected,    \* cutover -> its rejected root
    staging,     \* restore -> its staging root
    proof,       \* restore -> the content its staging proof vouches for
    source,      \* restore -> the snapshot it was made of
    snaps,       \* second -> the published snapshot named after it
    now,
    server,      \* off, starting, opened, ready, draining
    owner,       \* who holds the process-owner lease
    lease,       \* actor -> the mode in which it holds the global lease
    pc,          \* actor -> where it stands
    temp,        \* actor -> the copy its snapshot has so far
    expired,     \* what the scheduler's retention is about to remove
    job,         \* the tool's restore or cutover: [restore, cut]
    vouched,     \* active_tree_sha256 of the rollback proof
    failures, deaths, copies,
    current,     \* what users last saw in the active root (history)
    torn,        \* a request died between its two writes (history)
    collided     \* two snapshots were named after one second (history)

roots == <<active, rollback, rejected, staging, proof, source>>
counts == <<failures, deaths, copies>>
history == <<current, torn, collided>>
vars == <<roots, snaps, now, server, owner, lease, pc, temp, expired, job, vouched,
          counts, history>>

NoJob == [restore |-> None, cut |-> None]

Init ==
    /\ active = [meta |-> 0, space |-> 0] /\ current = active
    /\ rollback = [c \in Cuts |-> None] /\ rejected = [c \in Cuts |-> None]
    /\ staging = [r \in Restores |-> None] /\ proof = [r \in Restores |-> None]
    /\ source = [r \in Restores |-> None]
    /\ snaps = [s \in Seconds |-> None] /\ now = 1
    /\ server = "off" /\ owner = None
    /\ lease = [a \in Actors |-> None] /\ pc = [a \in Actors |-> "idle"]
    /\ temp = [a \in Actors |-> None] /\ expired = {}
    /\ job = NoJob /\ vouched = None
    /\ failures = 0 /\ deaths = 0 /\ copies = 0
    /\ torn = FALSE /\ collided = FALSE

-----------------------------------------------------------------------------
(* Leases and control. *)

\* Faulty variant: only requests are waited for.
FreeOfRequests(a, mode) == a = "request" \/ lease["request"] = None

\* SpaceLease!Free for the global scope.
Free(a, mode) ==
    \A b \in Actors \ {a} : lease[b] = None \/ (mode = Shared /\ lease[b] = Shared)

Take(a, mode) == Free(a, mode) /\ lease' = [lease EXCEPT ![a] = mode]
Drop(a) == lease' = [lease EXCEPT ![a] = None]
Go(a, label) == pc' = [pc EXCEPT ![a] = label]

Tick == /\ now < MaxSeconds
        /\ now' = now + 1
        /\ UNCHANGED <<roots, snaps, server, owner, lease, pc, temp, expired, job,
                       vouched, counts, history>>

Mishap == failures + deaths + copies < MaxMishaps

\* A call of the cutover raises.
Raise == /\ Mishap
         /\ failures' = failures + 1
         /\ UNCHANGED <<deaths, copies>>

-----------------------------------------------------------------------------
(* The server. *)

\* _OwnerTaskExecutor._run takes the owner lease first.
ServerStart ==
    /\ server = "off" /\ pc["scheduler"] = "idle" /\ owner = None
    /\ server' = "starting" /\ owner' = "server"
    /\ UNCHANGED <<roots, snaps, now, lease, pc, temp, expired, job, vouched, counts,
                   history>>

\* _startup_owned, under the global lease EXCLUSIVE: the fleet is preflighted
\* and what a dead request left undone is recovered.  Without an active root
\* startup fails.  What it finds there is what users see from now on.
ServerOpen ==
    /\ server = "starting"
    /\ \A a \in Actors : lease[a] = None
    /\ IF active = None
       THEN /\ server' = "off" /\ owner' = None
            /\ UNCHANGED <<active, current, pc>>
       ELSE /\ active' = [meta |-> active.meta, space |-> active.meta]
            /\ current' = active'
            /\ server' = "opened"
            /\ Go("scheduler", "lock")
            /\ UNCHANGED owner
    /\ UNCHANGED <<rollback, rejected, staging, proof, source, snaps, now, lease, temp,
                   expired, job, vouched, counts, torn, collided>>

\* A request is admitted while the gate is READY; its handle counts until the
\* lease is released.
RequestBegin ==
    /\ server = "ready" /\ pc["request"] = "idle" /\ active.meta < MaxWrites
    /\ Take("request", Shared)
    /\ Go("request", "first")
    /\ UNCHANGED <<roots, snaps, now, server, owner, temp, expired, job, vouched, counts,
                   history>>

RequestWrite ==
    /\ pc["request"] \in {"first", "second"}
    /\ active' = IF pc["request"] = "first" THEN [active EXCEPT !.meta = @ + 1]
                                            ELSE [active EXCEPT !.space = active.meta]
    /\ current' = active'
    /\ Go("request", IF pc["request"] = "first" THEN "second" ELSE "end")
    /\ UNCHANGED <<rollback, rejected, staging, proof, source, snaps, now, server, owner,
                   lease, temp, expired, job, vouched, counts, torn, collided>>

RequestEnd ==
    /\ pc["request"] = "end"
    /\ Drop("request")
    /\ Go("request", "idle")
    /\ UNCHANGED <<roots, snaps, now, server, owner, temp, expired, job, vouched, counts,
                   history>>

\* shutdown: no new handle is admitted.
ServerDrain ==
    /\ server = "ready"
    /\ server' = "draining"
    /\ UNCHANGED <<roots, snaps, now, owner, lease, pc, temp, expired, job, vouched,
                   counts, history>>

\* Every admitted handle is complete.
Drained == pc["request"] = "idle"

\* The owner lease is released before main.py closes the scheduler, which may
\* still be at work.
ServerClose ==
    /\ server = "draining" /\ Drained
    /\ server' = "off" /\ owner' = None
    /\ UNCHANGED <<roots, snaps, now, lease, pc, temp, expired, job, vouched, counts,
                   history>>

\* scheduler.close: the task is cancelled wherever it is.
SchedulerClose ==
    /\ server = "off" /\ pc["scheduler"] # "idle"
    /\ Go("scheduler", "idle") /\ Drop("scheduler")
    /\ temp' = [temp EXCEPT !["scheduler"] = None] /\ expired' = {}
    /\ UNCHANGED <<roots, snaps, now, server, owner, job, vouched, counts, history>>

-----------------------------------------------------------------------------
(* Snapshots, by the scheduler or by the tool. *)

SnapActors == {"scheduler", "tool"}

\* The tool may start one whenever it is idle.
ToolSnapshot ==
    /\ pc["tool"] = "idle"
    /\ Go("tool", "lock")
    /\ UNCHANGED <<roots, snaps, now, server, owner, lease, temp, expired, job, vouched,
                   counts, history>>

SnapLock(a) ==
    /\ pc[a] = "lock"
    /\ Take(a, Exclusive)
    /\ Go(a, "meta")
    /\ UNCHANGED <<roots, snaps, now, server, owner, temp, expired, job, vouched, counts,
                   history>>

\* The databases are copied one by one to a temporary directory.
SnapCopy(a) ==
    /\ pc[a] \in {"meta", "space"} /\ active # None
    /\ temp' = [temp EXCEPT ![a] =
           IF pc[a] = "meta" THEN [meta |-> active.meta, space |-> 0]
                             ELSE [@ EXCEPT !.space = active.space]]
    /\ Go(a, IF pc[a] = "meta" THEN "space" ELSE "publish")
    /\ UNCHANGED <<roots, snaps, now, server, owner, lease, expired, job, vouched, counts,
                   history>>

\* The end of a snapshot call.  The first one of the scheduler decides whether
\* the server becomes ready; later ones are followed by retention, or fail and
\* leave the scheduler to its next interval.
SnapEnd(a, ok) ==
    /\ temp' = [temp EXCEPT ![a] = None]
    /\ Drop(a)
    /\ LET first == a = "scheduler" /\ server = "opened"
       IN  /\ server' = IF ~first THEN server ELSE IF ok THEN "ready" ELSE "draining"
           /\ Go(a, IF a = "tool" \/ (first /\ ~ok) THEN "idle"
                    ELSE IF first \/ ~ok THEN "sleep" ELSE "retain")

\* Published under the name of the current second.  When that name is taken
\* the call fails, and its cleanup removes the directory of that name.
SnapPublish(a) ==
    /\ pc[a] = "publish"
    /\ IF snaps[now] = None
       THEN /\ snaps' = [snaps EXCEPT ![now] = temp[a]]
            /\ SnapEnd(a, Whole(temp[a]))
            /\ UNCHANGED collided
       ELSE /\ snaps' = [snaps EXCEPT ![now] = None]
            /\ SnapEnd(a, FALSE)
            /\ collided' = TRUE
    /\ UNCHANGED <<roots, now, owner, expired, job, vouched, counts, current, torn>>

\* Any step of it raises, as it does without an active root: the temporary
\* directory is removed.
SnapFail(a) ==
    /\ pc[a] \in {"meta", "space", "publish"}
    /\ SnapEnd(a, FALSE)
    /\ UNCHANGED <<roots, snaps, now, owner, expired, job, vouched, counts, history>>

\* verify: the authorities accept a snapshot that is no torn copy.
Verified(s) == snaps[s] # None /\ Whole(snaps[s])

\* Faulty variant: the newest one is not counted.
ExpiredOneMore(keep) ==
    {s \in Seconds : Verified(s) /\ Cardinality({n \in s + 1..MaxSeconds : Verified(n)}) >= keep - 1}

\* _retain lists the verified snapshots; all but the newest are expired.
Expired(keep) ==
    {s \in Seconds : Verified(s) /\ Cardinality({n \in s + 1..MaxSeconds : Verified(n)}) >= keep}

RetainScan ==
    /\ pc["scheduler"] = "retain"
    /\ expired' = Expired(Keep)
    /\ Go("scheduler", "remove")
    /\ UNCHANGED <<roots, snaps, now, server, owner, lease, temp, job, vouched, counts,
                   history>>

\* They are removed one after the other, without a lease.
RetainRemove ==
    /\ pc["scheduler"] = "remove"
    /\ IF expired = {} THEN Go("scheduler", "sleep") /\ UNCHANGED <<snaps, expired>>
       ELSE \E s \in expired : /\ \A o \in expired : s <= o
                               /\ snaps' = [snaps EXCEPT ![s] = None]
                               /\ expired' = expired \ {s}
                               /\ UNCHANGED pc
    /\ UNCHANGED <<roots, now, server, owner, lease, temp, job, vouched, counts, history>>

\* The interval of _loop is over.
SchedulerWake ==
    /\ pc["scheduler"] = "sleep" /\ now < MaxSeconds
    /\ Go("scheduler", "lock")
    /\ UNCHANGED <<roots, snaps, now, server, owner, lease, temp, expired, job, vouched,
                   counts, history>>

-----------------------------------------------------------------------------
(* Restore to staging, without a lease. *)

\* The snapshot is verified, a staging root is made.
RestoreBegin(r, s) ==
    /\ pc["tool"] = "idle" /\ source[r] = None
    /\ Verified(s)
    /\ source' = [source EXCEPT ![r] = s]
    /\ temp' = [temp EXCEPT !["tool"] = snaps[s]]
    /\ job' = [NoJob EXCEPT !.restore = r]
    /\ Go("tool", "copy")
    /\ UNCHANGED <<active, rollback, rejected, staging, proof, snaps, now, server, owner,
                   lease, expired, vouched, counts, history>>

\* It is copied and the copy verified; then the staging proof is published.
\* A snapshot that has changed or vanished meanwhile is no source.
RestoreCopy ==
    LET r == job.restore IN
    /\ pc["tool"] = "copy" /\ snaps[source[r]] = temp["tool"]
    /\ staging' = [staging EXCEPT ![r] = temp["tool"]]
    /\ proof' = [proof EXCEPT ![r] = temp["tool"]]
    /\ temp' = [temp EXCEPT !["tool"] = None] /\ job' = NoJob
    /\ Go("tool", "idle")
    /\ UNCHANGED <<active, rollback, rejected, source, snaps, now, server, owner, lease,
                   expired, vouched, counts, history>>

RestoreFail ==
    /\ pc["tool"] = "copy"
    /\ temp' = [temp EXCEPT !["tool"] = None] /\ job' = NoJob
    /\ Go("tool", "idle")
    /\ UNCHANGED <<roots, snaps, now, server, owner, lease, expired, vouched, counts,
                   history>>

-----------------------------------------------------------------------------
(* Cutover. *)

\* Faulty variant: the rollback root is named after the restore.
CutoverBeginByRestore(r, c) ==
    /\ pc["tool"] = "idle" /\ staging[r] # None /\ active # None
    /\ job' = [restore |-> r, cut |-> r]
    /\ Go("tool", "owner")
    /\ UNCHANGED <<roots, snaps, now, server, owner, lease, temp, expired, vouched, counts,
                   history>>

\* _check_cutover_input: the receipt's staging root and an active root exist.
CutoverBegin(r, c) ==
    /\ pc["tool"] = "idle" /\ staging[r] # None /\ active # None
    /\ rollback[c] = None /\ rejected[c] = None
    /\ job' = [restore |-> r, cut |-> c]
    /\ Go("tool", "owner")
    /\ UNCHANGED <<roots, snaps, now, server, owner, lease, temp, expired, vouched, counts,
                   history>>

TakeOwner ==
    /\ pc["tool"] = "owner" /\ owner = None
    /\ owner' = "tool"
    /\ Go("tool", "global")
    /\ UNCHANGED <<roots, snaps, now, server, lease, temp, expired, job, vouched, counts,
                   history>>

TakeGlobal ==
    /\ pc["tool"] = "global"
    /\ Take("tool", Exclusive)
    /\ Go("tool", "verify")
    /\ UNCHANGED <<roots, snaps, now, server, owner, temp, expired, job, vouched, counts,
                   history>>

\* The proof, the source snapshot and the staging root agree.
Admitted(r) == /\ proof[r] # None
               /\ snaps[source[r]] = proof[r]
               /\ staging[r] = proof[r]

\* _verify_staged_for_cutover, then _create_rollback_proof: the active root is
\* copied and hashed.
VerifyStaged ==
    /\ pc["tool"] = "verify"
    /\ Admitted(job.restore) /\ active # None /\ Whole(active)
    /\ vouched' = active
    /\ Go("tool", "recheck")
    /\ UNCHANGED <<roots, snaps, now, server, owner, lease, temp, expired, job, counts,
                   history>>

\* _recheck_staging_proof_before_rename.
Recheck ==
    /\ pc["tool"] = "recheck"
    /\ proof[job.restore] # None
    /\ Go("tool", "move")
    /\ UNCHANGED <<roots, snaps, now, server, owner, lease, temp, expired, job, vouched,
                   counts, history>>

\* active -> rollback.
MoveActive ==
    /\ pc["tool"] = "move" /\ active # None
    /\ rollback' = [rollback EXCEPT ![job.cut] = active]
    /\ active' = None
    /\ Go("tool", "put")
    /\ UNCHANGED <<rejected, staging, proof, source, snaps, now, server, owner, lease, temp,
                   expired, job, vouched, counts, history>>

\* staging -> active, never over an existing root.
PutStaged ==
    /\ pc["tool"] = "put" /\ active = None /\ staging[job.restore] # None
    /\ active' = staging[job.restore]
    /\ staging' = [staging EXCEPT ![job.restore] = None]
    /\ Go("tool", "check")
    /\ UNCHANGED <<rollback, rejected, proof, source, snaps, now, server, owner, lease,
                   temp, expired, job, vouched, counts, history>>

\* _verify_published_root.
CheckPublished ==
    /\ pc["tool"] = "check" /\ active = proof[job.restore]
    /\ Go("tool", "consume")
    /\ UNCHANGED <<roots, snaps, now, server, owner, lease, temp, expired, job, vouched,
                   counts, history>>

\* The proof is removed and the cutover has succeeded.
Consume ==
    /\ pc["tool"] = "consume"
    /\ proof' = [proof EXCEPT ![job.restore] = None]
    /\ current' = active
    /\ Go("tool", "done")
    /\ UNCHANGED <<active, rollback, rejected, staging, source, snaps, now, server, owner,
                   lease, temp, expired, job, vouched, counts, torn, collided>>

\* What an exception at a label leads to: nothing to reverse before the first
\* rename; then the old root has to come back, and after the second one the
\* new root to go first.
Reversal(label) ==
    CASE label \in {"owner", "global", "verify", "recheck", "move"} -> "done"
      [] label = "put" -> "old"
      [] label \in {"check", "consume"} -> "new"

\* A step of the cutover raises, or finds what it must not find.
CutoverFail ==
    /\ pc["tool"] \in {"owner", "global", "verify", "recheck", "move", "put", "check",
                       "consume"}
    /\ \/ Raise
       \/ /\ \/ pc["tool"] \in {"owner", "global"}
             \/ pc["tool"] = "verify" /\ ~(Admitted(job.restore) /\ Whole(active))
          /\ UNCHANGED counts
    /\ Go("tool", Reversal(pc["tool"]))
    /\ UNCHANGED <<roots, snaps, now, server, owner, lease, temp, expired, job, vouched,
                   history>>

\* The proof is unlinked, but that is not made durable.
ConsumeFail ==
    /\ pc["tool"] = "consume"
    /\ Raise
    /\ proof' = [proof EXCEPT ![job.restore] = None]
    /\ Go("tool", Reversal("consume"))
    /\ UNCHANGED <<active, rollback, rejected, staging, source, snaps, now, server, owner,
                   lease, temp, expired, job, vouched, history>>

\* _reverse_publication: active -> rejected,
ReverseNew ==
    /\ pc["tool"] = "new" /\ active # None
    /\ rejected' = [rejected EXCEPT ![job.cut] = active]
    /\ active' = None
    /\ Go("tool", "old")
    /\ UNCHANGED <<rollback, staging, proof, source, snaps, now, server, owner, lease, temp,
                   expired, job, vouched, counts, history>>

\* then rollback -> active.
ReverseOld ==
    /\ pc["tool"] = "old" /\ active = None
    /\ active' = rollback[job.cut]
    /\ rollback' = [rollback EXCEPT ![job.cut] = None]
    /\ Go("tool", "done")
    /\ UNCHANGED <<rejected, staging, proof, source, snaps, now, server, owner, lease, temp,
                   expired, job, vouched, counts, history>>

\* A rename of the reversal fails: it is noted, and the reversal ends there.
ReverseFail ==
    /\ pc["tool"] \in {"new", "old"}
    /\ Raise
    /\ Go("tool", "done")
    /\ UNCHANGED <<roots, snaps, now, server, owner, lease, temp, expired, job, vouched,
                   history>>

\* Faulty variant: the rollback root is tidied up.
CutoverEndTidily ==
    /\ pc["tool"] = "done"
    /\ Drop("tool")
    /\ owner' = IF owner = "tool" THEN None ELSE owner
    /\ rollback' = [rollback EXCEPT ![job.cut] = None]
    /\ job' = NoJob /\ vouched' = None
    /\ Go("tool", "idle")
    /\ UNCHANGED <<active, rejected, staging, proof, source, snaps, now, server, temp,
                   expired, counts, history>>

\* The fences are released in reverse order.
CutoverEnd ==
    /\ pc["tool"] = "done"
    /\ Drop("tool")
    /\ owner' = IF owner = "tool" THEN None ELSE owner
    /\ job' = NoJob /\ vouched' = None
    /\ Go("tool", "idle")
    /\ UNCHANGED <<roots, snaps, now, server, temp, expired, counts, history>>

-----------------------------------------------------------------------------
(* Environment. *)

\* The tool's process dies: the operating system frees its locks.
ToolDies ==
    /\ pc["tool"] # "idle" /\ Mishap
    /\ deaths' = deaths + 1
    /\ Drop("tool")
    /\ owner' = IF owner = "tool" THEN None ELSE owner
    /\ temp' = [temp EXCEPT !["tool"] = None] /\ job' = NoJob /\ vouched' = None
    /\ Go("tool", "idle")
    /\ UNCHANGED <<roots, snaps, now, server, expired, failures, copies, history>>

\* The server's process dies, with its requests and its scheduler.
ServerDies ==
    /\ server # "off" /\ Mishap
    /\ deaths' = deaths + 1
    /\ server' = "off" /\ owner' = None
    /\ torn' = (torn \/ pc["request"] = "second")
    /\ lease' = [lease EXCEPT !["request"] = None, !["scheduler"] = None]
    /\ temp' = [temp EXCEPT !["scheduler"] = None] /\ expired' = {}
    /\ pc' = [pc EXCEPT !["request"] = "idle", !["scheduler"] = "idle"]
    /\ UNCHANGED <<roots, snaps, now, job, vouched, failures, copies, current,
                   collided>>

\* An operator puts a copy of what is active back at the path of a used staging
\* root.
CopyBack(r) ==
    /\ Mishap
    /\ copies' = copies + 1
    /\ pc["tool"] = "idle" /\ source[r] # None /\ staging[r] = None
    /\ active # None
    /\ staging' = [staging EXCEPT ![r] = active]
    /\ UNCHANGED <<active, rollback, rejected, proof, source, snaps, now, server, owner,
                   lease, pc, temp, expired, job, vouched, failures, deaths, history>>

-----------------------------------------------------------------------------
ServerStep == ServerStart \/ ServerOpen \/ ServerDrain \/ ServerClose \/ SchedulerClose
RequestStep == RequestBegin \/ RequestWrite \/ RequestEnd
SnapStep(a) == SnapLock(a) \/ SnapCopy(a) \/ SnapPublish(a) \/ SnapFail(a)
RetainStep == RetainScan \/ RetainRemove \/ SchedulerWake
RestoreStep == \/ \E r \in Restores, s \in Seconds : RestoreBegin(r, s)
               \/ RestoreCopy \/ RestoreFail
CutoverStep == \/ TakeOwner \/ TakeGlobal \/ VerifyStaged \/ Recheck \/ MoveActive
               \/ PutStaged \/ CheckPublished \/ Consume \/ CutoverFail \/ ConsumeFail
               \/ ReverseNew \/ ReverseOld \/ ReverseFail \/ CutoverEnd

Next == \/ Tick \/ ServerStep \/ RequestStep \/ ToolSnapshot \/ RetainStep \/ RestoreStep
        \/ \E a \in SnapActors : SnapStep(a)
        \/ \E r \in Restores, c \in Cuts : CutoverBegin(r, c)
        \/ CutoverStep
        \/ ToolDies \/ ServerDies
        \/ \E r \in Restores : CopyBack(r)

Spec == Init /\ [][Next]_vars

-----------------------------------------------------------------------------
(* Properties. *)

Roots == Data \cup {None}

\* Every variable has its type.
TypeOK ==
    /\ active \in Roots /\ current \in Data /\ vouched \in Roots
    /\ rollback \in [Cuts -> Roots] /\ rejected \in [Cuts -> Roots]
    /\ staging \in [Restores -> Roots] /\ proof \in [Restores -> Roots]
    /\ source \in [Restores -> Seconds \cup {None}]
    /\ snaps \in [Seconds -> Roots] /\ now \in Seconds /\ expired \subseteq Seconds
    /\ server \in {"off", "starting", "opened", "ready", "draining"}
    /\ owner \in {"server", "tool", None}
    /\ lease \in [Actors -> {Shared, Exclusive, None}]
    /\ temp \in [Actors -> Roots] /\ DOMAIN pc = Actors
    /\ job.restore \in Restores \cup {None} /\ job.cut \in Cuts \cup {None}
    /\ {failures, deaths, copies} \subseteq Nat /\ failures + deaths + copies <= MaxMishaps
    /\ torn \in BOOLEAN /\ collided \in BOOLEAN

\* Whatever fails or dies between two renames, what users last saw is still
\* there: as the active root, or whole as a rollback root.
CurrentDataExists == active = current \/ \E c \in Cuts : rollback[c] = current

\* While nobody's process has died, one failure of a cutover leaves the active
\* root users know in place when the call returns; it takes a second failure,
\* in the reversal, to leave none.
OneFailureIsHarmless ==
    deaths = 0 /\ failures <= 1 /\ pc["tool"] = "idle" => active = current

\* Both: the data users know are never lost, nor out of reach for one failure.
DataAreNeverLost == CurrentDataExists /\ OneFailureIsHarmless

\* No root is moved while a server is up, a request holds a handle or a
\* snapshot is being taken, and what is moved away is what the rollback
\* snapshot has vouched for.
MovesAlone ==
    pc["tool"] \in {"move", "put", "check", "consume", "new", "old"}
        => /\ server = "off" /\ pc["request"] = "idle"
           /\ pc["scheduler"] \notin {"meta", "space", "publish"}
           /\ vouched = IF pc["tool"] = "move" THEN active ELSE rollback[job.cut]

\* A published snapshot has all of a mutation or nothing of it, although its
\* databases are copied one by one; except that a server that died inside a
\* request has left half of one in the active root.
SnapshotsAreWhole == torn \/ \A s \in Seconds : snaps[s] # None => Whole(snaps[s])

\* Retention never removes one of the newest Keep verified snapshots, whatever
\* is published or restored while it works; as long as no two snapshots were
\* named after the same second.
RetentionKeepsNewest ==
    [][\A s \in Seconds : Verified(s) /\ snaps'[s] = None /\ ~collided'
           => Cardinality({n \in s + 1..MaxSeconds : Verified(n)}) >= Keep]_vars

\* The snapshots an operator can rely on: whole ones, and the newest of them.
SnapshotsAreReliable == []SnapshotsAreWhole /\ RetentionKeepsNewest
=============================================================================
