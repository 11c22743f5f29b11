# PomodoroXII: specifications and proofs

PomodoroXII is a pomodoro and notes application for one person with several
devices: a FastAPI backend (`backend/app`), a Next.js frontend that works
offline (`frontend/src`) and a small C shim below SQLite (`backend/native`). All
data live in *Spaces*. A Space has its own SQLite database (business rows, the
mutation journal, the sync ledger), a directory of Markdown notes, and an index
and full-text tables derived from both.

This directory holds TLA+ models of the parts of that system whose correctness
depends on interleavings, crashes, lost requests and retries, the
configurations that check them with TLC, and proofs that TLAPS checks: about the
mutation core and the files it leaves on disk, the leases, the sync cycle, the push of
local edits, the offline focus session, the one active focus session and its effort, direct
commands, the reviews of sessions, the Task Space, the tree of folders and notes, and the cutover. `PROJECT.json` ties every definition to the lines it
models and every property to a run.

## Inventory

| Component | State it keeps | Operations | Interacts with | What is hard | What makes it correct |
|---|---|---|---|---|---|
| **Mutation core** `mutation/` | journal (batch, operations, steps), staged images, rows, tombstones, invisible ledger rows | execute a batch, recover a Space | runtime leases, file-system engine, ledger | a crash between any two of SQLite commit, file change and journal mark; two requests in one journal; recovery of a recovery | all or nothing for readers of the ledger; rows, stores and ledger agree; recovery ends |
| **Derived stores** `knowledge/`, `file_system/` | Markdown files, index, FTS | apply or classify one projection step | mutation core | several steps about the same file; triggers that write a second store | after recovery the stores show the rows |
| **Sync server** `sync/`, `services/sync_outbox.py` | ledger, cursor, retention floor, device registry, snapshots | pull, ack, recover, prune, expire | mutation core (publishes), devices | stale cursors, repeated and late requests, retention against slow devices | an accepted cursor hides nothing; pruning is safe |
| **Device sync cycle** `frontend/lib/sync` | replica, cursor, pending ack, recovery state, flag | pull loop, full recovery, self-healing | sync server | requests that time out and still arrive; resumption after a reload | the replica never goes back and catches up |
| **Push of local edits** `push-batch.ts`, `outbox.ts`, `admission.ts`, `authority-identity.ts`, `terminal-application.ts`, `merge.ts` | rows with their dirty flag, outbox, admission marker, active receipt, evidence, conflicts on display | edit, admit, query, push, apply a result, resolve a conflict | sync server, sync cycle | unknown outcomes, edits that merge into rows already sent, writes of other clients | each edit takes effect once; none is dropped; what is clean is the server's |
| **Provisional focus session** `focus-session-repository.ts`, `provisional-start-recovery.ts`, `provisional-operation-authority.ts`, `admission.ts`, `space-authority-fence.ts` | operation in the meta database; session, plan, outbox, admission marker in the Space's | start, pause, resume, end, edit, activate, recover, admit, import | push, active focus session | two databases without a common transaction, several tabs, pages that die between two transactions | one session runs on a device; no part of it is missing from the outbox; what is admitted stays as it is |
| **Direct commands and reviews** `direct-command-intents.ts`, `review-intent-executor.ts`, `session-review-draft-registry.ts`, `task-space-repository.ts`, `focus-session-repository.ts` | intents with the exact request and its outcome, drafts of reviews, cached rows | prepare, execute, resume in a round, edit a draft, submit, import a review | the server's command journal, sync cycle, pages | several pages work on one intent with nothing to exclude them; requests that arrive late; a draft edited while its answer is under way | one request per operation id; outcomes are true; no draft is lost; every intent is settled |
| **Space leases** `runtime/leases.py` | fair lock, portal files, fences, held order | acquire, release, time out | every other backend part | cancellation while waiting, several processes, order of release | exclusion, no lost wake-up, fences that grow |
| **Space runtime** `runtime/space.py`, `bootstrap.py`, `scope.py`, `space_manager.py`, `db/migrations.py` | admission gate, owner task and its queue, handles, cached engines, degraded Spaces, registrations and directories | start, migrate, recover, admit, open, close, degrade, provision, drain, shut down | leases, mutation core, SQLite authority | engines shared and disposed of by concurrent handles; failures between renames; cleanups that fail; a shutdown beside commands | READY means whole; no data lost by a migration; EXCLUSIVE is alone; everybody is answered |
| **SQLite authority and native VFS** `runtime/sqlite_vfs.py`, `native/pxii_vfs` | bindings, their connections and the companions on record, replacement and isolated files | bind, connect, revoke, replace, create isolated | Space runtime, migrations | a rename that failed after it happened; a record of companions that is outdated | a database has one whole file; a revoked binding is freed once |
| **Backup, restore, cutover** `recovery/`, `ops/cli.py` | snapshots, staging roots and their proofs, active, rollback and rejected root | snapshot, retain, restore to staging, cut over, reverse | leases, runtime, focus recovery authority | a failure or a crash between renames; a snapshot of several databases | what users last saw is never lost; snapshots are whole |
| **Active focus session** `focus_session/` | locator and operations in the meta database; sessions, child receipts in the Spaces | start, touch, end, activate, resolve a conflict, reconcile | mutation core of several Spaces, backup | two databases without a common transaction; a locator read when a mutation is compiled and stale when it commits | one active session, the one the locator names; phases rest on receipts |
| **Effort projection** `focus_session/effort_projection.py` | total of focused time per work item | recompute the items a mutation affects, rebuild | focus policy | a session that moves between items or stops counting | the total is that of the sessions that count |
| **Task Space** `task_space/`, `commands/entity.py` | projects, work items in trees of three levels, labels, notes, dependencies | compile an online command or a pushed row into the rows it writes | mutation core, push, focus session | rows that are read when a command is compiled and written by others before it commits | trees stay shallow, dependencies acyclic, keys unique; no edit undoes another |
| **Durable files** `runtime/contained_io.py`, `mutation/staging.py`, `runtime/durability.py` | stages under `notes/.mutations`, Markdown files, fence files, each with what of it a power loss may take | create, write, flush, rename, remove, collect orphans | mutation core, leases | a power loss between a rename and the flush of its directory; a removal cut short | a settled promise has its files, and what cannot be verified is no stage |
| **Knowledge** `knowledge/`, `commands/entity.py`, `models/folder.py` | folders in a tree, notes, quick notes, tombstones; index and Markdown derived from them | create, edit, move, trash, restore, purge, convert | mutation core, devices that push rows | no foreign keys: the tree is in the compilers; rows read before the lease; cascades | no cycles, nothing lost in the trash, stores that show the rows |
| Authentication, routes, MCP, registry, views | – | – | – | mostly validation and I/O | – |

How they interact: a REST or sync request opens its Space under a lease
(runtime), recovers what an earlier crash left (`MutationRecovery`), compiles
its commands against the rows, and carries the batch through the journal. When
the batch is FINALIZED its ledger rows become visible; devices read them by
cursor, acknowledge, and retention removes what all of them have. A device whose
cursor is refused downloads a snapshot and starts again from its waterline.

## Modules

| Module | Models |
|---|---|
| `ProjectionStore` | files, index and FTS of a Space; one projection step; how recovery classifies a step. No variables. |
| `AtomicBatch` | what the mutation core promises to the readers of the ledger (abstract specification) |
| `SpaceMutation` | the live path and the recovery of the mutation core over `ProjectionStore` |
| `MCSpaceMutation` | its instances for TLC |
| `SyncServer` | ledger, registry, snapshots and retention; every operation of sync v2 as an operator or action |
| `SyncDevice` | the devices' cycles, the network and the clock, composed with `SyncServer` |
| `MCSyncDevice` | its instances for TLC |
| `BatchServer` | the server's side of push: verdicts, receipts, the query of operations |
| `PushOutbox` | a device that edits, pushes and resolves conflicts, composed with `BatchServer` |
| `MCPushOutbox` | its instance for TLC |
| `ProvisionalSession` | a focus session that a device runs offline, in all its tabs, and its import by the sync cycle |
| `MCProvisionalSession` | its instance for TLC |
| `DirectCommands` | commands a page sends at once, their intents, and the drafts of reviews, next to the server's decisions |
| `SessionReview` | the plan of a session, its reviews, and the commands a review leaves to be reconciled with the Task Space |
| `MCDirectCommands` | instances of both for TLC, in six scenes |
| `SpaceLease` | what a lease promises its holder (abstract specification) |
| `Leases` | how leases are obtained and given back: fair lock, turnstile and data files, fences |
| `MCLeases` | its instance for TLC |
| `Cutover` | snapshots, retention, restore, cutover and its reversal, next to the server's life cycle; takes leases as `SpaceLease` promises them |
| `DurableFiles` | the files of stages, notes and fences, system call by system call, and what a power loss leaves of them |
| `MCCutover` | instances of both for TLC, in two scenes |
| `FocusSession` | the sessions of the Spaces, their commands and the effort projection; no behaviour of its own |
| `ActiveSession` | the coordinator of the active session over `FocusSession`: requests in flight, locator, operations, children |
| `RecoveryAuthority` | the verdict on the active session that backup and cutover ask for |
| `MCFocus` | their instance for TLC |
| `TaskSpace` | the commands of the Task Space, compiled against the rows and committed later, and pushed rows |
| `KnowledgeTree` | folders, notes and quick notes, their commands, and what index and Markdown files show |
| `MCTaskSpace` | instances of both for TLC, in two scenes |
| `NativeVfs` | bindings of databases, connections and the rollback journal on record |
| `Replacement` | migration of a database by a copy that takes its place, over `NativeVfs` |
| `SpaceRuntime` | handles of Spaces, shared engines, degradation, over `Replacement` |
| `OwnerProcess` | the process: owner task, admission, commands, provisioning, shutdown and death, over `SpaceRuntime` |
| `MCRuntime` | its instance for TLC, in five scenes |
| `LeaseProofs` | the inductive invariant of `Leases`; exclusion, current fences, the refinement of `SpaceLease`; the counters of the fair lock, types |
| `SpaceMutationProofs` | types and the inductive invariant of `SpaceMutation`; `LedgerAtomic`, `JournalCoherent`; that it implements `AtomicBatch` |
| `SyncProofs` | the inductive invariant of `SyncDevice` and `SyncServer`; no missed write, safe retention, replicas that only grow; the inductive invariants of `ActiveSession` and of the effort in `FocusSession`; one session under its locator, phases and verdicts that rest on evidence, effort that is what the sessions add up to |
| `PushProofs` | the inductive invariant of `PushOutbox` and `BatchServer`; operations that apply once, edits that survive, copies that are current |
| `ProvisionalProofs` | the inductive invariant of `ProvisionalSession`; one session on a device, rows with their authority, nothing missing, admitted rows that stay |
| `DirectProofs` | the inductive invariant of `DirectCommands`; one request per operation, true outcomes, drafts that are kept, results that stay; the inductive invariant of `SessionReview`; receipts that are true, commands that act on what was frozen |
| `TaskSpaceProofs` | the inductive invariant of `TaskSpace`; trees, keys and checked dependencies that hold, events that show the rows, edits that stand; the inductive invariant of `KnowledgeTree`; trees of folders, a trash that hides nothing, stores that show the rows |
| `CutoverProofs` | the inductive invariant of `Cutover`; data that are never lost, roots that move alone, reliable snapshots; the one of `DurableFiles`; power losses that do no harm |

An operator whose comment begins with "Faulty variant" or "Mutant" is no part of
a specification. It is a definition as a plausible bug would have it, and stands
before the one it replaces when the strength of a property is tested
(`PROJECT.json`, "mutants").

### SpaceMutation and the code

A request (`Procs`) has a program counter and the local variables of the
coroutine that runs it (`loc`). One action is what happens between two awaits
that matter: a journal transaction, a business transaction, one file operation,
one read of the journal. Everything else a coroutine does is local.

* `Begin` opens a request. `MayHold` is what the leases promise: an EXCLUSIVE
  holder is alone, SHARED holders are not. Sync push and the first opening of an
  unclean Space hold EXCLUSIVE; a REST handler mutates under the SHARED lease of
  its read handle (`runtime/space.py`, `mutation_lease`).
* `Scan` to `CollectUndone` and `FailManual` are `MutationRecovery`: the scan of
  the journal, the sweep of orphan stages, the dispatch on the state of a batch,
  the replay of the business commit, the forward run and its verification, the
  compensation, and FAILED_MANUAL.
* `Compile` to `FinalizeBatch` are `MutationUnitOfWork`: compile, record the
  intent, publish the stages, mark STAGED, commit, apply the steps, FINALIZED.
  `MarkStaged`, `MarkFinalizing`, `ForwardApplied` and `FinalizeBatch` are code
  both paths call.
* A batch may hold several commands about one entity. `CompileCommand` compiles
  each against the overlay (`AuthorityOverlay`) that the accepted ones before it
  have left: `Compile` and `SnapshotStores` fill it from the rows and then from
  the derived stores, `Overlaid` brings it up to date. A command the code may
  refuse for its version (`NamesVersion`) is accepted or refused.
* `Fault` is an exception or cancellation at an await: what the `except` clauses
  around that await do. `Crash` ends the process. `LoseImage` makes the images
  of one side of a published stage unreadable.

Data are reduced to what recovery compares. A body is the identity of the
operation that wrote it, so two images are equal exactly when their digests are
in the code. A row is a version and its writer. A command is create, update or
delete with the entity's title; `blind` ones name no version.

### SyncServer, SyncDevice and the code

Every server operation runs under the EXCLUSIVE lease, recovers first and is one
transaction, so it is one step. `Write(TRUE)` is a published batch of one event;
`Write(FALSE)` is one that was compensated: its ledger row is gone and
`current_cursor` has moved. An entry of `reg` is a row of `sync_clients`
together with the manifest it is bound to. `Touch`, `ExpireInactive`,
`CollectExpired` and `DeleteExpired` are the maintenance calls that the
handlers make, in the handlers' order.

A device keeps in IndexedDB what `have`, `mark`, `pend`, `need` and `rec` stand
for. `Ask` is its next request and the server's handling of it; the answer then
waits in `answer` until the device takes it or `LoseAnswer` drops it. `GiveUp`
and `ServeLate` are a request whose device timed out and which the server still
takes up later, after any number of other requests. A reload of the page between
two steps changes nothing: all of the state is persisted.

### BatchServer, PushOutbox and the code

A batch is carried out under the EXCLUSIVE lease after recovery, so `Execute` is
one step and `Interrupt` is what recovery leaves of one that failed. A receipt
holds the result that was computed before anything was applied; `Bound` and
`Answers` are the two ways to hear of it, the query and the repeated request. The
orders in which the code lists rows (`InOrder` by operation id, `ByAge` by time)
are the listing that is in that order: operations and times differ within a unit.

Rows of the outbox carry the action, the version they replace and the time of
the edit, which also stands for the payload. `Enqueue` and `Merged` are
`enqueueOutbox` and `resolveOutboxMerge`; the rows modelled never count an
attempt (only work-item notes do), so that every edit merges into the row there
is. A cycle is `Admit` or `StartCycle`, `Pull`, then for one authority unit after
the other `Query`, `RecordReceipt`, `Push` and `ApplyResult`, each one IndexedDB
transaction or request of `runSyncCycle`. Exceptions lead to `EndCycle` where the
code has them: a marker or a receipt that no longer fits the rows, a query that
knows some operations of a unit only, a result about other rows.
`AcceptRemote` and `KeepLocal` are `resolveConflict`. `owed` and `stale` exist in
the model only.

### ProvisionalSession and the code

`prov` and `owner` are the rows of `provisionalOperations` in the device's meta
database; `ses`, `plan`, `outbox`, `marker` and `receipts` are tables of the Spaces'
databases; `imported` and `served` belong to the server. A task (`Procs`) is an
asynchronous function of a page, `job` what it works on, and one action is one
transaction of either database. Past `"wait"` it holds the authority fence of its
Space, a Web Lock (`Free`); pause, resume and end read the session before they
wait for it (`Ready`) and again under it (`OwnedBy`), the other edits check under
it whatever they check. `Claim` to `SettleStart` are `startProvisional`, and
`ResumeStart` the same start repeated; `MoveClock` and `RetireOperation` are
`withLocalOwner` around a change of the clock; `Reconcile` to `ResolveActivation` are
`reconcileProvisional` and `cacheAuthoritativeActivation`; `ListStarts` and
`RecoverStart` are `recoverProvisionalStarts`; `StartSync` to `EndSync` are the
stages of a push that concern sessions: evidence, `admitTs3AwaitingS4` in its two
transactions with `markTransportReady` between them, the compound and then its
clock rows. Of a row the outbox has its entity, action, revision and expected
version, and whether it is a child of the compound; their order within the
compound, hashes and payloads are left out. `Throw` is an exception in a task, with
what the `catch` clauses put back; `PageDies` ends every task of a tab.

### DirectCommands and the code

`intent`, `draft` and `copy` are the tables `directCommandIntents`,
`sessionReviewDrafts` and the cached rows of the Space's database, which every page
shares; `held` is the state of a page's `SessionReviewDraftController`. A page has one
call under way, and `call` says where it is: `"prepare"` to `"install"` are
`prepareDirectCommandIntent` and `executeDurableDirectCommand`, one transaction or
answer each (`Prepare`, `Start`, `Answer`, `Install`), with `"check"` before them for a
review (`executeReviewIntent`, `resolveReviewIntentMode`). `StartCommand` is a command of
`TaskSpaceRepository`, `StartReview` and `KeepForImport` are the two halves of
`submitReview`, `SyncReview` is `resumeImportedProvisionalReviews`, and `StartRound`,
`Resume` and `Mark` are `resumePendingDirectCommandIntents`: the list is read once, and
an intent is taken when none created before it (`after`) is left. `Fail` is where an
exception leads: for a user or a sync cycle to the caller, in a round on to
`markIntentFailed` or out of it, by `classifyIntentFailure` (`Disposition`). `decided` is
the server's journal of commands: it answers a repeated request with its decision and
refuses another one under the same id. `sent` keeps every request, so that `Arrive`
may take it up at any later time. `Elsewhere` and `Refresh` are other devices, the
arrival of an import, and pulls, which may be one version late.

### SessionReview and the code

`SessionReview` is the part of `policy.py` between the plan of a session and the
receipts of its commands, with `command_reconciler.py`. A request (`Roots`, by its
operation id) is a *review* or a *reconciliation*. Both hold the SHARED lease of their
read handle, so each is compiled (`CompileReview`, `CompileAdmission`,
`CompileTransition`, `CompileReceipt`: the rows are read) and committed later, against
the versions it has read (`ReviewCurrent`, `CommitsWrite`, `StillExpected`). `frozen` is
the row of `session_task_context`, the structure of the work items when the session
started, `plan` its plan rows; the plan is changed under the EXCLUSIVE lease, when no
request is under way (`OpenPlan`, `Pushable`). A review judges the session and marks
tasks: `Envelopes` are the rows of `session_command_envelopes` it writes, with the
version of the task that it saw. A reconciliation of one envelope goes through
`_compile_reconcile_admission` (`Decision`: observe, abandon or claim the replay),
reads the receipt, looks for the command's own operation in the journal
(`QueryOriginal`), carries the command out (`CompileTransition`, `CommitTransition`,
`FinalizeTransition`) or takes its outcome over, and writes the receipt in an operation
of its own (`recorded`). `TimeOut` leaves the transition under way, and `LoseRequest` is
a request that dies with its process and, once admitted, may be sent again.

`journal` is what the journal of batches holds of the transition of a command.
`Recover` is the recovery of its batch by anybody (`_recover_batch`). It commits a
staged batch and finalizes a committed one; it sets a batch without its stages to
`aborted`, which leaves the result that the batch was to have, and `query_original` and
`_resume_or_return` answer an aborted batch from that result like an applied one
(`Answered`); it takes the rows of a batch whose files cannot be written back to `before`
(`TakeBack`), after which there is no answer (`ReplayTransition`). A refusal at the
compilation (`Refused`) is journaled without an operation (`record_rejected_batch`), so
that the next request still finds no original (`Unjournaled`). A commit whose rows have
moved raises, and leaves the batch staged: every later batch begins with its recovery,
which meets the same rows (`Jam`, `Begins`), until they are back at that version. Batches
other than transitions commit in one step here; their own recovery is `SpaceMutation`'s.

### SpaceLease, Leases and the code

A task is a coroutine of a process. `want` is what its acquisition
(`acquire_process_owner`, `acquire_global`, `acquire_spaces`) still has to take,
`stages` what it has taken (`_ReleaseStage`: the fair lock, the turnstile
handle, the data handle of each scope), `leases` the leases it holds, innermost
last, as `_HELD_ORDER` allows them. `Arrive`, `Wake` and `LeaveQueue` are
`_FairRwLock`: a waiter re-evaluates its predicate when it is notified, and a
writer leaves the queue in `finally`. `LockTurn`, `LockData` and `FreeTurn` are
`_acquire_cross_process_rw`, one poll of a file lock at a time. `TakeFence` is
`next_fence` or the read of the fence, after which the next scope is begun or
the lease published. `GiveUp` is a timeout or cancellation at any await and
leads into the same release sequence as `Release`: `Shed` takes one stage after
the other from the end. `FailUnlock` leaves the rest of them and every outer
lease held; `Retry` is the owner's task trying again. `Die` frees the files of a
process and nothing durable.

`SpaceLease` is the state a caller sees: leases with their mode and fence, the
fence files, and the newest fence issued. `MayHold` of `SpaceMutation` and
`Free` of `Cutover` are its `Free`.

### Cutover and the code

The content of a root is reduced to two databases, each with the number of the
last mutation it has; it is whole when they agree. `ServerStart` to
`SchedulerClose` follow `bootstrap_runtime` and `lifespan`: the process-owner
lease, recovery of what a dead request left, the scheduler's first snapshot that
decides whether the gate opens, draining, and the release of the owner lease
*before* the scheduler is cancelled. `SnapLock` to `SnapFail` are
`RecoveryCoordinator.snapshot`, database by database, whether the scheduler or
the tool calls it. `RetainScan` and `RetainRemove` are two steps because nothing
is locked between them. `RestoreBegin` and `RestoreCopy` make a staging root and
its proof. `CutoverBegin` to `CutoverEnd` are `cutover`: owner lease, global
lease, verification, the second look at the proof, the two renames, the check of
what was published, consumption of the proof; `Reversal` says where the `except`
clauses lead from each of these. `ToolDies` and `ServerDies` stop a process,
`CopyBack` is an operator who copies what is active to the path of a used
staging root. `current` is what users last saw and exists in the model only.

### DurableFiles and the code

A name or a file is a record: what it is `now`, and what it `may` be after a power
loss. A call that changes it adds a possibility, an fsync takes the others away:
`FileFlushed` that a file is torn, `EntryFlushed` that a name is missing.
`Publication` lists the calls of `StageStore.publish` over `contained_io.py` in
their order, `AtomicWrite` those of `_atomic_write_relative`, `NextFence` those by
which a fence is moved on. An operation of the mutation core has the smallest
batch there is: an image of each side or of one, and one note it writes.
`Collect` and `RemoveStep` are the sweep of orphan stages, `RecoverBatch` the
recovery's dispatch on what it finds, `Stop` an exception or the end of the
process (what is not flushed is still there), `PowerLoss` and `Settle` the end of
the machine: every file and name becomes one of the things it may be. The journal
is SQLite's and durable at its commits. `adopted` are the stages that a recovery, not
their request, marked STAGED, `gutted` the published ones whose removal has begun.

### FocusSession, ActiveSession, RecoveryAuthority and the code

`FocusSession` is `policy.py` after its admission: what a command does to the
row of a session (clock, ownership, validity), to its attribution revisions and
to the effort of the work items. Effort counts sessions where the code sums
their seconds. `Elsewhere` collects the commands that do not pass through the
coordinator: reviews, corrections, the rebuild, and what devices push.

`ActiveSession` is `coordinator.py`. A request is a `frame`: the command it runs
and the step it has reached. A step is one transaction of the meta database, or
the compilation of a Space mutation (`Compile`, `ChildCompile`: the policy reads
the locator, the Space's lease is taken), or its commit (`Commit`,
`ChildCommit`). Every command can be sent again at any time; what the endpoints
do with a command they have seen is in their first step. `Crash` loses every
request; the child under way is then unknown to the journal, aborted, or applied
without a receipt, and `ChildRestore`, `ChildRefused` and `ChildSkip` are
`_child_execution_decision` on these. `Complete` is the one transaction with
three conditional updates.

`RecoveryAuthority` has no state: `Verdict` is `_classify` over the state of the
other two, function by function; the locator's lease may have expired or not.

### NativeVfs, Replacement, SpaceRuntime, OwnerProcess and the code

One behaviour is the life of a server process and of those that follow it.
`NativeVfs` is the registry of `pxii_vfs.c`: a binding has a file, its open
connections, whether it is revoked, and whether a rollback journal is on record
for it (`binding_child`, `binding_open_companion`). `Replacement` is
`_replace_upgrade` with `SQLiteReplacementAuthority`: `place` says which file lies
under a store's name and under the random names of a replacement, `Stage` is
`_commit_physical_stage`, and `CommitFails` is a rename or deletion that fails
before or after it has happened. `SpaceRuntime` follows a `SpaceRuntimeHandle`
through `open_resolved`: its `pc` is the resource it acquires next, then
`close_space_resources` and `aclose` in their order; `cache` is
`SpaceEngineManager._entries`. The disposal of an engine that fails revokes its binding
all the same (`_dispose_entry` closes the target in `finally`, and `aclose` revokes before
it waits): the binding is freed and the handle keeps its leases, or connections that the
engine has left open keep the binding, refused to everybody, and the handle waits for
them (`DisposeEngine`); that they are closed in the end, at the latest when nothing refers
to them any more, is assumed with the fairness of the handle. A transaction is `BeginWrite` to `FinishWrite`;
what the journal of batches holds unfinished is `unclean`. `OwnerProcess` is
`bootstrap_runtime` with `_OwnerTaskExecutor`: `owner.pc` walks through
`_startup_owned` (`global` to `recovering`), the command loop, `_provision_owned`
(`mkdir` to `release`) and `_shutdown_owned`; `gate` is the state of the admission
gate, `tree` the directory of a Space with its provision marker, `orphaned` the
registered Spaces whose directory a failed registration has removed. `Crash`
keeps the disk and nothing else.

### TaskSpace and the code

The rows of the Space are one function `db` from keys to rows, with a key for
whatever is unique on its own: an item, the junction rows of its labels, its note,
a label, a label's name, an edge, a tombstone, and the newest event about an item.
The compilers (`task_space/compiler.py`, one action each, under their names) check
a command against the rows, the overlay, and make the images of the rows it
writes: `Stage` keeps them in `flight` until `Commit`, because the mutation lease of
a REST request is SHARED and other requests compile and commit in between.
`DbMutationInterpreter.apply` compares the rows it writes with those the
compiler saw, and no others: `lost` says that one of them has changed, after
which the batch can no longer commit (`Jam`); `unseen` that an item was placed or
an edge drawn that the compiler did not see. `blind` are the items and edges
whose last commit was of that kind. A push (`Replay`, `PushNote`, `PushRelation`,
`PushRemoval`) holds the EXCLUSIVE lease: it compiles and commits in one step.
A pushed item is the one command its changes amount to
(`_compile_sync_work_item`); a pushed relation passes the catalog's compiler.

Trees are read upwards: `Level` is `_parent_depth`, `Height` is
`_subtree_relative_depth`, and `OnCycle` where the walk of `_descendants` would
not end (`Hang`). `Reaches` says what `detect_cycle_incremental` finds by closed
sets instead of a search. Versions do not appear: a command that names an old
one is refused without effect.

### KnowledgeTree and the code

`stored` has the rows of folders, notes and quick notes, `gone` the identities
with a tombstone, `index` what the file-system index has of folders and notes, `file` the
Markdown files by path. A command is compiled and carried out under one lease and
is one action, named for what it does (`CreateFolder` to `ConvertQuick`); its
conditions are those of `FolderDomainPolicy` (`commands/entity.py`), of the compilers
of the mutation core and of `KnowledgeStore`, for a page's patch and for a row that a
device pushes.
`Carry` is what the batch then does: rows, tombstones, the derived stores
(`Projected`), or an end before that: `Complete` is the planner's demand that
the index holds each note that is changed, and that a rename is built where one is
owed; `NamesCollide` a unique index that the compilers do not ask, which breaks the
commit of a batch that is already staged (`stuck`). The purge of a folder and the
conversion of a quick note read rows before they have the lease: `asking` is what a
request has read, `stale` what of it was written since, whose command is refused on
its own. `loose` are the rows that the code itself leaves active in a folder that
is not, by a restoration or by a trash or purge that did not read them.
`NoCycle` says by closed sets of folders what `_require_no_cycle` finds by a walk.

## Runs

| Run | Checks | Instance |
|---|---|---|
| `Exclusive` | `RowsFollowLedger`, `ProjectionsFollowRows`, `RecoveryConverges`, `ImplementsAtomicBatch` | 2 requests; batch 1 creates a folder and updates it blindly, batch 2 deletes the folder blindly and renames a note; EXCLUSIVE; 2 faults, 1 lost image |
| `Retention` | `NothingMissed`, `RetentionIsSafe`, `ReplicaNeverRegresses`, `CatchUp` | 2 devices, 2 writes, snapshots of 2 pages, pull pages of 1 event, 1 mishap, fair |
| `Push` | `AppliedOnce`, `NoEditIsLost` (`EditsAreKept`, `CleanIsCurrent`), `EditsSettle` | 1 shared row and 1 the device creates, 3 edits or writes of others, 3 operation ids, 1 mishap, fair |
| `Leases` | `Exclusion`, `ImplementsSpaceLease`, `Drains` | server with owner task and request, tool with a snapshot task; owner, global and 2 Space scopes; 2 acquisitions per task, 1 failed unlock or dead process |
| `Cutover` | `DataAreNeverLost` (`CurrentDataExists`, `OneFailureIsHarmless`), `MovesAlone`, `SnapshotsAreReliable` (`SnapshotsAreWhole`, `RetentionKeepsNewest`), `PowerLossIsHarmless` (`StagesSurvive`, `OrphansAreSound`, `NotesAreWhole`, `FencesStand`) | scene `roots`: 1 restore, 2 cutovers, 1 mutation, 2 seconds, 1 snapshot kept, 2 mishaps; scene `files`: 2 operations, 3 acquisitions of the lease, 2 exceptions, deaths or power losses |
| `Focus` | `EffortIsTotal`, `EvidenceHolds` (`RunningUnderLocator`, `PhasesAreProven`, `CleanIsCoherent`), `ResolutionCompletes` | 2 sessions of one Space in 16 initial situations, 2 work items, 2 requests in flight, 1 command of each kind of which 3 are used, 2 epochs, 1 crash or mutation by others |
| `TaskSpace` | `StructureHolds` (`TreesAreShallow`, `CheckedEdgesAcyclic`, `KeysAreUnique`), `EventsShowRows`, `NoEditIsUndone`, `KnowledgeHolds` (`FoldersAreTree`, `LocationsAreKnown`, `TrashHidesNothing`, `ShelvesShowRows`) | scene `tasks`: 2 online requests and a push; one of eight repertoires of commands with 1 to 4 items, 3 edges, 2 labels and names, 2 blocks; symmetric requests; scene `tree`: a request that reads before its lease, and one of four casts: 3 folders; 2 folders and 2 names; 2 folders, a note and 3 titles of 2 slugs; a folder, a note and a quick note |
| `Runtime` | `StoresSurvive` (`DataSurvives`, `OneFaultIsHarmless`), `ReadyMeansWhole` (`ServedIsWhole`, `LeftoversAreMarked`), `HandlesAreSound` (`ResourcesFollowHandles`, `ExclusiveIsAlone`, `DegradedIsShut`), `EverybodyIsAnswered` (`AcceptedIsAnswered`, `ShutdownEnds`) | the meta database and 1 Space, registered or not; 2 requests, 2 clients, 3 tokens, a queue for 1 command, 2 failures of the system and 2 deaths, in five scenes; fair |
| `Provisional` | `OneSessionRuns`, `RowsHaveAuthority`, `NothingIsMissing`, `AdmittedIsFrozen` | 2 tabs with a task each, 2 sessions in 2 Spaces, 1 planned and 1 later plan item, 3 revisions of the first session, 1 dead page or exception; symmetric |
| `Direct` | `OneRequestPerOperation`, `OutcomesAreTrue`, `ReceiptsAreTrue`, `DraftsAreKept`, `ResultsStay`, `CommandsActOnFrozenTasks` | scene `SideBySide`: 2 pages, 1 operation id, 1 item and 1 session, 2 contents, versions up to 1, 1 lost answer, exception or dead page; on the server 1 or 2 tasks under 1 item: `Planning` a plan that is changed, pushed and reviewed, `Reviewing` two reviews at once, `Comparing` a review of two tasks, `Reconciling` a review and two requests about its command, with 2 edits of work items or lost requests |
| `DirectRounds` | `IntentsSettle` | scene `Rounds`: 1 page, 2 operation ids, 1 item and 1 session, 2 contents, 1 lost answer, exception or dead page, fair |
| `PoisonedSpace` | `BatchesSettle` is violated | 2 requests that update one version of a record, both lease modes, no fault, fair |

What the passing runs show. `Exclusive`: whatever is interrupted, and also when
the recovery of it is interrupted, rows are those of the newest ledger event,
the derived stores of a clean Space show the rows, clients see a batch whole or
not at all, and no batch stays in doubt once requests keep coming. Under the
SHARED lease this is no longer so without any fault (`PoisonedSpace`); that it
costs no atomicity is proved, because the compare and set transitions of the
journal refuse every step that comes too late.
`Retention`: the checks on a presented cursor are strong enough, however late a
request is. `Push`: lost answers, late requests and edits in between neither
repeat an operation nor drop an edit, but for the receipts of interrupted
batches (`Phantom`); the exceptions of the properties are under Observations.

`Leases`: what the other modules assume of a lease holds however timeouts,
cancellations, failed unlocks and deaths fall, and nobody waits for ever across
the fair locks, turnstiles and data files of two processes. `Cutover`: no
failure or death loses what users last saw, one failure without a death never
takes the active root away, and snapshots are whole although they are copied
database by database; in the scene `files`, a power loss between any two system calls
leaves a batch its stage, a note one of its bodies and a fence its order. `Focus`: although the locator is read at compile time and
may be rotated before the Space commits, no second session runs, and effort follows corrections and reviews. `TaskSpace`: rows
read at compile time and written by others before the commit cost trees and
dependencies their shape only where the other wrote a row the command does not
write; numbers, names, events and the fields of other commands are safe, because
each of them hangs on a row that is compared. In the scene `tree`, folders stay a tree
and index and files show the rows, though nothing but the compilers holds them there;
what the code itself leaves active in a folder that is not is named (`loose`).

`Provisional`: the claim keeps a second session from running whatever tabs and Spaces
do; every part of a session and every change of its clock is in the outbox until the
server has it, but for a note edited late (`Overwritten`); admission takes only what
has ended, and it no longer changes. That imports arrive in the end is not checked:
they do not always (see Observations).

`Direct`, `DirectRounds`: however pages, rounds and sync cycles meet over one intent, the
server sees one request per operation id, what the device says of an operation is what
the server decided, and a draft is cleared only by the acceptance of what it says. An
intent that cannot be carried out does not keep those behind it from being settled. On
the server, no order of reviews, edits, recoveries and reconciliations of one command
makes a receipt claim a failure of a command that took effect, or the success of one that
was refused, taken back or is still under way, and the only success that did not happen is
that of a batch which recovery aborted (Observations); a command changes a task
only while it is as the session froze it: a task that was edited meanwhile has another
version, and a second command of the session finds the first one's.

`Runtime`: engines are shared, drained and disposed of without a leak however
handles interleave and closes fail; a migration loses no data for two failures
or deaths; what is READY is whole except a Space whose registration failed after
its commit; commands and shutdowns end.

Where the code and what is said of it disagree, a property states what the document,
comment or test says and the run shows the counterexample. `PoisonedSpace` is the one
kept as a run ("findings" of `PROJECT.json`): it starves a Space without any fault. The
other disagreements are named by the properties that except them and described under
Observations.

**Bounds.** Two faults are what it takes to interrupt a recovery that is itself
a consequence of an interruption; more repeat the pattern, because a crash
erases the local state and leaves only the journal. One lost side of a stage
forces compensation (lost `after`), two faults around it force its resumption.
Two batches that share an entity show each order of commits and every
recovery by the other request. A batch of two children is the smallest with a
first and a last child; when both are about one entity, commit, replay and
compensation have to take them in the right order. Two writes are the smallest number with an event before
and one after a prune or a waterline, a snapshot of two pages the smallest with
something to resume, a page of one event the smallest that has to be continued,
two devices the smallest where one holds retention back for the other.
`MaxMishaps` bounds timeouts, lost answers, expiries and full syncs together; one
device with two mishaps gives the same result.
Symmetry is used in `TaskSpace` and `Provisional` only: no liveness is checked there, and no
definition distinguishes requests, or tabs with their tasks and sessions with their
Spaces.

Of the files, two operations are one whose stage is an orphan while the other publishes;
three acquisitions are a request, its recovery and the recovery of that; two stops
are a death that leaves files unflushed and the power loss that takes them. Three
folders are the smallest number in which a cycle is no exchange of two; a cast has
what one rule of the tree is about, because rows of other casts only repeat the
refusals of a name or a place. In `Filing` two of three titles have one slug.

For the push, one shared row and one created offline are the two kinds of rows
there are; three edits are one that is sent, one that merges into it and one of
another client; with two mishaps the invariants hold in 3.4 million states, with
four edits in all states to depth 32.

Three tasks in two processes are the smallest number with two waiters on one
fair lock's file from both sides; two Spaces are needed for an acquisition that
fails after its first scope. Two cutovers show that the rollback of the first
survives the second, two mishaps an interrupted reversal. Two sessions are a
conflict and what is left of it; two requests in flight and three commands are
an activation, its resolution and one command that comes between them. One Space
makes the effort of one session depend on the other and serializes their
mutations; with `SpaceOf <- MCTwoSpaces` they interleave freely (712,349 states,
the same result).

A behaviour of `TaskSpace` has the commands of one repertoire, each of which is
explored to the end. A repertoire joins commands where one reads what the other
writes (creating, closing and moving in a tree, relations and the trash, labels
and updates); two commands that only write the same row refuse each other in the
same way whatever their kinds, and `Working` has four of them. Four items are the smallest number with a chain too deep, three
the smallest with a cycle of moves that are legal one by one, three edges the
smallest cycle that is no immediate return; two requests are the smallest number
of which one misses what the other does.

In `Runtime` a scene says who takes part and how much may go wrong, so that
startups, requests, provisioning and shutdown are each explored to the end: two
requests share an engine before or after the owner task has its own handle
of the Space; two failures are one and one in its repair; three tokens
are one more than two handles bind at once. Two clients and a queue for one are
the smallest with a client that waits for room.

For the provisional session, two tabs and two Spaces are what a fence does not order;
three revisions are a pause, a resume and an end or another pause, so that clock rows
follow rows that were sent and rows that were not. One fault falls between any two
transactions of a start, an end, an activation or an admission. The second session of
the instance is there to be started next to the first and has no clock to move. With
3.5 million states this is the largest instance the time of a run allows.

For the direct commands, two pages over one operation id are a submission, a round
and a sync cycle that work on one intent, any two at a time; two contents are a draft
and its later edition, one version more than at the start a row another device has
changed. Two operation ids are the smallest number of which one can be in the other's
way in a round. For the reviews, two requests about one command are one that has claimed
it and one that replays, gives up or watches it; of two reviews one is compiled before
the other commits; two events are a loss and an edit, or the two edits that bring a
row back to what it was with another version.

**Deadlock** is not checked: a system whose batches are all settled and whose
devices have caught up may rest, and a Space that is degraded refuses requests
until the process starts again.

**Fairness.** `SpaceMutation`: `WF(ProcStep(p))`, because a coroutine that can
run is run by the event loop, and weak fairness of an opening that recovers,
because the runtime recovers an unclean Space whenever it opens one and devices
keep asking for it. No fairness on faults, crashes or new batches. `SyncDevice`:
`WF(DeviceStep(d))`, because the sync timer starts a cycle again after every
failure; none on the server's writes and prunes, or on the delivery of requests
that were given up. `CatchUp` therefore allows no more than the code promises;
its two exceptions are reused ids (`reused`) and a stranded recovery (Observations). Likewise
`RecoveryConverges` excepts a rotten orphan stage, which makes every recovery
raise (`staging.py:502`). `Leases`: some task that can go on goes on, which is
less than an event loop gives; leases are given back because their bodies end;
timeouts are never needed. `ActiveSession`: `WF(Proceed(t))`, because a handler runs
until it returns, and strong fairness of a resolution being read, because a
client that was told of a failure sends its resolution again; that client is
outside the code. `PushOutbox`: `WF(CycleStep)`, because an edit schedules a cycle,
as do the start of the page and its return online, and a cycle goes on by itself;
no fairness on edits, resolutions or late requests. `DirectCommands`:
`WF(Step(p))`, because a call goes on by itself and its request is answered or times
out, and strong fairness of a round being started, because every opening of the Task
Space starts one; none on users, imports or pulls. `OwnerProcess`: weak fairness
of the owner task, of every request, of the end of a request's work and of a
client's entry into the queue, because the event loop runs what can run; none on
starts, deaths, failures or new requests.

## Observations

Behaviour met while modelling that a property has to make room for. The models
have it as the code has it.

* *Mutations under SHARED leases.* The mutation lease of a REST request is the
  SHARED lease of its read handle (`runtime/space.py:366`). Without any fault,
  two requests can then interleave so that one recovers the batch the other is
  carrying through: both raise, and a batch stays in doubt until a later request
  recovers it. When both have staged an update of the same version, none does
  (`PoisonedSpace`).
* *A crash while a note is renamed.* `FAULT_OUTCOME` (`mutation/recovery.py:62-64`)
  says "all-new" of a crash at the projection commits. An update that changes the
  title of a note has a rename step and a write step on the renamed file. After
  the write the target of the rename holds neither image of the rename, so that
  the recovery raises `RecoveryUnprovableError` and the batch becomes
  FAILED_MANUAL. Two commands of one batch about one note or folder fail alike. So
  does a batch that stopped in DB_COMMITTED with JSON fields in its events
  (`recovery.py:579` compares them decoded with raw).
* *A delete that is replayed leaves no tombstone.* The live commit writes a tombstone
  for each delete (`mutation/unit_of_work.py:2252`); the replay of a STAGED batch
  applies the rows and records the events only (`recovery.py:556`), although
  `recovery.py:57` promises "all-new" of a crash there. A later create of the identity
  is then not refused.
* *Receipts of interrupted batches.* The query of operations answers a batch that was
  aborted or compensated with the results computed before anything was applied
  (`sync/protocol.py:510`). A device that hears "applied" lets go of an edit that is
  not there (`Phantom`, the exception in `EditsAreKept` and `CleanIsCurrent`).
* *Ids of the ledger are reused.* `models/sync_outbox.py:25` calls the id the event
  sequence; SQLite hands out the number of the newest row again when that row has
  been deleted, by compensation or by retention, because the table has no
  AUTOINCREMENT. A device whose cursor is already there skips the new event without
  a rejection (`reused`, the exception in `NothingMissed`, `RetentionIsSafe` and
  `CatchUp`).
* *Leases.* An unlock that fails leaves the outer leases held too. The retry
  goes through the pending cleanups in the order of their registration, the
  outer lease is registered after the inner one and raises `LeaseOrderError`, so
  that the process has to exit (`leases.py:583-608`; its comment expects newer
  child owners first).
* *Snapshots* are named by the second. A second one within the same second finds
  its name taken, fails, and its cleanup removes the first
  (`recovery/coordinator.py:531-542`); `RetentionKeepsNewest` excepts it.
* *Cutover.* A death between the two renames leaves no active root, and nothing
  in the code puts the rollback root back. A death between publication and
  consumption leaves a proof that admits the same staging root again.
* *Credentials* (`ops/cli.py`, `_run_credentials_cli`) are written to the meta
  database without a lease; `MovesAlone` speaks of leases only.
* *Focus, resolved conflicts.* The policy wants the locator in state "claiming",
  a resolution leaves it "active": the winner can then be neither paused nor
  ended, and no session started.
* *Focus, interrupted requests.* A start that stopped between the claim and the
  Space leaves a locator whose session does not exist and which no end releases.
  A repeated touch or end skips the Space and reports success; after a stop
  between the end in the Space and the release, a repeated end returns the view
  and leaves the locator. An activation that was interrupted cannot be repeated
  (its id is taken) and its resolution never completes, although the verdict on
  it is "awaiting_resolution".
* *Focus, locator moved on.* A touch or end during a conflict installs its own id
  in the locator, after which the conflict cannot be resolved; a repeated old
  touch installs its old id. A touch between the proof and the compilation of a
  child makes that child fail for good. This is why `ResolutionCompletes` has
  its exceptions.
* *Focus, a row that is deleted.* The docstring of the locator (`db/models/meta.py:50-53`)
  says that "the row is never deleted"; the end of a session deletes it
  (`coordinator.py:1235-1240`), whatever it names by then (`ReleaseEnd`).
* *Focus, winner in conflict again.* `resolve_activation_conflict` does not look
  at the phase of the conflict and `mark_activation_conflict` at nothing but the
  row: an activation whose second child comes after the resolution's first one
  puts the winner back into conflict, under a clean verdict.
* *Effort.* An ended session that counts and is then marked as in conflict keeps
  its share of the effort and can no longer be corrected (the exception in
  `EffortIsTotal`). A session pushed before its attribution makes every end,
  review and correction of its Space fail until the attribution arrives.

* *A stranded recovery.* The comment at `frontend/src/lib/sync/engine.ts:406` has a
  rejected device heal by a full recovery within the cycle. That recovery resumes
  from the stored page token (`recovery.ts:135`); when its snapshot has expired or
  been replaced, `snapshot.py:685` rejects it again, nothing discards the token,
  and every later cycle repeats the request (`Stranded`).
* *Runtime, provisioning.* A registration that fails after its commit (the row is
  read back, `space.py:592`) has its directory removed, marker and all: the Space
  is registered, its files are gone, and the next startup fails in its preflight
  (`orphaned`); `test_space_lifecycle.py` tests a failure of the commit itself.
  When the last deletion of the marker fails the client is told of a failure
  although the Space exists. When the isolated database has taken its place and the
  marker is not written again, the staging directory stays.
* *Runtime, leases that stay.* A cleanup of `create_isolated_under_lease` that fails
  keeps the EXCLUSIVE global lease while the gate is READY: every request times
  out and the shutdown ends FAILED. A request whose cleanup failed keeps its
  admission, and the shutdown waits for it for ever (the exception in
  `ShutdownEnds`); so does closing an engine one of whose connections never closes.
* *Runtime, replacement.* A death between the two renames leaves the database under
  a random name, as does a restoration that fails too; nothing finds it again, and
  the startup ends in its preflight (`DataSurvives` counts that file).
* *Runtime, companions.* A binding whose record of the journal is outdated, because
  another engine of the Space has rolled that journal back, refuses to write
  (`WriteRefused`) until the last handle lets go of the engine.

* *Push, several rows.* A receipt lists its operations by the age of the edits and
  its events by operation id, and must list them alike
  (`authority-identity.ts:473`). Two standalone rows whose random ids sort the
  other way stop every push of the device (`Misordered`).
* *Push, edits of rows already sent.* An edit merges into a row although it is
  frozen in the active receipt ("An attempted command is immutable",
  `outbox.ts:239`, but these rows never count an attempt): every later cycle
  fails with an identity drift (`ReceiptDrift`). The row a marker counted drifts in
  the same way (`Drifted`) until a row that waits for S4 resets the marker. An
  edit of a rejected row, or keeping the local version, keeps the operation id,
  which the server answers with the old result (`Rebound`).
* *Push, conflicts found by pull* show the oldest of the skipped events, often
  the device's own; accepting it installs that version. The event of a deletion carries
  nothing but its time (`unit_of_work.py:188-202`): the conflict it makes names no row
  (`merge.ts:10-23`), accepting it fails because there is no key to put it under
  (`engine.ts:154-162`), and it stays until the local row is kept. Conflicts
  of pushes with a tombstone carry no row at all. Conflicts found in a cycle that fails
  later, or before the page is reloaded, are not shown again, and rows rejected with an
  error stay.
* *Push, an edit whose answer was lost* is still queued when another client's
  younger write is pulled and skipped; the query then marks the row clean, and the
  younger write is never pulled again (`Overtaken`).
* *Push, merged updates* name the version the device counted itself, which may be
  that of another client's younger write: the older edit then replaces it without
  a comparison of times.

* *Provisional session, ends that are not told.* A page that dies between the end in the
  Space and the transition in the meta database leaves the operation "pending" or
  "activating" and the device without a new start; `reconcileProvisional` repairs it, and
  nothing outside the tests calls that or `recoverProvisionalStarts`. An operation left
  "activating" by a start makes the recovery raise (`provisional-start-recovery.ts:37`).
* *Provisional session, activation.* A pause enqueues a clock row, after which an
  activation can no longer be absorbed (`cacheAuthoritativeActivation` wants create rows
  only). When its answer is lost and the session ends locally, it is on the server as
  the activated one and is imported too.
* *Provisional session, late notes.* A note edited after the clock has moved takes the
  place of the session's create row (`focus-session-repository.ts:1370`): it becomes an
  update that expects version 0, the compound has no root any more, and the import
  never succeeds (`Overwritten`, the exception in `NothingIsMissing`).
* *Provisional session, stuck admission.* A page that dies between the two transactions
  of an admission leaves its marker in "meta_pending". If a second session of the Space
  ends before the next cycle, the check of the completed admission finds rows that
  wait (`admission.ts:290`) and raises, in every cycle: neither session is imported.
* *Provisional session, an activation under way.* While the operation is "activating",
  a page that dies leaves nobody who takes the next step, and edits of the plan are
  refused.
* *Provisional session, refused edits.* `setCurrentPlanItem`, `setCompletionDraft` and
  `removePlanItem` name the compound and no place in it, which `enqueueOutbox` refuses
  (`Refused`).
* *Direct commands, failed reviews.* `direct-command-intents.ts` and
  `task-space/intent-failure-summary.ts:8` have a user execute a failed command again,
  which "creates a new intent" because the draft of a review is kept. But the draft
  keeps its operation id for life (`session-review-draft-registry.ts:66`), the id
  finds its failed intent, and the review is refused for good. A round marks an
  intent failed for any exception of its handler, also when the server has already
  accepted it (`why = "handler"`, the exception in `OutcomesAreTrue`).
* *Direct commands, drafts of imported sessions.* A second page that flushes its copy
  of a draft writes the row again after the review has cleared it. The draft then
  finds a settled intent and `resumeImportedProvisionalReviews` raises
  (`focus-session-repository.ts:175`); so does a draft whose review failed. Every push
  of the Space begins with that call (`push-batch.ts:207`), so that the Space no longer
  pushes anything.
* *Reviews, receipts that change.* A receipt has no version, and the write of one
  compares the version of the session only, which it does not change. A reconciliation
  that was admitted to give a command up and commits late writes `abandoned` over a
  receipt that says `succeeded` (`CommitAdmission` in the scene `Reconciling`), which
  `terminal_receipt_immutable` (`policy.py:2275`) has in mind to exclude.
  `ReceiptsAreTrue` therefore says nothing of `abandoned`.
* *Reviews, a success that did not happen.* A process that dies after it has journaled the
  intent of a transition and before its stages are there leaves a batch that recovery
  aborts (`recovery.py:369-377`). The result that `create_batch_intent` stored with it says
  "applied", and the next reconciliation records `succeeded` for a task that nothing has
  changed (`command_reconciler.py:206-219`). It is the defect of `Phantom`, met by the
  reviews; `ReceiptsAreTrue` excepts it by `Answered`.
* *Reviews, a command that jams its Space.* A task that is edited between the compilation of
  a transition and its commit, or two requests that write the receipt of one command, leave
  a staged batch that no recovery gets past, as in `PoisonedSpace` (`Jam`).
* *Reviews, the second one after a correction.* A review that judges a session valid
  credits its effort to the level-2 item, and one that judges it invalid takes it away.
  The comparison with the frozen structure allows for a version that has moved where the
  effort differs from the frozen one (`policy.py:3260-3296`, with the comment at 2166);
  when it is back at its old value the version has moved all the same, and every further
  review is refused with `work_item_structure_changed`.
* *Task Space, concurrent moves.* Two moves that both fit can make a tree too deep
  or a cycle, because a move writes one row and is compared with that row only. On
  a cycle `_descendants` does not end: the next move of an item on it stops the
  event loop, and transitions of the items below are refused (`Hang`).
* *Task Space, pushed relations.* A pushed relation is neither checked for cycles
  nor for archived ends, and a pushed update may change the ends of an edge that
  keeps its id and its confirmation; the comment at `compiler.py:875` has the
  detector see every insert. A relation of type relates_to that would close a cycle
  of blocking edges is refused although it blocks nothing.
* *Task Space, small things.* `ResolveDependency` is accepted while the upstream is
  not cancelled; the query of what is blocked takes a finished item of another
  project for an open one; a label twice in pushed `label_ids` is not refused.

* *Durable files, removals cut short.* A death while a published stage is removed
  (`contained_io.py:999-1028`) leaves its directory without a manifest or images.
  `_collect_sync` (`staging.py:484-511`) then raises, at every later opening of the
  Space. Removals are never flushed, so that a power loss may do the same later
  (`gutted`, the exception in `OrphansAreSound`).
* *Durable files, adopted stages.* A recovery marks an INTENT batch STAGED when its stage
  verifies (`recovery.py:378-390`), without flushing `notes/.mutations`. A death between
  the rename of the stage and that flush, a recovery, and a power loss leave a STAGED
  batch without its stage (`adopted`, the exception in `StagesSurvive`).
* *Durable files, notes.* `_atomic_write_relative` renames without flushing the directory.
  A power loss after FINALIZED may bring the old body back, when the stage that had
  the new one may be gone.
* *Knowledge, names of folders.* The unique indexes of `models/folder.py:48-62` count
  trashed folders, and no compiler asks them. The commit of a batch that breaks one
  raises when the batch is STAGED, every recovery replays it, and the Space takes no
  more mutations (`stuck`).
* *Knowledge, conversions.* `services/quick_note.py:79-83` promises one atomic batch. Its
  two commands are accepted or refused one by one: when the folder was trashed meanwhile
  the quick note is archived without a note, when the quick note was edited meanwhile the
  note is there and the quick note is not archived.
* *Knowledge, what is active under what is not.* `restore_folder` does not look at the
  parent; a device that trashes a folder by an update has no cascade; a purge races with a
  restoration. A soft delete does not reach active folders below a trashed one, although
  `store.py:270-279` says "every non-trashed descendant"; a purge takes the active
  subfolders it has read and leaves their notes in folders that are purged. A restored
  note may lie in a folder that is trashed or gone (all of these: `loose`).
* *Knowledge, titles of one slug.* A title is 30 characters in its path. A change of a
  title that keeps the path owes a rename that is not built, and the request ends in
  `SpaceRecoveryRequiredError` (`Complete`).
* *Knowledge, tombstones.* A page's request to create a note is not checked against
  tombstones (`unit_of_work.py:830-840` checks `entity.create` and `entity.update` only): a
  purged identity can be created again under its tombstone, and what devices push for
  it is refused from then on.
* *Knowledge, small things.* `routes/v1/folders.py` says that system folders cannot be
  deleted, which the durable path does not check. The frontend's `purgeFolder` pushes a
  delete that is answered with a soft delete. The comment at `store.py:172` has the
  snapshot of a purge "taken under the same lease that will guard the batch"; it is read
  before that lease.

## Proofs

Proved for every set of requests, entities, batches and commands, both lease
modes and every number of faults and losses; for every set of processes, tasks
and acquisitions; for any number of devices, writes, mishaps and requests given
up, and pages and snapshots of any size; for any rows, operation ids, edits and
mishaps of a device that pushes; for any operations, images, acquisitions, exceptions
and power losses of the durable files; for any folders, notes, quick notes, names, titles
and slugs; for any tabs, tasks, Spaces, sessions and planned
items of a device that is offline; for any pages, commands, items, sessions, drafts and
requests that arrive late; for any work items, requests, edits and losses of a session
under review; for any sessions, Spaces, work items, commands, requests and crashes around the
active session; for any requests, items, projects, labels,
names, notes, relations and repertoires of the Task Space; for any number of
mutations, restores, cutovers, snapshots, failures and deaths:

| Theorem | Says |
|---|---|
| `SpaceMutationProofs!TypeCorrect` | `Spec => []TypeOK` |
| `SpaceMutationProofs!Invariance` | `Spec => []IInv` |
| `SpaceMutationProofs!LedgerIsAtomic` | `Spec => []LedgerAtomic` |
| `SpaceMutationProofs!JournalIsCoherent` | `Spec => []JournalCoherent` |
| `SpaceMutationProofs!Refinement` | `Spec => ImplementsAtomicBatch` |
| `LeaseProofs!LeasesAreBacked` | `Spec => []LeaseInv` |
| `LeaseProofs!LeasesExclude` | `Spec => []Exclusion` |
| `LeaseProofs!FencesStayCurrent` | `Spec => []HeldFenceIsCurrent` |
| `LeaseProofs!LeasesImplementSpaceLease` | `Spec => ImplementsSpaceLease` |
| `LeaseProofs!GatesCount` | `Spec => []GateInv` |
| `LeaseProofs!TypeCorrect` | `Spec => []TypeOK` |
| `SyncProofs!TypeCorrect` | `Spec => []TypeOK` |
| `SyncProofs!NoWriteIsMissed` | `Spec => []NothingMissed` |
| `SyncProofs!RetentionKeepsFaith` | `Spec => []RetentionIsSafe` |
| `SyncProofs!ReplicasOnlyGrow` | `Spec => ReplicaNeverRegresses` |
| `SyncProofs!CoordinatorInvariance` | `CoordinatorSpec => []CoordinatorInv` |
| `SyncProofs!EvidenceStands` | `CoordinatorSpec => []EvidenceHolds` |
| `SyncProofs!EffortCounts` | `CoordinatorSpec => []EffortIsTotal` |
| `PushProofs!PushInvariance` | `Spec => []PushInv` |
| `PushProofs!TypeCorrect` | `Spec => []TypeOK` |
| `PushProofs!OperationsApplyOnce` | `Spec => []AppliedOnce` |
| `PushProofs!EditsSurvive` | `Spec => []NoEditIsLost` |
| `ProvisionalProofs!ProvisionalInvariance` | `Spec => []ProvInv` |
| `ProvisionalProofs!TypeCorrect` | `Spec => []TypeOK` |
| `ProvisionalProofs!OneSession` | `Spec => []OneSessionRuns` |
| `ProvisionalProofs!RowsAuthority` | `Spec => []RowsHaveAuthority` |
| `ProvisionalProofs!NothingMissing` | `Spec => []NothingIsMissing` |
| `ProvisionalProofs!AdmittedFrozen` | `Spec => AdmittedIsFrozen` |
| `DirectProofs!DirectInvariance` | `Spec => []DirectInv` |
| `DirectProofs!TypeCorrect` | `Spec => []TypeOK` |
| `DirectProofs!OneRequest` | `Spec => []OneRequestPerOperation` |
| `DirectProofs!TrueOutcomes` | `Spec => []OutcomesAreTrue` |
| `DirectProofs!DraftsKept` | `Spec => DraftsAreKept` |
| `DirectProofs!ResultsStand` | `Spec => ResultsStay` |
| `DirectProofs!ReviewInvariance` | `ReviewSpec => []ReviewInv` |
| `DirectProofs!ReceiptsTrue` | `ReviewSpec => []ReceiptsAreTrue` |
| `DirectProofs!ActsOnFrozen` | `ReviewSpec => CommandsActOnFrozenTasks` |
| `TaskSpaceProofs!SpaceInvariance` | `Spec => []SpaceInv` |
| `TaskSpaceProofs!TypeCorrect` | `Spec => []TypeOK` |
| `TaskSpaceProofs!StructureIsKept` | `Spec => []StructureHolds` |
| `TaskSpaceProofs!EventsAreCurrent` | `Spec => []EventsShowRows` |
| `TaskSpaceProofs!EditsStand` | `Spec => NoEditIsUndone` |
| `TaskSpaceProofs!KnowledgeInvariance` | `TreeSpec => []KnowledgeInv` |
| `TaskSpaceProofs!KnowledgeStays` | `TreeSpec => []KnowledgeHolds` |
| `CutoverProofs!TypeCorrect` | `Spec => []TypeOK` |
| `CutoverProofs!NothingIsLost` | `Spec => []DataAreNeverLost` |
| `CutoverProofs!RootsMoveAlone` | `Spec => []MovesAlone` |
| `CutoverProofs!ReliableSnapshots` | `Spec => SnapshotsAreReliable` |
| `CutoverProofs!FileInvariance` | `FileSpec => []FileInv` |
| `CutoverProofs!FilesSurvive` | `FileSpec => []PowerLossIsHarmless` |

**Assumptions**: those on the constants, in the modules that declare them.
`RequestAssumption` makes the set of commands finite and gives them their
types; `InstanceAssumption`, `KindAssumption` and `TitlesAssumption` give the
other constants their types. `SyncAssumption` and `MishapAssumption` have
bounds that are numbers and pages that hold something; `ServerAssumption` has
operation ids that are positive numbers and starts with rows of the Space,
`OutboxAssumption` has bounds that are numbers; `BoundAssumption` has at
least one second and one snapshot to keep; `NoneAssumption` says, in the modules that
have it, that no content or row is the value for an absent one. `DirectAssumption`
has items that are not sessions and bounds that are numbers; `LevelsAssumption` says
that the level-2 item of a session is none of the tasks below it. `DeviceAssumption`
has finitely many planned items, whose names are not those of the other rows of a
session, and bounds that are numbers. In `TaskSpace`, `TableAssumption` has a
project and a title, `EdgesAssumption` has edges between two different items,
`RepertoireAssumption` has finitely many items that exist already and gives the
repertoires their types, and the client that pushes is no online request
(`PushAssumption`). `SessionsAssumption` has finitely many sessions, a work item, and rows to
begin with as devices and reviews leave them; `CommandAssumption` has each command id sent to
one endpoint; `NoneAssumption` and `FactAssumption` keep the value for an absent row apart
from the rows. TLC evaluates all of them in the runs of their
modules.

**Argument.** `LedgerAtomic` is not inductive. To publish all events of a batch
and no others, `FinalizeBatch` needs to know that every child has an event
(`Covered`) and that only children of written batches have one (`Recorded`); to
leave nothing behind, `EndInverse` has to know that the events are already gone,
which is knowledge of the request at label "cdone" and must survive what other
requests do meanwhile. `Knows(p)` states what each request knows of the journal
at its label; it is stable because a batch in compensation can only go to
COMPENSATED or FAILED_MANUAL (`Undone`) and no action gives such a batch events.
`JournalCoherent` closes the circle: every transition that moves a batch and its
children is legal for all of them or for none. `IInv` is the conjunction of
`TypeOK`, these durable facts and `Knows` of every request. The proof of
`IInv /\ [Next]_vars => IInv'` has a lemma per kind of step (steps that move the
journal, write, undo, finalize, enter, forward, look, and the environment). The
refinement uses the same invariant and the same kinds: a step changes the
outcome of at most one batch, and publishes exactly what was accepted.

For the leases, `Exclusion` says nothing of the files that make it true.
`LeaseInv` adds them: at each label a task has in hand exactly the stages its
label implies (`Shape`), every scope of a lease or of an acquisition has its data
file among the stages and the fence that is in the file (`Current`), and two
tasks with the same data file share it (`Alone`). The fair lock does not occur
in it: exclusion rests on the data files, and the fair lock and the turnstile
serve fairness only. The fence of a held scope stands still because who moves it
has the data file EXCLUSIVE. That the counters of the fair lock never fall below
zero needs `GateInv`: `readers` is the number of places, among the stages in hand
and those of each lease, where tasks of the process hold it SHARED, and `waiting`
the number of their coroutines that are parked or woken as writers. A release
moves the stages from a lease to the hand and leaves the places as they were; a
writer that gives up, and a process that dies, take their share of the counts
with them.

For the sync cycle, `SyncInv` says what a cursor stands for. As long as no id was
handed out twice, ids are the numbers of the writes and retention takes them
away from the old end only (`Ordered`); then a cursor stands for a prefix of the
published writes (`Reflects`), and it does so wherever one is kept: in a replica,
in a recovery half-way, in an answer under way, in a request that was given up
and may be served at any later time, in what a device has acknowledged and in
the waterline of a snapshot. A page of events extends a prefix because it ends
at its last row and leaves none out before (`PageIsPrefix`, by the cardinality of
the rows below). The floor is below what active devices have acknowledged and
below the waterlines (`Pinned`), so that a cursor at or above it misses nothing
that is gone. That a replica never goes back needs the order of the snapshots of
one device: an answer or a recovery of a later generation holds all that an
earlier one brought into the replica, and the server refuses the acknowledgement
or the page of another generation (`Replica`, `Fits`). The one exception is in the
properties themselves: a registration that was deleted starts its generations
again (`Continuous`). The server's steps enter the proof only through `Change`, which
says what any of them may do to the row of a device.

For the push, neither `AppliedOnce` nor `NoEditIsLost` speaks of what makes them
true. An operation takes effect once because requests never overlap: what was
sent, is about to be sent or was given up and may still be served is, for any two
requests, the same set of rows or has no operation in common (`Requests`). That
survives the recording of a new receipt only because the query has just said that
the server knows none of its operations (`Cycles`), and because every request that was given
up is the active receipt or has its batch. On the server
each event is of a carried-out batch or of another client, each applied child of
such a batch has its event (`Recorded`), and the events of a row are a history:
versions grow, nothing follows a deletion, and the row is what the last event says
(`History`). On the device, the copy of a row with edits shows the last of them
(`Shows`), and where a pull has passed an event later than the device's own, the
row is on record as out of date (`Skipped`); so a result that cleans a copy leaves
the server's row there, or one whose event is still to be pulled (`Current`, which
for a device that has pulled is `CleanIsCurrent`). What a conflict shows was the
server's row at some time (`Snapshots`), or `AcceptRemote` could put anything into
the copy. An entity that a row creates was never sent in another row
(`Sendings`): without it a creation that was dropped could come back as another
one. `PushInv` is the conjunction; its proof has a lemma per action, and two
lemmas about the lists: a finite set whose members differ in a number has a
listing in ascending order, and that listing has each member once. The edits that
interrupted batches lose are not excluded but named: `Phantom`.

For the offline session, the two databases have no common transaction, but the
fence of a Space lets one task at a time change the sessions, the outbox and the
marker there: what a task found under it is still so at its next step (`Tasks`,
`Fenced`). Only the claim reaches across Spaces, and it is one row of the meta
database (`OneBlocking`): a session that runs or is paused is one whose operation
blocks (`Born`), so there is one. `Sound` says of each session that rows and receipts
are of a session that was written (`Born`), that the compound waits for an answer only
under its operation and is admitted only when all rows are ready (`Authorised`),
which rows there can be (`Listed`), that a session whose creation a late note
replaced is never admitted (`Late`), and that of any other the compound is
there or committed and the clock rows that are not imported follow each other up to the
session's revision (`Whole`: `Created`, `Chained`). `AdmittedIsFrozen` holds because what is admitted
has ended and has all its rows: no command finds a session to change under the
fence, and no row is left to add. The admission counts the rows and compares the
number with that of the receipt, so that the proof counts them too: the rows of a
finite plan, one clock row a revision.

For the direct commands, an operation id stands for one request because whatever is
said under it repeats its intent, which is there before anything is sent and whose
request no step changes: a call past `"prepare"` (`Bound`), a request on its way, and
what the server has journaled (`Repeated`). That a terminal intent was accepted and a
failed one refused needs to know what a page knows that is about to install a result
or to mark a failure (`Known`); it is stable because the server decides an operation
once. It is for this that an exception and a "no" must be told apart on the way to the
mark: a round that took silence for a no would break it. `DraftsAreKept` and
`ResultsStay` are action properties of the same invariant; the one step that clears a
draft compares it again in the transaction that installs the result (`Installable`).

For the reviews, what a session has frozen is a past of its tasks (`FrozenIsPast`): every
edit and transition of a task gives it another version, so that a task with the frozen
version is the frozen task. A review is compiled only where they agree, and although its
commit compares no task, the version in its envelopes is the frozen one, which no longer
changes: a session that is reviewed has ended, and an ended session freezes nothing
(`EnvelopesHold`). Hence `CommandsActOnFrozenTasks`: a transition compares the version of
the envelope again when it commits, and so does the recovery that commits it for a
request that died. One that is taken back makes the task the frozen one again, because the
row under a committed batch cannot have changed: whatever edits it begins with the recovery
of that batch or finds another version (`BeforeHolds`: the row written over is one of the
past of the task, and the frozen one where the session froze the task). That the effort moves the version of the level-2 item too is no
matter, because no envelope names it. `ReceiptsAreTrue` needs to know what a
request is about to record and what it is about to write (`CallsHold`): at each of these
steps it is what the journal says of the command's own operation, and that is final once
it is an outcome (`Steady`). It is for this that a timeout is recorded as `unknown`.

For the active session, `RunningUnderLocator` says nothing of the handlers that make it so.
What a handler has compiled is still so when it commits because it holds the lease of
the Space and all that write its sessions take it (`Compiled`). The locator is under no
lease. It stays with a session that a handler is about to start, to end, to release or to let
win (`Relies`, `UnderLocator`), because each step that takes a locator away needs what cannot be:
a start and an activation want none, a resolution wants that of an activation, under which no
handler gets that far, and a release comes after the end of its session, which the others still
find not to have ended; nor do two handlers get to the release (`OneReleases`), because the end of
a session that has ended does not compile. A touch changes the operation in the locator, not its
session. While an activation has the locator, nobody runs (`NobodyRuns`). Of the children the invariant says what the
journal has of them at each step (`OfChild`, `OfPhase`: the second child is run after the
receipt of the first, a phase moves after both) and what they have done: a marked session is in
conflict as long as its activation has the locator (`MarkedStay`), a loser stays
ended because nothing takes a session from ended back (`LosersEnded`). `CleanVerdicts` then compares
the verdict, question by question, with what the invariant says.

The effort of a work item is not just the number of sessions that count (`Counted` says that
it is a number): between two recomputations it may exceed that by the ended sessions that were
marked (`Withheld`). `EffortInv` holds this for every item, so that the proof has three lemmas: a
recomputation makes the items it affects exact and none of the others has to do with the session
(`Recounted`); a step that says nothing of an item leaves its sets alone (`NotRecounted`);
a mark takes a session out of those that count and puts it among those withheld (`MarkKeeps`).
The commit needs of `CoordinatorInv` that the row is as it was when it was compiled: `Start` over
a session that counts would lose it.

For the Task Space, what a command in flight writes is right as long as the command
`Stands`: the row it replaces is, but for the fields, labels or blocks the command
is about, the row that there is; the name it takes is free, the item it creates
does not exist, the number it draws is the counter's; and if no item was placed
and no edge drawn since, the parent fits and the edge closes no cycle. `SpaceInv`
says that the rows are sound (`Sound`) and that every command that is not `lost`
stands. A commit takes this from no other command unless it writes one of the rows
that one compares (`FlyingOn`), and then the other is lost; this is what the
comparison in `DbMutationInterpreter.apply` is worth, and why the tree and the
dependencies, which are read and not written, have no such guarantee. The event of
an item carries its labels, which an edit of the item reads and does not write; but
a command that writes the labels writes the row too, with a new version
(`LabelRows`, `Considerate`), and so the two lose to each other. `Landing` says that what stands keeps the rows sound: numbers
are unique because the counter stays ahead (`Counted`) and is written with the
item, names because the index has each once (`Indexed`), three levels are not
exceeded because an item is placed with its whole subtree in view or is `blind`
(`FittingIsShallow`), and the checked edges stay acyclic because a set in which
each item waits for another would be a cycle for the detector (`DrawnIsAcyclic`).
`LabelledExist` is there because an item is created without labels, and its
event says so.

For the cutover, `CutoverInv` says at each label of the tool which fences it holds
(`Control`, `Fenced`): the owner lease and the global lease EXCLUSIVE, under which
no server runs, no request mutates and no snapshot copies. `CurrentDataExists` by
itself says nothing of the other root. `Rescue` adds that before the renames the
rollback path of the cutover is free (so that moving the active root there
destroys nothing), and that until they are taken back it holds what was active,
as `vouched` has it, while some rollback root holds what users last saw.
`Harmless` says the same of the active root and of this very rollback path as long
as nobody has died and one step at most has failed. A snapshot is whole because what its copier has already copied is still the
active root's while it holds the lease (`Sound`). Retention holds no lease: the
names it means to remove are older than `Keep` verified ones when it looks, and
snapshots that are published later are newer (`Spared`).

For the durable files, what a power loss leaves of a stage under publication is a
function of how far the calls have come: `Standing` says for each name and file, at each
place of `Publication`, what it is and what it may be, and `PublishInv` that the stage is
just that; the lemmas about the single calls are computations with it. At the end nothing
is left to chance, which is why STAGED may be written. `StageInv` carries this through
everything else: as long as nobody has begun to remove it, a stage that stands under the
name of its operation, or may do so, has all it should durably; and one whose batch is
STAGED stands there durably, because a collection removes only what is settled
(`RemoveInv`) and a power loss takes only what was left to chance. `NoteInv` and
`FenceInv` say that a temporary file is flushed when it takes its place, and the fence that
is handed out is the only one that may be there.

For the knowledge of a Space, a command is what it writes: rows of the right kind
(`Writable`), each in a place that exists or where it was (`LocationsStayKnown`). A set of
folders that holds the parent of each of its members after a move would contain the walk up
from the new parent, and so the folder itself, or a walk without an end; both are what
`NoCycle` refuses, and a move whose parent stays adds no edge. A soft delete misses
nothing that is active under it because from an active folder the walk down goes on
(`DescentGoesDown`), so that what it leaves active is not in what it trashes. The derived
stores are a function of the rows (`Shown`): a note's old file is where the index has it,
and two notes never share a path, which has the note's identity in it. What a purge leaves
behind is not excluded but named (`Strays`).

**Only model-checked**: `RowsFollowLedger` and `ProjectionsFollowRows` (they hold
under EXCLUSIVE leases and for the instance's kinds); all liveness
(`RecoveryConverges`, `CatchUp`, `Drains`, `ResolutionCompletes`, `EditsSettle`,
`IntentsSettle`, `EverybodyIsAnswered`: out of the prover's reach); and
everything about the runtime. `TypeOK` of its modules and `CoordinatorTypeOK` state what the
variables are; of the others `TypeOK` is proved, and so is `JournalCoherent`, which no run
checks any more.

## Not modelled

* The result hook that amends a receipt after FINALIZED, receipts' contents, and
  what a request answers to its client.
* The two version-backup steps of a note content update
  (`knowledge/projections.py:382-425`): they add a file and two index rows after
  the steps modelled.
* Pulls restricted to a scope, changes of the entity catalog between a cursor
  and its use, and the byte budget of a page, which only makes pages shorter.
* Of the push: work-item notes that wait for S4, the direct
  retry of a note, units of more than 500 rows, full recovery over edited rows,
  tabs without Web Locks.
* Of the direct commands: creations, which name no version, the rows a result carries,
  and what a page shows of a failure.
* Of the provisional session: whether imports arrive in the end, the winner of a resolved
  conflict (no code writes the receipt it wants), a server that refuses a compound or a
  clock row, the client's copy of the locator.
* Of the leases: the resources of a Space whose cleanup delays a release
  (`retain_cleanup_dependency`).
* Of the durable files: the creation of the directory that has a fence file, which is
  long there in the model; file systems that promise more than fsync does, or less; the
  forms of the same calls on Windows; other files of a batch than one note.
* Of the knowledge: text search and its tables, contents, comments, colours and orders;
  the trash of the file-system engine from before the durable path, which finds nothing left
  to do after a batch; several edits of one push in one batch (module `SpaceMutation`).
* Of backup: relocation of a data root, what a verification reads of the files,
  a crash inside the publication of a proof.
* Of the reviews and direct commands: a recovery that needs a human (`FAILED_MANUAL`), the
  interrupted commit of a batch that carries no transition, and, in `DirectCommands`, a
  batch that recovery aborted and a retry is answered as applied from.
* Of the focus session: breaks and notes (they change none of the fields kept), the
  times a session carries, the ranks of a plan, several commands in one
  reconciliation, the cancellation of a single request (a crash loses all), and a
  crash inside the journal of a child (module `SpaceMutation`).
* Of the Task Space: ranks, timestamps, the planning fields, colours, the queries,
  several commands in one batch (module `SpaceMutation`), and a pushed update that
  changes the ends of a relation.
* Of the runtime: health and read-only observation, which bind without a lease; the
  eviction of engines of legacy sessions; the lock that keeps a second process out
  (`Leases`); a shutdown that is cancelled itself; descriptors, WAL files and the
  system calls below the SQLite authority.
* The components "not_modelled" in `PROJECT.json`, each with its reason.

## Plan

In this order; each item is a module with its runs and, where it says so, proofs.

1. Proofs about the runtime (`HandlesAreSound`, `StoresSurvive`, `ReadyMeansWhole`), each with
   its inductive invariant.
2. The queries of the Task Space.
3. Extensions of the modules above: version backups in `ProjectionStore`;
   `RowsFollowLedger` under EXCLUSIVE leases as a theorem.
