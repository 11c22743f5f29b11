--------------------------- MODULE SpaceMutation ---------------------------
(***************************************************************************)
(* The mutation core of one Space: the unit of work that carries a batch   *)
(* of entity commands through the journal (mutation/unit_of_work.py,       *)
(* journal.py, staging.py) and the recovery that every request runs first  *)
(* (mutation/recovery.py).  The durable state is the journal, the staged   *)
(* images, the business rows with their tombstones and sync ledger, and    *)
(* the derived stores of ProjectionStore.  Each action is one transaction  *)
(* or one file-system operation: what happens between two awaits.          *)
(*                                                                         *)
(* A request runs under the Space lease it was opened with.  Sync push     *)
(* holds it EXCLUSIVE; a REST handler reuses the SHARED lease of its read  *)
(* handle (runtime/space.py, mutation_lease), so its steps interleave with *)
(* those of other requests.                                                *)
(***************************************************************************)
EXTENDS ProjectionStore, FiniteSets

CONSTANTS
    Procs,      \* concurrent requests
    Request,    \* Request[<<b, i>>]: the i-th command of batch b
    Existing,   \* Existing[e]: the title of an entity that exists at first
    Modes,      \* the lease modes under which requests mutate
    MaxFaults,  \* bound on crashes, cancellations and I/O errors
    MaxLost     \* bound on staged image sets that bit rot destroys

Ops     == DOMAIN Request
Batches == {o[1] : o \in Ops}
Acts    == {"create", "update", "delete"}

ASSUME RequestAssumption ==
    /\ Ops \subseteq (Nat \ {0}) \X Nat
    /\ IsFiniteSet(Ops)
    /\ Request \in [Ops -> [ent : Entities, act : Acts, title : Titles,
                            blind : BOOLEAN]]

ASSUME InstanceAssumption ==
    /\ DOMAIN Existing \subseteq Entities
    /\ Existing \in [DOMAIN Existing -> Titles]
    /\ Modes \subseteq {"SHARED", "EXCLUSIVE"}
    /\ MaxFaults \in Nat /\ MaxLost \in Nat

(* Journal states (mutation/types.py); "NONE" is the absence of the row.   *)
States == {"NONE", "INTENT", "STAGED", "DB_COMMITTED", "FINALIZING",
           "FORWARD_APPLIED", "FINALIZED", "ABORTED", "COMPENSATING",
           "COMPENSATED", "FAILED_MANUAL"}

Terminal == {"FINALIZED", "ABORTED", "COMPENSATED"}

LEGAL_TRANSITIONS ==
    [s \in States |->
        CASE s = "INTENT"          -> {"STAGED", "ABORTED"}
          [] s = "STAGED"          -> {"DB_COMMITTED", "ABORTED"}
          [] s = "DB_COMMITTED"    -> {"FINALIZING", "COMPENSATING", "FAILED_MANUAL"}
          [] s = "FINALIZING"      -> {"FORWARD_APPLIED", "COMPENSATING", "FAILED_MANUAL"}
          [] s = "FORWARD_APPLIED" -> {"FINALIZED", "COMPENSATING", "FAILED_MANUAL"}
          [] s = "COMPENSATING"    -> {"COMPENSATED", "FAILED_MANUAL"}
          [] OTHER                 -> {}]

StepStates == {"PENDING", "APPLIED", "COMPENSATED"}
Ordinals   == 1..4   \* a note update has at most four projection steps

Sides == {"before", "after"}

(* A row carries its version and the operation that wrote it. *)
NoRow   == [ver |-> 0, by |-> InitBody]
NoEvent == [seq |-> 0, visible |-> FALSE, wire |-> "raw"]
NoPlan  == [before |-> NoRow, after |-> NoRow, expected |-> 0, steps |-> << >>]

VARIABLES
    batch,     \* batch[b]: journal state of a batch
    op,        \* op[o]: journal state of a child operation
    plan,      \* plan[o]: the persisted command
    step,      \* step[o]: durable states of its projection steps
    stage,     \* stage[o]: "none", "temp" or "published"
    lost,      \* staged image sets that can no longer be read back
    row,       \* row[e]: the business row
    tomb,      \* tomb[e]: delete sequence of the tombstone, 0 if there is none
    outbox,    \* outbox[o]: the sync ledger event of o, seq 0 if there is none
    fs,        \* the derived stores
    degraded,  \* the runtime refuses to open the Space
    pc, loc,   \* the request's program counter and local variables
    faults     \* crashes and errors so far

journal == <<batch, op, plan, step>>
stages  == <<stage, lost>>
stores  == <<row, tomb, outbox, fs>>
control == <<pc, loc>>
vars    == <<journal, stages, stores, degraded, control, faults>>

(***************************************************************************)
(* Local variables of a request: its batch (0: it only recovers), its      *)
(* lease, what recovery has read of the journal, the children it still has *)
(* to visit, and the commands it has compiled against an overlay of the    *)
(* rows, tombstones and stores that it keeps up to date itself.            *)
(***************************************************************************)
NoOverlay == [row |-> [e \in Entities |-> NoRow], dead |-> {},
              fs |-> [x \in Targets |-> NoContent]]

Blank == [job   |-> 0, mode |-> "SHARED", live |-> {}, queue |-> {},
          snap  |-> [b \in Batches |-> "NONE"], rb |-> 0, st |-> "NONE",
          ops   |-> [o \in Ops |-> "NONE"],
          steps |-> [o \in Ops |-> [k \in Ordinals |-> "PENDING"]],
          todo  |-> {}, k |-> 1, cmd |-> [o \in Ops |-> NoPlan],
          accepted |-> {}, over |-> NoOverlay]

Forward == {"forward", "fstep", "fmark", "transition"}
Backward == {"compload", "compset", "cstep", "cmark", "cdb", "cdone", "ccollect"}
Labels  == {"idle", "scan", "rescan", "orphans", "load", "abort", "markstaged",
            "reload", "apply", "ledger", "finalizing", "finalize", "manual",
            "compile", "snapshot", "command", "reject", "intent", "temp", "rename", "commit",
            "lapply", "lmark"} \cup Forward \cup Backward

InitRow(e) == IF e \in DOMAIN Existing THEN [ver |-> 1, by |-> InitBody] ELSE NoRow

(* The projections of an entity that exists from the start. *)
InitContent(e, x) ==
    IF /\ e \in DOMAIN Existing
       /\ \/ Kind[e] = "note" /\ x \in {Existing[e], "index", "fts"}
          \/ Kind[e] = "folder" /\ x = "index"
    THEN Image(Existing[e], InitBody)
    ELSE NoContent

Init ==
    /\ batch = [b \in Batches |-> "NONE"]
    /\ op = [o \in Ops |-> "NONE"]
    /\ plan = [o \in Ops |-> NoPlan]
    /\ step = [o \in Ops |-> [k \in Ordinals |-> "PENDING"]]
    /\ stage = [o \in Ops |-> "none"]
    /\ lost = {}
    /\ row = [e \in Entities |-> InitRow(e)]
    /\ tomb = [e \in Entities |-> 0]
    /\ outbox = [o \in Ops |-> NoEvent]
    /\ fs = [x \in Targets |-> InitContent(x[1], x[2])]
    /\ degraded = FALSE
    /\ pc = [p \in Procs |-> "idle"]
    /\ loc = [p \in Procs |-> Blank]
    /\ faults = 0

----------------------------------------------------------------------------
(* Helpers *)

Ent(o)      == Request[o].ent
OpsOf(b)    == {o \in Ops : o[1] = b}
Children(b) == {o \in OpsOf(b) : op[o] # "NONE"}

LiveOps     == {o \in Ops : op[o] \notin Terminal \cup {"NONE"}}
Clean       == \A b \in Batches : batch[b] \in Terminal \cup {"NONE"}

(* The batch a request is working on: its own, or the one it recovers. *)
Cur(p)     == IF loc[p].rb = 0 THEN loc[p].job ELSE loc[p].rb
IsLive(p)  == loc[p].rb = 0

IsFirst(o, S) == \A x \in S : o[2] <= x[2]
IsLast(o, S)  == \A x \in S : x[2] <= o[2]

Goto(p, label)    == pc' = [pc EXCEPT ![p] = label]
Jump(p, label, l) == Goto(p, label) /\ loc' = [loc EXCEPT ![p] = l]

(* The request ends, normally or with an exception, and drops its lease. *)
Exit(p) == Jump(p, "idle", Blank)

(* The batches recovery has still to visit, in order of their identity;    *)
(* after the last one the request goes on to its own command.              *)
NextBatch(p) ==
    LET l == loc[p]
    IN  IF l.queue = {}
        THEN IF l.job = 0
             THEN Exit(p)
             ELSE Jump(p, "compile", [Blank EXCEPT !.job = l.job, !.mode = l.mode])
        ELSE \E b \in l.queue :
               /\ \A x \in l.queue : b <= x
               /\ Jump(p, "load",
                       [Blank EXCEPT !.job = l.job, !.mode = l.mode, !.rb = b,
                                     !.st = l.snap[b], !.snap = l.snap,
                                     !.queue = l.queue \ {b}])

(* StagingArea.verify: the published stage can be read back completely. *)
Unreadable(o, side, k) ==
    <<o, side>> \in lost /\ SideImage(plan[o].steps[k], side) # NoContent

Verified(o) ==
    /\ stage[o] = "published"
    /\ \A side \in Sides : \A k \in DOMAIN plan[o].steps : ~Unreadable(o, side, k)

(* materialize_side and the contained action it yields do not raise. *)
Available(o, side, k) ==
    /\ stage[o] = "published"
    /\ ~Unreadable(o, side, k)
    /\ CanApply(fs, plan[o].steps[k], side)

----------------------------------------------------------------------------
(* Requests *)

(* A read handle is opened only on a clean Space; a request that finds it  *)
(* unclean first recovers it under an EXCLUSIVE lease (b = 0).             *)
MayHold(p, m) ==
    /\ m = "EXCLUSIVE" => \A q \in Procs : pc[q] = "idle"
    /\ m = "SHARED" => \A q \in Procs : pc[q] # "idle" => loc[q].mode = "SHARED"

Begin(p, b, m) ==
    /\ pc[p] = "idle" /\ ~degraded
    /\ MayHold(p, m)
    /\ b = 0 => m = "EXCLUSIVE" /\ ~Clean
    /\ b # 0 => m \in Modes /\ (m = "SHARED" => Clean)
    /\ Jump(p, "scan", [Blank EXCEPT !.job = b, !.mode = m])
    /\ UNCHANGED <<journal, stages, stores, degraded, faults>>

----------------------------------------------------------------------------
(* Recovery *)

(* _degrade_space asserts an EXCLUSIVE lease and raises under a SHARED one. *)
Degrade(p) == degraded' = (degraded \/ loc[p].mode = "EXCLUSIVE")

(* The three reads recover_under_lease starts with. *)
Scan(p) ==
    /\ pc[p] = "scan"
    /\ \/ /\ \E b \in Batches : batch[b] = "FAILED_MANUAL"
          /\ Degrade(p)
          /\ Exit(p)
       \/ /\ \A b \in Batches : batch[b] # "FAILED_MANUAL"
          /\ Jump(p, "orphans",
                  [loc[p] EXCEPT !.live = LiveOps, !.snap = batch,
                     !.queue = {b \in Batches : batch[b] \notin Terminal \cup {"NONE"}}])
          /\ UNCHANGED degraded
    /\ UNCHANGED <<journal, stages, stores, faults>>

(* collect_orphans verifies a published stage before it removes it. *)
CollectOrphans(p) ==
    /\ pc[p] = "orphans"
    /\ \/ /\ \E o \in Ops \ loc[p].live : stage[o] = "published" /\ ~Verified(o)
          /\ Exit(p)
          /\ UNCHANGED stage
       \/ /\ \A o \in Ops \ loc[p].live : stage[o] = "published" => Verified(o)
          /\ stage' = [o \in Ops |-> IF o \in loc[p].live THEN stage[o] ELSE "none"]
          /\ NextBatch(p)
    /\ UNCHANGED <<journal, lost, stores, degraded, faults>>

(* _load_operations, with the states of the children and of their steps. *)
Loaded(p) ==
    [loc[p] EXCEPT !.ops = [o \in Ops |-> IF o \in Children(loc[p].rb)
                                          THEN op[o] ELSE "NONE"],
                   !.steps = [o \in Ops |-> IF o \in Children(loc[p].rb)
                                            THEN step[o]
                                            ELSE [k \in Ordinals |-> "PENDING"]],
                   !.todo = Children(loc[p].rb), !.k = 1]

(* The first half of _recover_batch: dispatch on the state that Scan read. *)
Load(p) ==
    /\ pc[p] = "load"
    /\ LET staged == \A o \in Children(loc[p].rb) : Verified(o)
           st     == loc[p].st
       IN  Jump(p, CASE st \in {"INTENT", "STAGED"} /\ ~staged -> "abort"
                     [] st = "INTENT" /\ staged        -> "markstaged"
                     [] st = "STAGED" /\ staged        -> "apply"
                     [] st = "DB_COMMITTED"            -> "ledger"
                     [] st = "COMPENSATING"            -> "compload"
                     [] OTHER                          -> "forward",
                Loaded(p))
    /\ UNCHANGED <<journal, stages, stores, degraded, faults>>

(* Faulty variant: not idempotent, so a resumed recovery is refused.       *)
CanSetOnlyOnce(b, target) ==
    /\ target \in LEGAL_TRANSITIONS[batch[b]]
    /\ \A o \in Children(b) : target \in LEGAL_TRANSITIONS[op[o]]

(* _set_batch_state: legal for the batch and for every child, or it raises; *)
(* what is already in the target state counts as legal.                     *)
CanSet(b, target) ==
    /\ batch[b] = target \/ target \in LEGAL_TRANSITIONS[batch[b]]
    /\ \A o \in Children(b) : op[o] = target \/ target \in LEGAL_TRANSITIONS[op[o]]

(* A journal transaction that moves a batch and all its children to s. *)
MoveAll(b, s) ==
    /\ batch' = [batch EXCEPT ![b] = s]
    /\ op' = [o \in Ops |-> IF o \in Children(b) THEN s ELSE op[o]]
    /\ UNCHANGED <<plan, step>>

AbortBatch(p) ==
    /\ pc[p] = "abort"
    /\ \/ /\ CanSet(loc[p].rb, "ABORTED")
          /\ MoveAll(loc[p].rb, "ABORTED")
          /\ Goto(p, "rescan") /\ UNCHANGED loc
       \/ /\ ~CanSet(loc[p].rb, "ABORTED")
          /\ Exit(p)
          /\ UNCHANGED journal
    /\ UNCHANGED <<stages, stores, degraded, faults>>

(* _collect_terminal_stages reads the live children afresh. *)
Rescan(p) ==
    /\ pc[p] = "rescan"
    /\ Jump(p, "orphans", [loc[p] EXCEPT !.live = LiveOps])
    /\ UNCHANGED <<journal, stages, stores, degraded, faults>>

(* The stages of a batch just marked STAGED must all be readable. *)
Reload(p) ==
    /\ pc[p] = "reload"
    /\ Jump(p, IF \A o \in Children(loc[p].rb) : Verified(o) THEN "apply" ELSE "manual",
            Loaded(p))
    /\ UNCHANGED <<journal, stages, stores, degraded, faults>>

About(S, e) == {o \in S : Ent(o) = e}

(* Faulty variant: takes the plan for its after image.                     *)
RowAfterAsPlan(S, e) ==
    LET last == {o \in About(S, e) : IsLast(o, About(S, e))}
    IN  IF last = {} THEN row[e] ELSE plan[CHOOSE o \in last : TRUE]

(* The row of e after some commands of a batch, applied in their order.    *)
RowAfter(S, e) ==
    LET last == {o \in About(S, e) : IsLast(o, About(S, e))}
    IN  IF last = {} THEN row[e] ELSE plan[CHOOSE o \in last : TRUE].after

(* DbMutationInterpreter.apply accepts the plan: commands of a batch build *)
(* on those before them.                                                   *)
RowAdmits(o) ==
    LET current == RowAfter({x \in Children(o[1]) : x[2] < o[2]}, Ent(o))
    IN  IF Request[o].act = "create"
        THEN current = NoRow
        ELSE /\ current # NoRow
             /\ plan[o].expected # 0 => current.ver = plan[o].expected

ApplyRows(b) == row' = [e \in Entities |-> RowAfter(Children(b), e)]

(* The deletes of e in b; there is at most one. *)
DeletesOf(b, e) == {o \in About(Children(b), e) : Request[o].act = "delete"}

(* The ledger stores JSON fields decoded; replay writes them as they are.  *)
Wire(o, decode) ==
    IF decode /\ Kind[Ent(o)] = "json" /\ Request[o].act # "delete"
    THEN "decoded" ELSE "raw"

(* The table has no AUTOINCREMENT: the next id follows the largest one.    *)
LastSeq ==
    IF \E o \in Ops : \A x \in Ops : outbox[x].seq <= outbox[o].seq
    THEN outbox[CHOOSE o \in Ops : \A x \in Ops : outbox[x].seq <= outbox[o].seq].seq
    ELSE 0

NextSeq(b, o) == LastSeq + Cardinality({x \in Children(b) : x[2] <= o[2]})

(* Faulty variant: a delete is not recorded.                               *)
RecordEventsOfRows(b, decode) ==
    outbox' = [o \in Ops |->
                 IF o \in Children(b) /\ Request[o].act # "delete"
                 THEN [seq |-> NextSeq(b, o), visible |-> FALSE, wire |-> Wire(o, decode)]
                 ELSE outbox[o]]

RecordEvents(b, decode) ==
    outbox' = [o \in Ops |->
                 IF o \in Children(b)
                 THEN [seq |-> NextSeq(b, o), visible |-> FALSE, wire |-> Wire(o, decode)]
                 ELSE outbox[o]]

(* What transition_in_transaction demands of the batch and every child. *)
AllIn(b, s) == batch[b] = s /\ \A o \in Children(b) : op[o] = s

(* How _apply_business takes one child: a loaded state other than STAGED,  *)
(* a visible event or a foreign ledger row is unprovable; a row that does  *)
(* not admit the plan raises.                                              *)
ReplayVerdict(p, o) ==
    CASE loc[p].ops[o] # "STAGED"                            -> "unprovable"
      [] loc[p].ops[o] = "STAGED" /\ ~RowAdmits(o)           -> "raise"
      [] loc[p].ops[o] = "STAGED" /\ RowAdmits(o)
           /\ outbox[o].seq # 0
           /\ (outbox[o].visible \/ outbox[o].wire # Wire(o, FALSE)) -> "unprovable"
      [] OTHER                                               -> "ok"

(* _apply_business: the first child that is refused decides.  Unlike the   *)
(* live commit it writes no tombstone.                                     *)
ReplayBusiness(p) ==
    /\ pc[p] = "apply"
    /\ LET b == loc[p].rb
           refused == {o \in Children(b) : ReplayVerdict(p, o) # "ok"}
       IN  \/ /\ \E o \in refused : IsFirst(o, refused) /\ ReplayVerdict(p, o) = "unprovable"
              /\ Goto(p, "manual") /\ UNCHANGED <<journal, row, outbox, loc>>
           \/ /\ \/ \E o \in refused : IsFirst(o, refused) /\ ReplayVerdict(p, o) = "raise"
                 \/ refused = {} /\ ~AllIn(b, "STAGED")
              /\ Exit(p) /\ UNCHANGED <<journal, row, outbox>>
           \/ /\ refused = {} /\ AllIn(b, "STAGED")
              /\ ApplyRows(b)
              /\ RecordEvents(b, FALSE)
              /\ MoveAll(b, "DB_COMMITTED")
              /\ Goto(p, "ledger") /\ UNCHANGED loc
    /\ UNCHANGED <<tomb, fs, stages, degraded, faults>>

(* _assert_invisible_ledger *)
AssertLedger(p) ==
    /\ pc[p] = "ledger"
    /\ Goto(p, IF \E o \in Children(loc[p].rb) :
                     /\ outbox[o].seq # 0 /\ ~outbox[o].visible
                     /\ outbox[o].wire # Wire(o, FALSE)
               THEN "manual" ELSE "finalizing")
    /\ UNCHANGED <<journal, stages, stores, degraded, loc, faults>>

(***************************************************************************)
(* _finish_forward runs twice: once to finish the steps of a FINALIZING    *)
(* batch and once more to verify it.  Only in the first run is a failure   *)
(* answered by compensation.                                               *)
(***************************************************************************)
ForwardFails(p) ==
    IF ~IsLive(p) /\ loc[p].st # "FORWARD_APPLIED"
    THEN Goto(p, "compload") /\ UNCHANGED loc
    ELSE Exit(p)

StartForward(p) ==
    /\ pc[p] = "forward"
    /\ Jump(p, "fstep",
            [Loaded(p) EXCEPT !.st = IF @ = "FORWARD_APPLIED" THEN @ ELSE "FINALIZING"])
    /\ UNCHANGED <<journal, stages, stores, degraded, faults>>

NextChild(p, o) == loc' = [loc EXCEPT ![p].todo = @ \ {o}, ![p].k = 1]

(* All children are done: verify them again, or finalize the batch. *)
EndForward(p) ==
    /\ pc[p] = "fstep" /\ loc[p].todo = {}
    /\ IF loc[p].st = "FORWARD_APPLIED"
       THEN Goto(p, "finalize") /\ UNCHANGED loc
       ELSE Jump(p, "forward", [loc[p] EXCEPT !.st = "FORWARD_APPLIED"])
    /\ UNCHANGED <<journal, stages, stores, degraded, faults>>

(* A child loaded FORWARD_APPLIED is only checked against its evidence. *)
VerifyChild(p, o) ==
    /\ pc[p] = "fstep" /\ o \in loc[p].todo /\ IsFirst(o, loc[p].todo)
    /\ loc[p].ops[o] # "FINALIZING"
    /\ IF /\ loc[p].ops[o] = "FORWARD_APPLIED"
          /\ \A k \in DOMAIN plan[o].steps :
               /\ loc[p].steps[o][k] = "APPLIED"
               /\ DescriptorState(fs, plan[o].steps[k]) = "after"
       THEN NextChild(p, o) /\ UNCHANGED pc
       ELSE Goto(p, "manual") /\ UNCHANGED loc
    /\ UNCHANGED <<journal, stages, stores, degraded, faults>>

(* One step of _finish_projection_steps, up to its durable receipt. *)
FinishStep(p, o, k) ==
    /\ pc[p] = "fstep" /\ o \in loc[p].todo /\ IsFirst(o, loc[p].todo)
    /\ loc[p].ops[o] = "FINALIZING"
    /\ k = loc[p].k /\ k \in DOMAIN plan[o].steps
    /\ LET d     == plan[o].steps[k]
           state == DescriptorState(fs, d)
           mine  == loc[p].steps[o][k]
       IN  \/ /\ mine = "APPLIED" /\ state = "after"
              /\ loc' = [loc EXCEPT ![p].k = k + 1] /\ UNCHANGED <<pc, fs>>
           \/ /\ mine = "PENDING" /\ state = "after"
              /\ Goto(p, "fmark") /\ UNCHANGED <<loc, fs>>
           \/ /\ mine = "PENDING" /\ state = "before" /\ Available(o, "after", k)
              /\ fs' = ApplyStep(fs, d, "after")
              /\ Goto(p, IF DescriptorState(fs', d) = "after" THEN "fmark" ELSE "manual")
              /\ UNCHANGED loc
           \/ /\ mine = "PENDING" /\ state = "before" /\ ~Available(o, "after", k)
              /\ ForwardFails(p) /\ UNCHANGED fs
           \/ /\ \/ mine = "COMPENSATED"
                 \/ mine = "APPLIED" /\ state # "after"
                 \/ mine = "PENDING" /\ state = "neither"
              /\ Goto(p, "manual") /\ UNCHANGED <<loc, fs>>
    /\ UNCHANGED <<journal, stages, row, tomb, outbox, degraded, faults>>

EndChild(p, o) ==
    /\ pc[p] = "fstep" /\ o \in loc[p].todo /\ IsFirst(o, loc[p].todo)
    /\ loc[p].ops[o] = "FINALIZING" /\ loc[p].k \notin DOMAIN plan[o].steps
    /\ Goto(p, "transition")
    /\ UNCHANGED <<journal, stages, stores, degraded, loc, faults>>

(* _mark_step overwrites the durable step state whatever it was. *)
MarkStep(p, o, k) ==
    /\ pc[p] = "fmark" /\ o \in loc[p].todo /\ IsFirst(o, loc[p].todo)
    /\ k = loc[p].k
    /\ step' = [step EXCEPT ![o][k] = "APPLIED"]
    /\ Jump(p, "fstep", [loc[p] EXCEPT !.k = k + 1])
    /\ UNCHANGED <<batch, op, plan, stages, stores, degraded, faults>>

(***************************************************************************)
(* _compensate: undo the steps of all children in reverse order, then the  *)
(* rows, the tombstones and the ledger in one transaction.  If it was      *)
(* entered because the forward run failed, its own failure is unprovable;  *)
(* resumed from the journal, it just raises.                               *)
(***************************************************************************)
InverseFails(p) ==
    IF loc[p].st = "COMPENSATING"
    THEN Exit(p)
    ELSE Goto(p, "manual") /\ UNCHANGED loc

LoadInverse(p) ==
    /\ pc[p] = "compload"
    /\ Jump(p, IF \E o \in OpsOf(loc[p].rb) : outbox[o].visible THEN "manual" ELSE "compset",
            Loaded(p))
    /\ UNCHANGED <<journal, stages, stores, degraded, faults>>

StartInverse(p) ==
    /\ pc[p] = "compset"
    /\ \/ /\ CanSet(loc[p].rb, "COMPENSATING")
          /\ MoveAll(loc[p].rb, "COMPENSATING")
          /\ Goto(p, "cstep") /\ UNCHANGED loc
       \/ /\ ~CanSet(loc[p].rb, "COMPENSATING")
          /\ InverseFails(p) /\ UNCHANGED journal
    /\ UNCHANGED <<stages, stores, degraded, faults>>

(* The ordinal that the inverse run visits as its k-th. *)
Inverted(o, k) == Len(plan[o].steps) + 1 - k

UndoStep(p, o, k) ==
    /\ pc[p] = "cstep" /\ o \in loc[p].todo /\ IsLast(o, loc[p].todo)
    /\ loc[p].k \in DOMAIN plan[o].steps /\ k = Inverted(o, loc[p].k)
    /\ LET d     == plan[o].steps[k]
           state == DescriptorState(fs, d)
           mine  == loc[p].steps[o][k]
       IN  \/ /\ mine = "COMPENSATED" /\ state = "before"
              /\ loc' = [loc EXCEPT ![p].k = @ + 1] /\ UNCHANGED <<pc, fs>>
           \/ /\ mine # "COMPENSATED" /\ state = "before"
              /\ Goto(p, "cmark") /\ UNCHANGED <<loc, fs>>
           \/ /\ mine # "COMPENSATED" /\ state = "after" /\ Available(o, "before", k)
              /\ fs' = ApplyStep(fs, d, "before")
              /\ Goto(p, IF DescriptorState(fs', d) = "before" THEN "cmark" ELSE "manual")
              /\ UNCHANGED loc
           \/ /\ mine # "COMPENSATED" /\ state = "after" /\ ~Available(o, "before", k)
              /\ InverseFails(p) /\ UNCHANGED fs
           \/ /\ \/ mine = "COMPENSATED" /\ state # "before"
                 \/ mine # "COMPENSATED" /\ state = "neither"
              /\ Goto(p, "manual") /\ UNCHANGED <<loc, fs>>
    /\ UNCHANGED <<journal, stages, row, tomb, outbox, degraded, faults>>

MarkUndone(p, o, k) ==
    /\ pc[p] = "cmark" /\ o \in loc[p].todo /\ IsLast(o, loc[p].todo)
    /\ k = Inverted(o, loc[p].k)
    /\ step' = [step EXCEPT ![o][k] = "COMPENSATED"]
    /\ Jump(p, "cstep", [loc[p] EXCEPT !.k = @ + 1])
    /\ UNCHANGED <<batch, op, plan, stages, stores, degraded, faults>>

EndUndo(p) ==
    /\ pc[p] = "cstep"
    /\ \/ /\ loc[p].todo = {}
          /\ Goto(p, "cdb") /\ UNCHANGED loc
       \/ \E o \in loc[p].todo :
            /\ IsLast(o, loc[p].todo) /\ loc[p].k \notin DOMAIN plan[o].steps
            /\ NextChild(p, o) /\ UNCHANGED pc
    /\ UNCHANGED <<journal, stages, stores, degraded, faults>>

(* Faulty variant: leaves the after images.                                *)
RestoreNoRow(b)   == UNCHANGED row

(* restore_before, in reverse order: the first command's before image.     *)
RestoreRows(b) ==
    row' = [e \in Entities |->
              LET first == {o \in About(Children(b), e) : IsFirst(o, About(Children(b), e))}
              IN  IF first = {} THEN row[e] ELSE plan[CHOOSE o \in first : TRUE].before]

(* Faulty variant: leaves the events of a batch that was undone.           *)
DropNoEvent(b)    == UNCHANGED outbox

(* The events of the batch are deleted by batch, not by child. *)
DropEvents(b) ==
    outbox' = [o \in Ops |-> IF o[1] = b THEN NoEvent ELSE outbox[o]]

UndoBusiness(p) ==
    /\ pc[p] = "cdb"
    /\ tomb' = [e \in Entities |-> IF DeletesOf(loc[p].rb, e) # {} THEN 0 ELSE tomb[e]]
    /\ RestoreRows(loc[p].rb)
    /\ DropEvents(loc[p].rb)
    /\ Goto(p, "cdone")
    /\ UNCHANGED <<journal, fs, stages, degraded, loc, faults>>

EndInverse(p) ==
    /\ pc[p] = "cdone"
    /\ \/ /\ CanSet(loc[p].rb, "COMPENSATED")
          /\ MoveAll(loc[p].rb, "COMPENSATED")
          /\ Goto(p, "ccollect") /\ UNCHANGED loc
       \/ /\ ~CanSet(loc[p].rb, "COMPENSATED")
          /\ InverseFails(p) /\ UNCHANGED journal
    /\ UNCHANGED <<stages, stores, degraded, faults>>

(* collect_terminal_operations reads only the manifest. *)
CollectUndone(p) ==
    /\ pc[p] = "ccollect"
    /\ stage' = [o \in Ops |-> IF loc[p].ops[o] # "NONE" /\ stage[o] = "published"
                               THEN "none" ELSE stage[o]]
    /\ NextBatch(p)
    /\ UNCHANGED <<journal, lost, stores, degraded, faults>>

(* _mark_failed_manual bypasses LEGAL_TRANSITIONS; recovery stops here. *)
FailManual(p) ==
    /\ pc[p] = "manual"
    /\ IF batch[loc[p].rb] \in Terminal
       THEN UNCHANGED journal
       ELSE MoveAll(loc[p].rb, "FAILED_MANUAL")
    /\ Degrade(p)
    /\ Exit(p)
    /\ UNCHANGED <<stages, stores, faults>>

----------------------------------------------------------------------------
(* The live path: _execute_prepared_batch after its recovery *)

(* A tombstone refuses creates and updates. *)
Admissible(over, o) ==
    LET e == Ent(o)
    IN  CASE Request[o].act = "create" -> over.row[e] = NoRow /\ e \notin over.dead
          [] Request[o].act = "update" -> over.row[e] # NoRow /\ e \notin over.dead
          [] OTHER                     -> over.row[e] # NoRow

(* The command names the version its client has seen, which may be stale.  *)
NamesVersion(o) == Request[o].act # "create" /\ ~Request[o].blind

Compiled(over, o) ==
    LET e   == Ent(o)
        act == Request[o].act
    IN  [before   |-> over.row[e],
         after    |-> IF act = "delete" THEN NoRow
                      ELSE [ver |-> over.row[e].ver + 1, by |-> o],
         expected |-> IF NamesVersion(o) THEN over.row[e].ver ELSE 0,
         steps    |-> StepsOf(over.fs, e, act, Request[o].title, o)]

(* AuthorityOverlay.apply *)
Overlaid(over, o) ==
    LET e == Ent(o)
    IN  [row  |-> [over.row EXCEPT ![e] = Compiled(over, o).after],
         dead |-> IF Request[o].act = "delete" THEN over.dead \cup {e} ELSE over.dead,
         fs   |-> Planned(over.fs, Compiled(over, o).steps)]

(* find_batch: a known batch is answered from its receipt; otherwise its   *)
(* commands are compiled against the authority.  from_locked_authorities   *)
(* reads the rows and tombstones first and the derived stores after them.  *)
Authority == [NoOverlay EXCEPT !.row = row, !.dead = {e \in Entities : tomb[e] # 0}]

Compile(p) ==
    /\ pc[p] = "compile"
    /\ \/ /\ batch[loc[p].job] # "NONE"
          /\ Exit(p)
       \/ /\ batch[loc[p].job] = "NONE"
          /\ Jump(p, "snapshot", [loc[p] EXCEPT !.over = Authority])
    /\ UNCHANGED <<journal, stages, stores, degraded, faults>>

SnapshotStores(p) ==
    /\ pc[p] = "snapshot"
    /\ Jump(p, "command", [loc[p] EXCEPT !.over.fs = fs, !.accepted = {},
                                         !.todo = OpsOf(loc[p].job)])
    /\ UNCHANGED <<journal, stages, stores, degraded, faults>>

(* compile_batch: each command sees the accepted ones before it; a command *)
(* that is refused does not stop the others.                               *)
CompileCommand(p, o) ==
    /\ pc[p] = "command" /\ o \in loc[p].todo /\ IsFirst(o, loc[p].todo)
    /\ LET over == loc[p].over
           rest == [loc[p] EXCEPT !.todo = @ \ {o}]
       IN  \/ /\ Admissible(over, o)
              /\ Jump(p, "command",
                      [rest EXCEPT !.accepted = @ \cup {o},
                                   !.cmd[o] = Compiled(over, o),
                                   !.over = Overlaid(over, o)])
           \/ /\ ~Admissible(over, o) \/ NamesVersion(o)
              /\ Jump(p, "command", rest)
    /\ UNCHANGED <<journal, stages, stores, degraded, faults>>

EndCompile(p) ==
    /\ pc[p] = "command" /\ loc[p].todo = {}
    /\ Jump(p, IF loc[p].accepted = {} THEN "reject" ELSE "intent",
            [loc[p] EXCEPT !.todo = loc[p].accepted, !.accepted = {}, !.over = NoOverlay])
    /\ UNCHANGED <<journal, stages, stores, degraded, faults>>

(* Both receipts insert the batch row; a duplicate key raises. *)
RecordRejected(p) ==
    /\ pc[p] = "reject"
    /\ batch' = [batch EXCEPT ![loc[p].job] = IF @ = "NONE" THEN "ABORTED" ELSE @]
    /\ Exit(p)
    /\ UNCHANGED <<op, plan, step, stages, stores, degraded, faults>>

CreateIntent(p) ==
    /\ pc[p] = "intent"
    /\ LET new == loc[p].todo
       IN  \/ /\ batch[loc[p].job] # "NONE"
              /\ Exit(p) /\ UNCHANGED journal
           \/ /\ batch[loc[p].job] = "NONE"
              /\ batch' = [batch EXCEPT ![loc[p].job] = "INTENT"]
              /\ op' = [o \in Ops |-> IF o \in new THEN "INTENT" ELSE op[o]]
              /\ plan' = [o \in Ops |-> IF o \in new THEN loc[p].cmd[o] ELSE plan[o]]
              /\ Jump(p, "temp", [loc[p] EXCEPT !.cmd = Blank.cmd])
              /\ UNCHANGED step
    /\ UNCHANGED <<stages, stores, degraded, faults>>

(* StagingArea.publish writes a private directory and renames it. *)
WriteStage(p, o) ==
    /\ pc[p] = "temp" /\ o \in loc[p].todo /\ IsFirst(o, loc[p].todo)
    /\ stage' = [stage EXCEPT ![o] = "temp"]
    /\ Goto(p, "rename")
    /\ UNCHANGED <<journal, lost, stores, degraded, loc, faults>>

PublishStage(p, o) ==
    /\ pc[p] = "rename" /\ o \in loc[p].todo /\ IsFirst(o, loc[p].todo)
    /\ IF stage[o] = "temp"
       THEN /\ stage' = [stage EXCEPT ![o] = "published"]
            /\ Jump(p, IF loc[p].todo = {o} THEN "markstaged" ELSE "temp",
                    [loc[p] EXCEPT !.todo = @ \ {o}])
       ELSE Exit(p) /\ UNCHANGED stage
    /\ UNCHANGED <<journal, lost, stores, degraded, faults>>

(* Shared by the live path and by recovery of an INTENT batch. *)
MarkStaged(p) ==
    /\ pc[p] = "markstaged"
    /\ \/ /\ batch[Cur(p)] = "INTENT"
          /\ MoveAll(Cur(p), "STAGED")
          /\ Goto(p, IF IsLive(p) THEN "commit" ELSE "reload") /\ UNCHANGED loc
       \/ /\ batch[Cur(p)] # "INTENT"
          /\ Exit(p) /\ UNCHANGED journal
    /\ UNCHANGED <<stages, stores, degraded, faults>>

(* _commit_business: rows, ledger, tombstones and journal at once. *)
CommitBusiness(p) ==
    /\ pc[p] = "commit"
    /\ LET b == loc[p].job
       IN  \/ /\ AllIn(b, "STAGED")
              /\ \A o \in Children(b) : RowAdmits(o)
              /\ ApplyRows(b)
              /\ RecordEvents(b, TRUE)
              /\ tomb' = [e \in Entities |->
                   IF DeletesOf(b, e) = {} THEN tomb[e]
                   ELSE NextSeq(b, CHOOSE o \in DeletesOf(b, e) : TRUE)]
              /\ MoveAll(b, "DB_COMMITTED")
              /\ Goto(p, "finalizing") /\ UNCHANGED loc
           \/ /\ ~(AllIn(b, "STAGED") /\ \A o \in Children(b) : RowAdmits(o))
              /\ Exit(p)
              /\ UNCHANGED <<journal, row, outbox, tomb>>
    /\ UNCHANGED <<stages, fs, degraded, faults>>

MarkFinalizing(p) ==
    /\ pc[p] = "finalizing"
    /\ \/ /\ AllIn(Cur(p), "DB_COMMITTED")
          /\ MoveAll(Cur(p), "FINALIZING")
          /\ IF IsLive(p)
             THEN Jump(p, "lapply", [loc[p] EXCEPT !.todo = Children(loc[p].job), !.k = 1])
             ELSE Goto(p, "forward") /\ UNCHANGED loc
       \/ /\ ~AllIn(Cur(p), "DB_COMMITTED")
          /\ Exit(p) /\ UNCHANGED journal
    /\ UNCHANGED <<stages, stores, degraded, faults>>

(* _finalize_forward applies a step without looking at the store first. *)
ApplyForward(p, o, k) ==
    /\ pc[p] = "lapply" /\ o \in loc[p].todo /\ IsFirst(o, loc[p].todo)
    /\ k = loc[p].k
    /\ \/ /\ k \notin DOMAIN plan[o].steps
          /\ Goto(p, "transition") /\ UNCHANGED <<loc, fs>>
       \/ /\ k \in DOMAIN plan[o].steps /\ Available(o, "after", k)
          /\ fs' = ApplyStep(fs, plan[o].steps[k], "after")
          /\ Goto(p, "lmark") /\ UNCHANGED loc
       \/ /\ k \in DOMAIN plan[o].steps /\ ~Available(o, "after", k)
          /\ Exit(p) /\ UNCHANGED fs
    /\ UNCHANGED <<journal, stages, row, tomb, outbox, degraded, faults>>

(* mark_step_applied compares and sets, unlike _mark_step. *)
MarkApplied(p, o, k) ==
    /\ pc[p] = "lmark" /\ o \in loc[p].todo /\ IsFirst(o, loc[p].todo)
    /\ k = loc[p].k
    /\ IF step[o][k] = "PENDING"
       THEN /\ step' = [step EXCEPT ![o][k] = "APPLIED"]
            /\ Jump(p, "lapply", [loc[p] EXCEPT !.k = k + 1])
       ELSE Exit(p) /\ UNCHANGED step
    /\ UNCHANGED <<batch, op, plan, stages, stores, degraded, faults>>

(* Faulty variant: the first child takes the batch along.                  *)
IsAnyChild(o)  == TRUE

(* journal.transition to FORWARD_APPLIED; the last child takes the batch. *)
IsLastChild(o) == \A x \in Children(o[1]) \ {o} : op[x] = "FORWARD_APPLIED"

ForwardApplied(p, o) ==
    /\ pc[p] = "transition" /\ o \in loc[p].todo /\ IsFirst(o, loc[p].todo)
    /\ LET b == o[1]
           legal == /\ batch[b] = op[o]
                    /\ "FORWARD_APPLIED" \in LEGAL_TRANSITIONS[op[o]]
       IN  \/ /\ legal
              /\ op' = [op EXCEPT ![o] = "FORWARD_APPLIED"]
              /\ batch' = IF IsLastChild(o) THEN [batch EXCEPT ![b] = "FORWARD_APPLIED"] ELSE batch
              /\ NextChild(p, o)
              /\ Goto(p, IF ~IsLive(p) THEN "fstep"
                         ELSE IF loc[p].todo = {o} THEN "finalize" ELSE "lapply")
              /\ UNCHANGED <<plan, step>>
           \/ /\ ~legal
              /\ ForwardFails(p) /\ UNCHANGED journal
    /\ UNCHANGED <<stages, stores, degraded, faults>>

(* finalize_batch_in_transaction: the ledger becomes visible exactly here. *)
CanFinalize(b) ==
    /\ AllIn(b, "FORWARD_APPLIED")
    /\ \A o \in OpsOf(b) : ~outbox[o].visible
    /\ \A o \in Children(b) : \A k \in DOMAIN plan[o].steps : step[o][k] = "APPLIED"

FinalizeBatch(p) ==
    /\ pc[p] = "finalize"
    /\ LET b == Cur(p)
       IN  \/ /\ CanFinalize(b)
              /\ MoveAll(b, "FINALIZED")
              /\ outbox' = [o \in Ops |-> IF o[1] = b /\ outbox[o].seq # 0
                                          THEN [outbox[o] EXCEPT !.visible = TRUE]
                                          ELSE outbox[o]]
              /\ IF IsLive(p) THEN Exit(p) ELSE NextBatch(p)
           \/ /\ ~CanFinalize(b)
              /\ Exit(p) /\ UNCHANGED <<journal, outbox>>
    /\ UNCHANGED <<stages, row, tomb, fs, degraded, faults>>

----------------------------------------------------------------------------
(* The environment *)

(* An exception or a cancellation at an await.  The forward run of a       *)
(* recovery catches BaseException, and so does the compensation it starts. *)
Fault(p) ==
    /\ pc[p] # "idle" /\ faults < MaxFaults
    /\ faults' = faults + 1
    /\ CASE pc[p] \in Forward -> ForwardFails(p)
         [] pc[p] \in Backward -> InverseFails(p)
         [] OTHER             -> Exit(p)
    /\ UNCHANGED <<journal, stages, stores, degraded>>

(* The process dies; only what was committed or synced survives. *)
Crash ==
    /\ faults < MaxFaults
    /\ faults' = faults + 1
    /\ \E p \in Procs : pc[p] # "idle"
    /\ pc' = [p \in Procs |-> "idle"]
    /\ loc' = [p \in Procs |-> Blank]
    /\ degraded' = FALSE
    /\ UNCHANGED <<journal, stages, stores>>

(* The images of one side of a published stage become unreadable. *)
LoseImage(o, side) ==
    /\ stage[o] = "published" /\ <<o, side>> \notin lost
    /\ Cardinality(lost) < MaxLost
    /\ \E k \in DOMAIN plan[o].steps : SideImage(plan[o].steps[k], side) # NoContent
    /\ lost' = lost \cup {<<o, side>>}
    /\ UNCHANGED <<journal, stage, stores, degraded, control, faults>>

----------------------------------------------------------------------------
ProcStep(p) ==
    \/ Scan(p) \/ CollectOrphans(p) \/ Load(p) \/ AbortBatch(p) \/ Rescan(p)
    \/ Reload(p) \/ ReplayBusiness(p) \/ AssertLedger(p)
    \/ StartForward(p) \/ EndForward(p) \/ LoadInverse(p) \/ StartInverse(p)
    \/ EndUndo(p) \/ UndoBusiness(p) \/ EndInverse(p) \/ CollectUndone(p)
    \/ FailManual(p)
    \/ Compile(p) \/ SnapshotStores(p) \/ EndCompile(p) \/ RecordRejected(p)
    \/ CreateIntent(p) \/ MarkStaged(p)
    \/ CommitBusiness(p) \/ MarkFinalizing(p) \/ FinalizeBatch(p)
    \/ \E o \in Ops :
         \/ VerifyChild(p, o) \/ EndChild(p, o) \/ CompileCommand(p, o)
         \/ WriteStage(p, o) \/ PublishStage(p, o) \/ ForwardApplied(p, o)
         \/ \E k \in 1..5 :
              \/ FinishStep(p, o, k) \/ MarkStep(p, o, k)
              \/ UndoStep(p, o, k) \/ MarkUndone(p, o, k)
              \/ ApplyForward(p, o, k) \/ MarkApplied(p, o, k)

Next ==
    \/ \E p \in Procs : \/ ProcStep(p)
                        \/ Fault(p)
                        \/ \E b \in Batches \cup {0}, m \in {"SHARED", "EXCLUSIVE"} :
                             Begin(p, b, m)
    \/ Crash
    \/ \E o \in Ops, side \in Sides : LoseImage(o, side)

Spec == Init /\ [][Next]_vars

(* A request that runs is scheduled until it ends; an unclean Space is     *)
(* eventually opened again, and opening it recovers it.                    *)
Fairness ==
    /\ \A p \in Procs : WF_vars(ProcStep(p))
    /\ WF_vars(\E p \in Procs : Begin(p, 0, "EXCLUSIVE"))

FairSpec == Spec /\ Fairness

----------------------------------------------------------------------------
(* Properties *)

Bodies   == Ops \cup {InitBody, EmptyBody}
Contents == [t : Titles \cup {"none"}, c : Bodies]
Rows     == [ver : Nat, by : Bodies]
Steps    == [tag : Tags, source : Targets, target : Targets,
             before : Contents, after : Contents]
Plans    == [before : Rows, after : Rows, expected : Nat, steps : Seq(Steps)]
Events   == [seq : Nat, visible : BOOLEAN, wire : {"raw", "decoded"}]
Receipts == [Ordinals -> StepStates]
Overlays == [row : [Entities -> Rows], dead : SUBSET Entities,
             fs : [Targets -> Contents]]
Locals   == [job : Batches \cup {0}, mode : {"SHARED", "EXCLUSIVE"},
             live : SUBSET Ops, queue : SUBSET Batches,
             snap : [Batches -> States], rb : Batches \cup {0}, st : States,
             ops : [Ops -> States], steps : [Ops -> Receipts],
             todo : SUBSET Ops, k : Nat, cmd : [Ops -> Plans],
             accepted : SUBSET Ops, over : Overlays]

(* Every variable has its type. *)
TypeOK ==
    /\ batch \in [Batches -> States]
    /\ op \in [Ops -> States]
    /\ plan \in [Ops -> Plans]
    /\ step \in [Ops -> Receipts]
    /\ stage \in [Ops -> {"none", "temp", "published"}]
    /\ lost \subseteq Ops \X Sides
    /\ row \in [Entities -> Rows]
    /\ tomb \in [Entities -> Nat]
    /\ outbox \in [Ops -> Events]
    /\ fs \in [Targets -> Contents]
    /\ degraded \in BOOLEAN
    /\ pc \in [Procs -> Labels]
    /\ loc \in [Procs -> Locals]
    /\ faults \in Nat

(* The children of a batch are in its own state, except while the batch is *)
(* FINALIZING, when some, but not all, have already been FORWARD_APPLIED:  *)
(* what recovery relies on when it dispatches on the batch state alone.    *)
JournalCoherent ==
    \A b \in Batches :
       \/ \A o \in Children(b) : op[o] = batch[b]
       \/ /\ batch[b] = "FINALIZING"
          /\ \A o \in Children(b) : op[o] \in {"FINALIZING", "FORWARD_APPLIED"}
          /\ \E o \in Children(b) : op[o] = "FINALIZING"

(* Clients see the events of a batch exactly when it is FINALIZED, and all *)
(* of them; a batch that was dropped leaves no event behind.               *)
LedgerAtomic ==
    \A o \in Ops :
       /\ outbox[o].visible <=> op[o] # "NONE" /\ batch[o[1]] = "FINALIZED"
       /\ outbox[o].seq # 0 => batch[o[1]] \notin {"NONE", "ABORTED", "COMPENSATED"}
       /\ outbox[o].visible => outbox[o].seq # 0

(* The promise of AtomicBatch, read off the journal and the ledger. *)
Outcome(s) ==
    CASE s = "FINALIZED"                  -> "committed"
      [] s \in {"ABORTED", "COMPENSATED"} -> "dropped"
      [] s = "FAILED_MANUAL"              -> "stuck"
      [] OTHER                            -> "open"

AcceptedOps  == [b \in Batches |-> Children(b)]
Outcomes     == [b \in Batches |-> Outcome(batch[b])]
PublishedOps == {o \in Ops : outbox[o].visible}

Abstract == INSTANCE AtomicBatch WITH
    accepted <- AcceptedOps, outcome <- Outcomes, published <- PublishedOps

(* The mutation core implements AtomicBatch, whatever leases its requests  *)
(* hold, wherever it crashes and however its requests interleave.          *)
ImplementsAtomicBatch == Abstract!ASpec

(* The row of an entity is the after image of its newest ledger event, or  *)
(* what it was at first: commit, replay and compensation keep rows and     *)
(* ledger in step, also when they are interrupted.                         *)
RowsFollowLedger ==
    \A e \in Entities :
       LET events == {o \in Ops : Ent(o) = e /\ outbox[o].seq # 0}
       IN  \/ events = {} /\ row[e] = InitRow(e)
           \/ \E o \in events : /\ \A x \in events : outbox[x].seq <= outbox[o].seq
                                /\ row[e] = plan[o].after

(* In a clean Space the derived stores show what the row says: the index   *)
(* and FTS rows and exactly one file, written by the row's last writer.    *)
Shows(e, x, body) == fs[<<e, x>>].c = body /\ fs[<<e, x>>] # NoContent

ProjectionsFollowRows ==
    Clean => \A e \in Entities :
       LET stored == IF Kind[e] = "note" THEN {"index", "fts", fs[<<e, "index">>].t}
                     ELSE IF Kind[e] = "folder" THEN {"index"} ELSE {}
       IN  \A x \in Titles \cup {"index", "fts"} :
              IF row[e] # NoRow /\ x \in stored
              THEN Shows(e, x, row[e].by)
              ELSE fs[<<e, x>>] = NoContent

(* A batch is in doubt from INTENT to its outcome. *)
InDoubt(b) == batch[b] \notin Terminal \cup {"NONE", "FAILED_MANUAL"}

(* A stage that only waits to be swept, and cannot be read back any more.  *)
RottenOrphan ==
    \E o \in Ops : op[o] \in Terminal /\ stage[o] = "published" /\ ~Verified(o)

(* A batch that was interrupted anywhere does not stay in doubt: it is     *)
(* finished, dropped, or handed to the operator, unless the sweep of       *)
(* orphans trips over an unreadable stage.                                 *)
RecoveryConverges == \A b \in Batches : InDoubt(b) ~> ~InDoubt(b) \/ RottenOrphan

(* "B's move is rejected with the registered ``version_conflict`` code     *)
(* BEFORE any side effect": of two requests that both saw a version, the   *)
(* later one is refused and leaves nothing behind that waits for ever.     *)
BatchesSettle == \A b \in Batches : InDoubt(b) ~> ~InDoubt(b)

=============================================================================
