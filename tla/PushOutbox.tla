----------------------------- MODULE PushOutbox -----------------------------
(***************************************************************************)
(* A device that edits rows offline and pushes the edits (frontend         *)
(* lib/sync: outbox.ts, admission.ts, push-batch.ts, authority-identity.ts,*)
(* terminal-application.ts, merge.ts and resolveConflict of engine.ts),    *)
(* composed with the server of BatchServer.                                *)
(*                                                                         *)
(* The Space authority fence serialises edits, conflict resolutions and    *)
(* cycles of all tabs, so that edits come between cycles; a page may die   *)
(* between any two transactions, and a request given up may still be       *)
(* served.  What survives the page is in IndexedDB.                        *)
(***************************************************************************)
EXTENDS BatchServer

CONSTANTS
    MaxEdits,   \* bound on local edits and writes of others together
    MaxMishaps  \* bound on lost answers, dead pages and interrupted batches

ASSUME OutboxAssumption == MaxEdits \in Nat /\ MaxMishaps \in Nat

VARIABLES
    local,     \* local[e]: the device's copy of the row
    outbox,    \* the rows of the outbox, at most one of an entity
    marker,    \* the admission marker and the rows it was computed from
    receipt,   \* the rows of the active push receipt; {} if there is none
    evidence,  \* the rows terminal results were applied to
    cursor,    \* events pulled so far
    cycle,     \* the sync cycle under way: memory of the page
    panel,     \* the conflicts on display: memory of the page
    late,      \* requests given up that may still be served
    clock,     \* the time: edits and writes of others so far
    mishaps,   \* lost answers, dead pages and interrupted batches so far
    owed,      \* owed[e]: the edit the server still owes the user; 0 if none
    stale      \* rows whose accepted remote version was out of date

disk   == <<local, outbox, marker, receipt, evidence, cursor>>
memory == <<cycle, panel>>
ghosts == <<owed, stale>>
vars   == <<serverVars, disk, memory, late, clock, mishaps, ghosts>>

Copy(body, dirty, gone) == [body |-> body, dirty |-> dirty, gone |-> gone]
NoCopy == Copy(NoBody, FALSE, FALSE)

NoVerdict == [id |-> <<>>, outcome |-> <<>>]
Idle == [pc |-> "idle", chosen |-> {}, verdict |-> NoVerdict, attempted |-> {},
         found |-> {}, fresh |-> FALSE]

Init ==
    /\ ServerInit
    /\ local = [e \in Entities |->
                  IF e \in Existing THEN Copy(Body(1, 0), FALSE, FALSE) ELSE NoCopy]
    /\ outbox = {}
    /\ marker = [state |-> "none", roots |-> {}]
    /\ receipt = {}
    /\ evidence = {}
    /\ cursor = 0
    /\ cycle = Idle
    /\ panel = {}
    /\ late = {}
    /\ clock = 0
    /\ mishaps = 0
    /\ owed = [e \in Entities |-> 0]
    /\ stale = {}

Mishap == mishaps < MaxMishaps /\ mishaps' = mishaps + 1

RowsOf(e) == {r \in outbox : r.ent = e}
Queued(e) == RowsOf(e) # {}
Ops(rows) == {r.op : r \in rows}
Ready == {r \in outbox : r.state = "ready"}

----------------------------------------------------------------------------
(* Edits *)

(* An operation id is a random UUID: where it sorts is anybody's guess.    *)
Traces == outbox \cup evidence \cup receipt \cup marker.roots \cup
          UNION (late \cup {b.rows : b \in batches})
FreshIds == Ids \ Ops(Traces)

Sent(r) == \E q \in late \cup {receipt} \cup {b.rows : b \in batches} :
             r.op \in Ops(q)

NewRow(o, e, act, exp, time) ==
    [op |-> o, ent |-> e, act |-> act, exp |-> exp, at |-> time, state |-> "ready"]

(* resolveOutboxMerge, "replace" and "keep_existing": the row keeps its    *)
(* operation id.                                                           *)
Merged(r, act, exp, time) ==
    [r EXCEPT !.act = IF @ = "update" THEN act ELSE @,
              !.exp = IF r.act = "update" THEN exp ELSE @,
              !.at = time, !.state = "ready"]

(* Faulty variant: every edit gets a row of its own.                       *)
NeverMerged(e, act, exp, time) ==
    \E o \in FreshIds : outbox' = outbox \cup {NewRow(o, e, act, exp, time)}

(* enqueueOutbox.  The rows a device pushes itself never count attempts, so *)
(* that whatever row the entity has, frozen or rejected, takes up the edit. *)
Enqueue(e, act, exp, time) ==
    IF ~Queued(e)
    THEN \E o \in FreshIds : outbox' = outbox \cup {NewRow(o, e, act, exp, time)}
    ELSE outbox' = (outbox \ RowsOf(e)) \cup
                     {Merged(r, act, exp, time) : r \in RowsOf(e)}

EditStep(e) ==
    /\ cycle.pc = "idle" /\ clock < MaxEdits
    /\ clock' = clock + 1
    /\ owed' = [owed EXCEPT ![e] = clock']
    /\ UNCHANGED <<serverVars, marker, receipt, evidence, cursor, memory, late,
                   mishaps, stale>>

Visible(e) == local[e].body # NoBody /\ ~local[e].gone

(* createFolder and its like; the id of the row is new to everybody. *)
CreateRow(e) ==
    /\ e \notin Existing /\ \A r \in Traces : r.ent # e
    /\ EditStep(e)
    /\ local' = [local EXCEPT ![e] = Copy(Body(1, clock'), TRUE, FALSE)]
    /\ Enqueue(e, "create", 0, clock')

(* renameFolder, updateQuickNote and their like: the row's version before  *)
(* the edit is the one the server is asked to replace.                     *)
UpdateRow(e) ==
    /\ Visible(e)
    /\ EditStep(e)
    /\ local' = [local EXCEPT ![e] = Copy(Body(@.body.ver + 1, clock'), TRUE, FALSE)]
    /\ Enqueue(e, "update", local[e].body.ver, clock')

(* purgeFolder and its like: the row is kept as deleted. *)
DeleteRow(e) ==
    /\ Visible(e) /\ \A r \in RowsOf(e) : r.act # "create"
    /\ EditStep(e)
    /\ local' = [local EXCEPT ![e] = Copy(Body(@.body.ver + 1, clock'), TRUE, TRUE)]
    /\ Enqueue(e, "delete", local[e].body.ver, clock')

(* "drop_existing": a row whose creation is still queued vanishes, even    *)
(* when the creation has been sent.                                        *)
DropRow(e) ==
    /\ Visible(e) /\ \E r \in RowsOf(e) : r.act = "create"
    /\ cycle.pc = "idle"
    /\ outbox' = outbox \ RowsOf(e)
    /\ local' = [local EXCEPT ![e] = NoCopy]
    /\ owed' = [owed EXCEPT ![e] = 0]
    /\ stale' = IF \E r \in RowsOf(e) : Sent(r) THEN stale \cup {e} ELSE stale
    /\ UNCHANGED <<serverVars, marker, receipt, evidence, cursor, memory, late,
                   clock, mishaps>>

(* Another client writes. *)
OtherClientWrites(e) ==
    /\ clock < MaxEdits
    /\ clock' = clock + 1
    /\ \E act \in {"update", "delete"} : OtherWrite(e, act, clock')
    /\ UNCHANGED <<disk, memory, late, mishaps, ghosts>>

----------------------------------------------------------------------------
(* The start of a cycle: admission and pull *)

EndCycle == cycle' = Idle
At(pc) == cycle' = [cycle EXCEPT !.pc = pc]

(* assertS4AdmissionReady: every row the marker counted is still there as  *)
(* it was, or a terminal result was applied to it.                         *)
AdmissionHolds == marker.roots \subseteq Ready \cup evidence

(* admitTs3AwaitingS4, first transaction *)
Admit ==
    /\ cycle.pc = "idle" /\ marker.state = "none"
    /\ marker' = [state |-> "meta_pending", roots |-> Ready]
    /\ At("admit")
    /\ UNCHANGED <<serverVars, local, outbox, receipt, evidence, cursor, panel, late,
                   clock, mishaps, ghosts>>

(* A cycle that finds the first transaction done goes on with the second.  *)
ResumeAdmission ==
    /\ cycle.pc = "idle" /\ marker.state = "meta_pending"
    /\ At("admit")
    /\ UNCHANGED <<serverVars, disk, panel, late, clock, mishaps, ghosts>>

(* admitTs3AwaitingS4, second transaction: requireSameReadyRootSet *)
AdmitReady ==
    /\ cycle.pc = "admit"
    /\ \/ /\ marker.roots = Ready
          /\ marker' = [marker EXCEPT !.state = "ready"]
          /\ At("pull")
       \/ /\ marker.roots # Ready
          /\ EndCycle /\ UNCHANGED marker
    /\ UNCHANGED <<serverVars, local, outbox, receipt, evidence, cursor, panel, late,
                   clock, mishaps, ghosts>>

StartCycle ==
    /\ cycle.pc = "idle" /\ marker.state = "ready" /\ AdmissionHolds
    /\ At("pull")
    /\ UNCHANGED <<serverVars, disk, panel, late, clock, mishaps, ghosts>>

(* applySyncEventRecord leaves a row alone that has edits of its own.      *)
Protected(e) == local[e].dirty \/ Queued(e)

News(e) == {i \in cursor + 1..Len(ledger) : ledger[i].ent = e}

Oldest(e) == ledger[CHOOSE i \in News(e) : \A j \in News(e) : i <= j]
Newest(e) == ledger[CHOOSE i \in News(e) : \A j \in News(e) : j <= i]

Pulled(e) ==
    IF News(e) = {} \/ Protected(e) THEN local[e]
    ELSE IF Newest(e).act = "delete" THEN NoCopy
    ELSE Copy(Newest(e).body, FALSE, FALSE)

(* The panel keeps every such conflict; resolving one resolves the first   *)
(* of the row and removes the others.                                      *)
Shown(e) == \E c \in panel : c.op = 0 /\ c.ent = e
PrePush == {e \in Entities : /\ News(e) # {} /\ Protected(e)
                             /\ local[e] # NoCopy /\ ~Shown(e)}
Conflict(op, e, kind, snap) == [op |-> op, ent |-> e, kind |-> kind, snap |-> snap]

(* An edit is on the server although its row is still queued, and the      *)
(* event of a younger write is passed over with its own.                   *)
Overtaken(e) ==
    \E i, j \in DOMAIN ledger :
        /\ i < j /\ cursor < j
        /\ ledger[i].ent = e /\ ledger[j].ent = e
        /\ \E r \in RowsOf(e) : r.op = ledger[i].op

(* runPullLoopV2: the rows and the cursor move together. *)
Pull ==
    /\ cycle.pc = "pull"
    /\ local' = [e \in Entities |-> Pulled(e)]
    /\ panel' = panel \cup
         {Conflict(0, e, Oldest(e).act, Oldest(e).body) : e \in PrePush}
    /\ stale' = {e \in stale : News(e) = {} \/ Protected(e)} \cup
                {e \in Entities : Overtaken(e)}
    /\ cursor' = Len(ledger)
    /\ At("push")
    /\ UNCHANGED <<serverVars, outbox, marker, receipt, evidence, late, clock,
                   mishaps, owed>>

----------------------------------------------------------------------------
(* Push: one authority unit after another *)

(* selectOneAuthorityUnit; an active receipt comes before any other row.   *)
Selection ==
    IF receipt # {} THEN receipt
    ELSE {r \in Ready : r.op \notin cycle.attempted}

(* Rows that reach the panel are told apart by their outbox row.           *)
Display(found) ==
    panel' = panel \cup {c \in found : \A d \in panel : d.op # c.op}

FinishCycle(found) == Display(found) /\ EndCycle

(* classifyOperationQuery: the server knows all operations of the unit or  *)
(* none, or the cycle fails.                                               *)
Query ==
    /\ cycle.pc = "push" /\ Selection # {}
    /\ LET known == {r \in Selection : Bound(r.op)}
           first == BatchOf(BatchId(Selection)[1])
       IN  \/ /\ known = {}
              /\ cycle' = [cycle EXCEPT !.pc = IF receipt # {} THEN "send" ELSE "receipt",
                                        !.chosen = Selection, !.fresh = receipt = {}]
           \/ /\ known = Selection
              /\ cycle' = [cycle EXCEPT !.pc = "apply", !.chosen = Selection,
                                        !.fresh = FALSE,
                                        !.verdict = [id |-> first.id, outcome |-> first.outcome]]
           \/ /\ known # {} /\ known # Selection
              /\ EndCycle
    /\ UNCHANGED <<serverVars, disk, panel, late, clock, mishaps, ghosts>>

NothingLeft ==
    /\ cycle.pc = "push" /\ Selection = {}
    /\ FinishCycle(cycle.found)
    /\ UNCHANGED <<serverVars, disk, late, clock, mishaps, ghosts>>

(* The query is answered with "pending" or "recovery_required". *)
Blocked ==
    /\ cycle.pc = "push" /\ Selection # {}
    /\ Mishap
    /\ FinishCycle(cycle.found)
    /\ UNCHANGED <<serverVars, disk, late, clock, ghosts>>

(* validatePendingPushReceipt: the operations are listed by the age of     *)
(* their edits, the events by operation id.                                *)
Coherent(rows) == InOrder(rows) = ByAge(rows)

(* createPendingPushBatchAfterUnknown *)
RecordReceipt ==
    /\ cycle.pc = "receipt"
    /\ \/ /\ Coherent(cycle.chosen)
          /\ receipt' = cycle.chosen
          /\ At("send")
       \/ /\ ~Coherent(cycle.chosen)
          /\ EndCycle /\ UNCHANGED receipt
    /\ UNCHANGED <<serverVars, local, outbox, marker, evidence, cursor, panel, late,
                   clock, mishaps, ghosts>>

(* Faulty variant: a row is recognised by its key.                         *)
RecognisedByKey(rows) == Ops(rows) \subseteq Ops(outbox)

(* reloadCompleteAuthorityAndRequireUnchangedSelection: each row is exactly *)
(* as it was frozen.                                                       *)
Unchanged(rows) == rows \subseteq outbox

DriftStopsPush ==
    /\ cycle.pc = "send" /\ ~Unchanged(receipt)
    /\ EndCycle
    /\ UNCHANGED <<serverVars, disk, panel, late, clock, mishaps, ghosts>>

(* syncV2PushCanonical: the server handles the request and answers, or     *)
(* refuses it.                                                             *)
Push ==
    /\ cycle.pc = "send" /\ Unchanged(receipt)
    /\ Execute(receipt)
    /\ \/ \E b \in Answers(receipt) :
             cycle' = [cycle EXCEPT !.pc = "apply",
                                    !.verdict = [id |-> b.id, outcome |-> b.outcome]]
       \/ Answers(receipt) = {} /\ EndCycle
    /\ UNCHANGED <<disk, panel, late, clock, mishaps, ghosts>>

(* The request is handled, but nobody hears the answer. *)
LoseAnswer ==
    /\ cycle.pc = "send" /\ Unchanged(receipt)
    /\ Mishap
    /\ Execute(receipt) \/ Interrupt(receipt)
    /\ EndCycle
    /\ UNCHANGED <<disk, panel, late, clock, ghosts>>

(* The device stops waiting before the request is handled. *)
GiveUp ==
    /\ cycle.pc = "send" /\ Unchanged(receipt)
    /\ Mishap
    /\ late' = late \cup {receipt}
    /\ EndCycle
    /\ UNCHANGED <<serverVars, disk, panel, clock, ghosts>>

ServeLate(q) ==
    /\ q \in late
    /\ late' = late \ {q}
    /\ Execute(q)
    /\ UNCHANGED <<disk, memory, clock, mishaps, ghosts>>

----------------------------------------------------------------------------
(* applyTerminalResultTwoPhase *)

OutcomeOf(r) == cycle.verdict.outcome[r.op]
Won(rows) == {r \in rows : OutcomeOf(r).kind = "applied"}
Lost(rows) == rows \ Won(rows)

Settled(copy) == [copy EXCEPT !.dirty = FALSE]

(* requireExactTerminalCoverage, then every row as it was frozen *)
Applicable ==
    /\ cycle.verdict.id = BatchId(cycle.chosen)
    /\ Unchanged(cycle.chosen)

ApplyResult ==
    /\ cycle.pc = "apply" /\ Applicable
    /\ LET won   == Won(cycle.chosen)
           lost  == Lost(cycle.chosen)
           found == cycle.found \cup
                      {Conflict(r.op, r.ent, "push", OutcomeOf(r).snap) :
                         r \in {r \in lost : OutcomeOf(r).kind = "conflict"}}
       IN  /\ outbox' = {IF r.op \in Ops(lost) THEN [r EXCEPT !.state = OutcomeOf(r).kind]
                         ELSE r : r \in {q \in outbox : q.op \notin Ops(won)}}
           /\ local' = [e \in Entities |->
                          IF \E r \in won : r.ent = e
                          THEN Settled(local[e]) ELSE local[e]]
           /\ IF cycle.fresh /\ won = {}
              THEN FinishCycle(found)
              ELSE /\ cycle' = [cycle EXCEPT !.pc = "push", !.chosen = {},
                                  !.verdict = NoVerdict, !.found = found,
                                  !.attempted = @ \cup Ops(cycle.chosen)]
                   /\ UNCHANGED panel
    /\ evidence' = evidence \cup cycle.chosen
    /\ receipt' = {}
    /\ UNCHANGED <<serverVars, marker, cursor, late, clock, mishaps, ghosts>>

RejectResult ==
    /\ cycle.pc = "apply" /\ ~Applicable
    /\ EndCycle
    /\ UNCHANGED <<serverVars, disk, panel, late, clock, mishaps, ghosts>>

(* The page dies, or a request other than the push fails. *)
PageDies ==
    /\ cycle.pc # "idle" \/ panel # {}
    /\ Mishap
    /\ EndCycle /\ panel' = {}
    /\ UNCHANGED <<serverVars, disk, late, clock, ghosts>>

RequestFails ==
    /\ cycle.pc \in {"pull", "push"}
    /\ Mishap
    /\ EndCycle
    /\ UNCHANGED <<serverVars, disk, panel, late, clock, ghosts>>

----------------------------------------------------------------------------
(* resolveConflict, between cycles *)

(* Versions of a row only grow: what the cursor has passed and is younger  *)
(* than the accepted body will not be pulled again.                        *)
Outdated(e, body) ==
    \E i \in 1..cursor : ledger[i].ent = e /\ ledger[i].body.ver > body.ver

(* A conflict that carries no row leaves the local one, as if it were the  *)
(* server's.  The event of a deletion carries its time only: found by pull *)
(* it cannot be accepted, because there is no key to put it under, and the *)
(* transaction fails.                                                      *)
AcceptRemote(c) ==
    /\ cycle.pc = "idle" /\ c \in panel
    /\ c.op # 0 \/ c.kind # "delete"
    /\ outbox' = {r \in outbox : IF c.op = 0 THEN r.ent # c.ent ELSE r.op # c.op}
    /\ local' = [local EXCEPT ![c.ent] =
         IF c.snap # NoBody THEN Copy(c.snap, FALSE, FALSE) ELSE [@ EXCEPT !.dirty = FALSE]]
    /\ panel' = panel \ {c}
    /\ owed' = IF Queued(c.ent)' THEN owed ELSE [owed EXCEPT ![c.ent] = 0]
    /\ stale' = IF c.snap = NoBody \/ Outdated(c.ent, c.snap) \/ Queued(c.ent)'
                THEN stale \cup {c.ent} ELSE stale
    /\ UNCHANGED <<serverVars, marker, receipt, evidence, cursor, cycle, late, clock,
                   mishaps>>

KeepLocal(c) ==
    /\ cycle.pc = "idle" /\ c \in panel
    /\ outbox' = {IF c.op # 0 /\ r.op = c.op THEN [r EXCEPT !.state = "ready"] ELSE r :
                    r \in outbox}
    /\ panel' = panel \ {c}
    /\ UNCHANGED <<serverVars, local, marker, receipt, evidence, cursor, cycle, late,
                   clock, mishaps, ghosts>>

----------------------------------------------------------------------------
Edit(e) == CreateRow(e) \/ UpdateRow(e) \/ DeleteRow(e) \/ DropRow(e)

Resolve == \E c \in panel : AcceptRemote(c) \/ KeepLocal(c)

CycleStep ==
    \/ Admit \/ ResumeAdmission \/ AdmitReady \/ StartCycle \/ Pull
    \/ Query \/ NothingLeft \/ RecordReceipt \/ DriftStopsPush \/ Push
    \/ ApplyResult \/ RejectResult

Misfortune == Blocked \/ LoseAnswer \/ GiveUp \/ PageDies \/ RequestFails

Next ==
    \/ \E e \in Entities : Edit(e) \/ OtherClientWrites(e)
    \/ CycleStep
    \/ Misfortune
    \/ \E q \in late : ServeLate(q)
    \/ Resolve

Spec == Init /\ [][Next]_vars

(* Edits schedule a cycle, and cycles are also started by hand, when the   *)
(* page starts and when it is online again; a cycle goes on by itself.     *)
FairSpec == Spec /\ WF_vars(CycleStep)

----------------------------------------------------------------------------
(* Properties                                                              *)

RowSet == [op : Ids, ent : Entities, act : {"create", "update", "delete"}, exp : Nat,
           at : 1..MaxEdits, state : {"ready", "conflict", "error"}]

(* Types; and an entity has one row in the outbox, because enqueueOutbox   *)
(* merges a new edit into the row there is.                                *)
TypeOK ==
    /\ outbox \subseteq RowSet
    /\ marker.state \in {"none", "meta_pending", "ready"} /\ marker.roots \subseteq RowSet
    /\ receipt \subseteq RowSet /\ evidence \subseteq RowSet
    /\ \A q \in late : q \subseteq RowSet
    /\ cursor \in 0..Len(ledger)
    /\ clock \in 0..MaxEdits /\ mishaps \in 0..MaxMishaps
    /\ owed \in [Entities -> 0..MaxEdits] /\ stale \subseteq Entities
    /\ \A e \in Entities : Cardinality(RowsOf(e)) <= 1

(* An operation takes effect once, however often its batch is sent, served *)
(* late or sent again in other company.                                    *)
AppliedOnce ==
    \A i, j \in DOMAIN ledger : ledger[i].op = ledger[j].op /\ ledger[i].op # 0 => i = j

(* The receipt of an interrupted batch says that its operations were       *)
(* applied.                                                                *)
Phantom(e) ==
    \E b \in batches : /\ b.state # "FINALIZED"
                       /\ \E r \in b.rows : r.ent = e /\ r.op \in Children(b)

Published(e, time) == \E i \in DOMAIN ledger : ledger[i].ent = e /\ ledger[i].body.at = time

(* The outbox lets go of the last edit of a row only when the server has   *)
(* published it, or the user gave it up, but for the edits of interrupted  *)
(* batches, which the query answers as applied.                            *)
EditsAreKept ==
    \A e \in Entities : owed[e] # 0 /\ ~Queued(e) => Published(e, owed[e]) \/ Phantom(e)

(* Once everything is pulled, a row without queued edits is what the server *)
(* has: pull may pass over the events of a row with edits, because pushing *)
(* them makes up for it.  Left out: rows that were resolved with an        *)
(* outdated version, overtaken, or dropped after they were sent.           *)
CleanIsCurrent ==
    cursor = Len(ledger) =>
        \A e \in Entities :
            ~Queued(e) /\ e \notin stale /\ ~Phantom(e) =>
                IF Present(e) THEN Visible(e) /\ local[e].body.at = srv[e].body.at
                ELSE ~Visible(e)

(* No edit is lost: the server has what the outbox let go of, and a clean  *)
(* row shows what the server has.                                          *)
NoEditIsLost == EditsAreKept /\ CleanIsCurrent

(* What keeps edits from the server for good: a row of the marker or of    *)
(* the receipt was edited, dropped or resolved; the rows of a unit are not *)
(* as old as their ids sort; or an edit took up a row the server rejected. *)
Drifted ==
    \/ marker.state = "meta_pending" /\ marker.roots # Ready
    \/ marker.state = "ready" /\ ~AdmissionHolds
Misordered == ~Coherent(Ready)
Rebound == \E r \in Ready : Bound(r.op) /\ r \notin receipt
ReceiptDrift == ~Unchanged(receipt)

(* When edits and mishaps end, every edit comes to a result: lost answers, *)
(* interrupted batches and dead pages are made up for by later cycles.     *)
EditsSettle == <>[](Ready = {} \/ Drifted \/ Misordered \/ Rebound \/ ReceiptDrift)
=============================================================================
