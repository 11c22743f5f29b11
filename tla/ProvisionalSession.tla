------------------------- MODULE ProvisionalSession -------------------------
(***************************************************************************)
(* A focus session that a device runs offline (frontend lib/focus-session: *)
(* focus-session-repository.ts, provisional-start-recovery.ts and          *)
(* reconcileProvisional of active-session-coordinator.ts), and its import  *)
(* by the sync cycle (lib/sync: admission.ts,                              *)
(* provisional-operation-authority.ts, terminal-application.ts).           *)
(*                                                                         *)
(* What is known of it lies in two databases that no transaction spans:    *)
(* the operation in the device's meta database, the rows and the outbox in *)
(* the database of the Space.  All tabs share both.  The authority fence   *)
(* of a Space, a Web Lock, is held by at most one task at a time; a page   *)
(* may die between any two transactions, and then its locks are free.      *)
(***************************************************************************)
EXTENDS Naturals, FiniteSets

CONSTANTS
    Procs,      \* tasks of the pages
    TabOf,      \* TabOf[p]: the tab the task runs in
    Sessions,   \* sessions, each with the operation that starts it
    SpaceOf,    \* SpaceOf[o]: the Space of the session
    Planned,    \* plan items chosen before the start
    Extra,      \* plan items that may be added while the session runs
    MaxRev,     \* MaxRev[o]: bound on the revision of a session
    MaxFaults   \* bound on dead pages and exceptions

ASSUME DeviceAssumption ==
    /\ MaxRev \in [Sessions -> Nat \ {0}] /\ MaxFaults \in Nat
    /\ DOMAIN SpaceOf = Sessions /\ DOMAIN TabOf = Procs
    /\ Planned \cap Extra = {} /\ IsFiniteSet(Planned)
    /\ (Planned \cup Extra) \cap {"session", "context", "attribution"} = {}

Spaces == {SpaceOf[o] : o \in Sessions}
Tabs   == {TabOf[p] : p \in Procs}
Items  == Planned \cup Extra

VARIABLES
    prov,     \* prov[o]: state of the operation in the meta database
    owner,    \* owner[o]: the tab that started it
    ses,      \* ses[o]: the session's row in its Space
    plan,     \* plan[o]: its plan items
    outbox,   \* rows of the outboxes
    marker,   \* marker[s]: the admission marker and the rows it was computed from
    imported, \* imported[o]: revision the server has of an imported session
    served,   \* served[o]: what the server answers to an activation
    receipts, \* sessions with an activation receipt
    pc, job,  \* a task and what it works on
    faults    \* dead pages and exceptions so far

meta  == <<prov, owner>>
space == <<ses, plan, outbox, marker, receipts>>
vars  == <<meta, space, imported, served, pc, job, faults>>

States == {"none", "pending", "activating", "conflict", "activation_resolved",
           "awaiting_s4", "transport_ready", "transport_resolved"}

NoSession == [rev |-> 0, clock |-> "none", ended |-> FALSE, mine |-> "none"]
NoJob     == [kind |-> "none", on |-> "none", todo |-> {}]

Init ==
    /\ prov = [o \in Sessions |-> "none"]
    /\ owner = [o \in Sessions |-> "none"]
    /\ ses = [o \in Sessions |-> NoSession]
    /\ plan = [o \in Sessions |-> {}]
    /\ outbox = {}
    /\ marker = [s \in Spaces |-> [state |-> "none", rows |-> {}]]
    /\ imported = [o \in Sessions |-> 0]
    /\ served = [o \in Sessions |-> "none"]
    /\ receipts = {}
    /\ pc = [p \in Procs |-> "idle"]
    /\ job = [p \in Procs |-> NoJob]
    /\ faults = 0

----------------------------------------------------------------------------
(* Tasks, the fence and the operations *)

(* withSpaceAuthorityFence: a task past "wait" holds the fence of its Space. *)
SpaceAt(p) == IF job[p].kind = "sync" THEN job[p].on ELSE SpaceOf[job[p].on]
Inside     == {p \in Procs : pc[p] \notin {"idle", "wait"}}
Free(s)    == \A p \in Inside : SpaceAt(p) # s

Goto(p, label)  == pc' = [pc EXCEPT ![p] = label]
Exit(p)         == Goto(p, "idle") /\ job' = [job EXCEPT ![p] = NoJob]
Run(p, label, kind, x) ==
    Goto(p, label) /\ job' = [job EXCEPT ![p] = [NoJob EXCEPT !.kind = kind, !.on = x]]

Blocking == {"pending", "activating", "conflict"}

(* transitionProvisionalOperation *)
Move(o, from, to) == prov[o] \in from /\ prov' = [prov EXCEPT ![o] = to]

(* requireLocalOwner, on what is read under the fence *)
OwnedBy(p, o) ==
    /\ ses[o].mine = "local"
    /\ prov[o] = "pending" /\ owner[o] = TabOf[p]

----------------------------------------------------------------------------
(* The outbox *)

(* A row that has not been sent.  exp is the expected version, 0 for none;  *)
(* root tells a child of the compound import from a row of its own.        *)
Row(o, ent, act, rev, exp, root) ==
    [of |-> o, ent |-> ent, act |-> act, rev |-> rev, exp |-> exp, root |-> root,
     state |-> "awaiting_s4"]

Create(o, ent, rev) == Row(o, ent, "create", rev, 0, "compound")
Clock(o, rev)       == Row(o, "session", "update", rev, rev - 1, "alone")

RowsOf(o)    == {r \in outbox : r.of = o}
Compound(o)  == {r \in RowsOf(o) : r.root = "compound"}
InSpace(s)   == {r \in outbox : SpaceOf[r.of] = s}
OnSession(o) == {r \in RowsOf(o) : r.ent = "session"}

Initial(o, items) == {"session", "context", "attribution"} \cup items

(* absorbedProvisionalOutboxKeys, assertCompleteProvisionalOutbox: every   *)
(* row of the aggregate has one unsent create row.                         *)
Keys(o) == Initial(o, plan[o])
WholeCompound(o) ==
    /\ {r.ent : r \in Compound(o)} = Keys(o)
    /\ Cardinality(Compound(o)) = Cardinality(Keys(o))
    /\ \A r \in Compound(o) : r.act = "create" /\ r.exp = 0

(* The row an edit is merged into: the one written last. *)
Latest(rows) == CHOOSE r \in rows : \A x \in rows : x.rev <= r.rev

(* The row that Dexie finds first: the create row, as long as there is one. *)
First(rows) == IF \E r \in rows : r.act = "create"
               THEN CHOOSE r \in rows : r.act = "create" ELSE Latest(rows)

(* Faulty variant: a clock row is merged like any other edit.              *)
MergeClock(o, rev) ==
    (outbox \ OnSession(o)) \cup {[Latest(OnSession(o)) EXCEPT !.rev = rev]}

(* enqueueOutbox with preserveExisting *)
AppendClock(o, rev) == outbox \cup {Clock(o, rev)}

(* enqueueOutbox for a row that is still to be created: the latest row of  *)
(* the session keeps its action, loses its expected version and takes the  *)
(* place of all others.                                                    *)
MergeNote(o) ==
    (outbox \ OnSession(o)) \cup
      {[Latest(OnSession(o)) EXCEPT !.exp = 0, !.root = First(OnSession(o)).root]}

----------------------------------------------------------------------------
(* Start *)

(* Faulty variant: only the operations of this Space count.                *)
NoneInSpace(o) == \A x \in Sessions : SpaceOf[x] = SpaceOf[o] => prov[x] \notin Blocking

(* claimProvisionalOperation: one operation of the device at a time. *)
NoneOnDevice(o) == \A x \in Sessions : prov[x] \notin Blocking

Claim(p, o) ==
    /\ pc[p] = "idle" /\ Free(SpaceOf[o])
    /\ prov[o] = "none" /\ ses[o] = NoSession /\ NoneOnDevice(o)
    /\ prov' = [prov EXCEPT ![o] = "pending"]
    /\ owner' = [owner EXCEPT ![o] = TabOf[p]]
    /\ Run(p, "mark", "start", o)
    /\ UNCHANGED <<space, imported, served, faults>>

(* resumeExistingProvisionalStart: the start is repeated, and its rows were *)
(* never written.                                                          *)
ResumeStart(p, o) ==
    /\ pc[p] = "idle" /\ Free(SpaceOf[o])
    /\ prov[o] = "pending" /\ owner[o] = TabOf[p] /\ ses[o] = NoSession
    /\ Run(p, "mark", "start", o)
    /\ UNCHANGED <<meta, space, imported, served, faults>>

MarkActivating(p) ==
    /\ pc[p] = "mark"
    /\ Move(job[p].on, {"pending"}, "activating")
    /\ Goto(p, "persist")
    /\ UNCHANGED <<owner, space, imported, served, job, faults>>

(* persistProvisionalAggregateAndOutbox *)
PersistStart(p) ==
    /\ pc[p] = "persist"
    /\ LET o == job[p].on
       IN  /\ ses' = [ses EXCEPT ![o] = [rev |-> 1, clock |-> "running", ended |-> FALSE,
                                         mine |-> "local"]]
           /\ plan' = [plan EXCEPT ![o] = Planned]
           /\ outbox' = outbox \cup {Create(o, ent, 1) : ent \in Initial(o, Planned)}
    /\ Goto(p, "settle")
    /\ UNCHANGED <<meta, marker, receipts, imported, served, job, faults>>

SettleStart(p) ==
    /\ pc[p] = "settle"
    /\ Move(job[p].on, {"activating"}, "pending")
    /\ Exit(p)
    /\ UNCHANGED <<owner, space, imported, served, faults>>

----------------------------------------------------------------------------
(* While the session runs *)

(* pauseProvisional, resumeProvisional, endProvisional: what they check of *)
(* the session before they wait for the fence.                             *)
Ready(o, kind) ==
    CASE kind = "pause"  -> ses[o].clock = "running"
      [] kind = "resume" -> ses[o].clock = "paused"
      [] kind = "end"    -> ses[o].clock # "ended"

Edits == {"pause", "resume", "end"}

Edit(p, o, kind) ==
    /\ pc[p] = "idle"
    /\ ses[o].mine = "local" /\ Ready(o, kind)
    /\ Run(p, "wait", kind, o)
    /\ UNCHANGED <<meta, space, imported, served, faults>>

(* withLocalOwner: under the fence the session is read again, and a task   *)
(* that does not own it any more gives up.                                 *)
Entered(p, kinds) ==
    /\ pc[p] = "wait" /\ job[p].kind \in kinds /\ Free(SpaceOf[job[p].on])

Disowned(p) ==
    /\ Entered(p, Edits) /\ ~OwnedBy(p, job[p].on)
    /\ Exit(p)
    /\ UNCHANGED <<meta, space, imported, served, faults>>

After(s, kind) ==
    CASE kind = "pause"  -> [s EXCEPT !.rev = @ + 1, !.clock = "paused"]
      [] kind = "resume" -> [s EXCEPT !.rev = @ + 1, !.clock = "running"]
      [] OTHER           -> [s EXCEPT !.rev = @ + 1, !.clock = "ended", !.ended = TRUE]

(* persistProvisionalClock; the end has still to be told to the meta       *)
(* database.                                                               *)
MoveClock(p) ==
    /\ Entered(p, {"pause", "resume", "end"})
    /\ LET o == job[p].on
       IN  /\ OwnedBy(p, o) /\ ses[o].rev < MaxRev[o]
           /\ ses' = [ses EXCEPT ![o] = After(@, job[p].kind)]
           /\ outbox' = AppendClock(o, ses[o].rev + 1)
    /\ IF job[p].kind = "end" THEN Goto(p, "retire") /\ UNCHANGED job ELSE Exit(p)
    /\ UNCHANGED <<meta, plan, marker, receipts, imported, served, faults>>

RetireOperation(p) ==
    /\ pc[p] = "retire"
    /\ Move(job[p].on, {"pending", "activating"}, "awaiting_s4")
    /\ Exit(p)
    /\ UNCHANGED <<owner, space, imported, served, faults>>

(* The other edits check nothing before the fence that they do not check   *)
(* again under it.                                                         *)
Editable(p, o) == pc[p] = "idle" /\ Free(SpaceOf[o]) /\ OwnedBy(p, o)

(* updateSessionNote *)
EditNote(p, o) ==
    /\ Editable(p, o) /\ OnSession(o) # {}
    /\ outbox' = MergeNote(o)
    /\ UNCHANGED <<meta, ses, plan, marker, receipts, imported, served, pc, job, faults>>

(* addPlanItem, with the reindexing of the compound *)
AddPlanItem(p, o, i) ==
    /\ Editable(p, o) /\ i \notin plan[o]
    /\ plan' = [plan EXCEPT ![o] = @ \cup {i}]
    /\ outbox' = outbox \cup {Create(o, i, 0)}
    /\ UNCHANGED <<meta, ses, marker, receipts, imported, served, pc, job, faults>>

(* setCurrentPlanItem, setCompletionDraft and removePlanItem name the      *)
(* compound but no place in it: enqueueOutbox refuses the row, and the     *)
(* transaction rolls back.                                                 *)
Refused(p, o) == Editable(p, o) /\ plan[o] # {} /\ UNCHANGED vars

SetCurrentPlanItem(p, o) == Refused(p, o)
SetCompletionDraft(p, o) == Refused(p, o)
RemovePlanItem(p, o)     == Refused(p, o)

----------------------------------------------------------------------------
(* Activation *)

(* reconcileProvisional: an ended session waits for its import, one that   *)
(* runs is offered to the server.                                          *)
Reconcile(p, o) ==
    /\ pc[p] = "idle" /\ Free(SpaceOf[o])
    /\ owner[o] = TabOf[p] /\ ses[o] # NoSession
    /\ \/ /\ ses[o].ended
          /\ Move(o, {"pending", "activating"}, "awaiting_s4")
          /\ UNCHANGED <<pc, job>>
       \/ /\ ~ses[o].ended
          /\ Move(o, {"pending"}, "activating")
          /\ Run(p, "activate", "activate", o)
    /\ UNCHANGED <<owner, space, imported, served, faults>>

(* The server decides an activation once. *)
ServeActivation(p) ==
    /\ pc[p] = "activate"
    /\ LET o == job[p].on
       IN  IF served[o] = "none"
           THEN \E r \in {"authoritative", "activation_conflict"} :
                  served' = [served EXCEPT ![o] = r]
           ELSE UNCHANGED served
    /\ Goto(p, "absorb")
    /\ UNCHANGED <<meta, space, imported, job, faults>>

(* Every row of the session that the outbox holds is an unsent create row. *)
Consumable(o) == WholeCompound(o) /\ RowsOf(o) = Compound(o)

(* cacheAuthoritativeActivation, or the state the caller sets on a conflict *)
Absorb(p) ==
    /\ pc[p] = "absorb"
    /\ LET o == job[p].on
       IN  \/ /\ served[o] = "authoritative"
              /\ IF o \in receipts THEN RowsOf(o) = {} ELSE Consumable(o)
              /\ ses' = [ses EXCEPT ![o].mine = "authoritative"]
              /\ outbox' = outbox \ RowsOf(o)
              /\ receipts' = receipts \cup {o}
              /\ Goto(p, "resolve") /\ UNCHANGED <<prov, job>>
           \/ /\ served[o] = "authoritative"
              /\ ~(IF o \in receipts THEN RowsOf(o) = {} ELSE Consumable(o))
              /\ Move(o, {"activating"}, "pending")
              /\ Exit(p) /\ UNCHANGED <<ses, outbox, receipts>>
           \/ /\ served[o] = "activation_conflict"
              /\ Move(o, {"activating"}, "conflict")
              /\ Exit(p) /\ UNCHANGED <<ses, outbox, receipts>>
    /\ UNCHANGED <<owner, plan, marker, imported, served, faults>>

ResolveActivation(p) ==
    /\ pc[p] = "resolve"
    /\ Move(job[p].on, {"activating"}, "activation_resolved")
    /\ Exit(p)
    /\ UNCHANGED <<owner, space, imported, served, faults>>

----------------------------------------------------------------------------
(* Recovery *)

(* recoverProvisionalStarts lists the operations before it takes a fence. *)
ListStarts(p, o) ==
    /\ pc[p] = "idle" /\ prov[o] = "pending"
    /\ Run(p, "wait", "recover", o)
    /\ UNCHANGED <<meta, space, imported, served, faults>>

(* Faulty variant: it does not look for the session.                       *)
NeverWritten(o) == TRUE
Unwritten(o)    == ses[o] = NoSession

RecoverStart(p) ==
    /\ Entered(p, {"recover"})
    /\ LET o == job[p].on
       IN  prov' = IF Unwritten(o) /\ prov[o] \in {"pending", "activating"}
                   THEN [prov EXCEPT ![o] = "none"] ELSE prov
    /\ Exit(p)
    /\ UNCHANGED <<owner, space, imported, served, faults>>

----------------------------------------------------------------------------
(* Import *)

Here(s)       == {o \in Sessions : SpaceOf[o] = s}
Awaiting(s)   == {r \in InSpace(s) : r.state = "awaiting_s4"}
ReadyRows(s)  == {r \in InSpace(s) : r.state = "ready"}
Transport(s)  == {o \in Here(s) : prov[o] \in {"awaiting_s4", "transport_ready"}}
Roots(rows)   == {r.of : r \in {x \in rows : x.root = "compound"}}

(* The terminal result of the compound was applied to the Space.           *)
Committed(o)  == imported[o] > 0

(* prepareHeldProvisionalBatch: the rows of a compound are creates, the    *)
(* session, its context and its attribution among them.                    *)
Held(o) ==
    /\ \A r \in Compound(o) : r.act = "create" /\ r.exp = 0
    /\ {"session", "context", "attribution"} \subseteq {r.ent : r \in Compound(o)}
    /\ Cardinality({r.state : r \in Compound(o)}) = 1

(* Faulty variant: any operation may be imported.                          *)
AnyState(o) == prov[o] # "none"

Expected(o) ==
    IF \E r \in Compound(o) : r.state = "awaiting_s4"
    THEN prov[o] = "awaiting_s4" ELSE prov[o] = "transport_ready"

(* validateAwaitingS4Snapshot *)
Admissible(s) ==
    /\ \A o \in Roots(InSpace(s)) : Held(o) /\ Expected(o)
    /\ Transport(s) \subseteq Roots(InSpace(s))

(* assertS4AdmissionReady *)
Proven(s) ==
    /\ ReadyRows(s) \subseteq marker[s].rows
    /\ Transport(s) = {o \in Roots(marker[s].rows) : ~Committed(o)}
    /\ \A o \in Transport(s) : prov[o] = "transport_ready"

(* reconcileSpaceCommittedTerminalEvidence, the first step of a push *)
StartSync(p, s) ==
    /\ pc[p] = "idle" /\ Free(s)
    /\ Run(p, "evidence", "sync", s)
    /\ UNCHANGED <<meta, space, imported, served, faults>>

(* resolveTransportTerminal *)
ResolveTransport(os) ==
    prov' = [o \in Sessions |->
               IF o \in os /\ prov[o] = "transport_ready" THEN "transport_resolved" ELSE prov[o]]

ReconcileEvidence(p) ==
    /\ pc[p] \in {"evidence", "apply"}
    /\ ResolveTransport({o \in Here(job[p].on) : Committed(o)})
    /\ Goto(p, IF pc[p] = "evidence" THEN "admit" ELSE "push")
    /\ UNCHANGED <<owner, space, imported, served, job, faults>>

(* admitTs3AwaitingS4 up to its first transaction; what a marker in        *)
(* "meta_pending" holds was admitted before.                               *)
Admit(p) ==
    /\ pc[p] = "admit"
    /\ LET s == job[p].on
       IN  \/ /\ marker[s].state = "meta_pending"
              /\ Goto(p, "bind")
              /\ job' = [job EXCEPT ![p].todo = Roots(marker[s].rows)]
              /\ UNCHANGED <<outbox, marker>>
           \/ /\ marker[s].state = "ready" /\ Awaiting(s) = {}
              /\ IF Proven(s) THEN Goto(p, "push") /\ UNCHANGED job ELSE Exit(p)
              /\ UNCHANGED <<outbox, marker>>
           \/ /\ marker[s].state \in {"none", "failed"} \/
                 (marker[s].state = "ready" /\ Awaiting(s) # {})
              /\ IF Admissible(s)
                 THEN LET admitted == {[r EXCEPT !.state = "ready"] : r \in InSpace(s)}
                      IN  /\ outbox' = (outbox \ InSpace(s)) \cup admitted
                          /\ marker' = [marker EXCEPT ![s] =
                                          [state |-> "meta_pending", rows |-> admitted]]
                          /\ Goto(p, "bind")
                          /\ job' = [job EXCEPT ![p].todo = Roots(admitted)]
                 ELSE /\ marker' = [marker EXCEPT ![s] = [state |-> "failed", rows |-> {}]]
                      /\ Exit(p) /\ UNCHANGED outbox
    /\ UNCHANGED <<meta, ses, plan, receipts, imported, served, faults>>

(* markTransportReady, root by root *)
BindRoot(p, o) ==
    /\ pc[p] = "bind" /\ o \in job[p].todo
    /\ IF prov[o] \in {"awaiting_s4", "transport_ready"}
       THEN /\ prov' = [prov EXCEPT ![o] = "transport_ready"]
            /\ job' = [job EXCEPT ![p].todo = @ \ {o}] /\ UNCHANGED pc
       ELSE Exit(p) /\ UNCHANGED prov
    /\ UNCHANGED <<owner, space, imported, served, faults>>

(* admitTs3AwaitingS4, its last transaction *)
ConfirmAdmission(p) ==
    /\ pc[p] = "bind" /\ job[p].todo = {}
    /\ LET s == job[p].on
       IN  IF marker[s].rows = ReadyRows(s) /\ Awaiting(s) = {}
           THEN /\ marker' = [marker EXCEPT ![s].state = "ready"]
                /\ IF Proven(s) THEN Goto(p, "push") /\ UNCHANGED job ELSE Exit(p)
           ELSE Exit(p) /\ UNCHANGED marker
    /\ UNCHANGED <<meta, ses, plan, outbox, receipts, imported, served, faults>>

(* The server takes a compound; applyTerminalResultTwoPhase writes the     *)
(* Space first and the meta database after it.                             *)
PushCompound(p, o) ==
    /\ pc[p] = "push" /\ SpaceOf[o] = job[p].on
    /\ Compound(o) # {} /\ \A r \in Compound(o) : r.state = "ready"
    /\ imported' = [imported EXCEPT ![o] = 1]
    /\ outbox' = outbox \ Compound(o)
    /\ Goto(p, "apply")
    /\ UNCHANGED <<meta, ses, plan, marker, receipts, served, job, faults>>

(* The clock rows follow, one by one. *)
PushClock(p, o) ==
    /\ pc[p] = "push" /\ SpaceOf[o] = job[p].on /\ Compound(o) = {}
    /\ \E r \in RowsOf(o) :
         /\ r.state = "ready" /\ r.exp = imported[o]
         /\ imported' = [imported EXCEPT ![o] = r.rev]
         /\ outbox' = outbox \ {r}
    /\ UNCHANGED <<meta, ses, plan, marker, receipts, served, pc, job, faults>>

EndSync(p) ==
    /\ pc[p] = "push" /\ ReadyRows(job[p].on) = {}
    /\ Exit(p)
    /\ UNCHANGED <<meta, space, imported, served, faults>>

----------------------------------------------------------------------------
(* Faults *)

(* Start and reconciliation put the operation back when they catch. *)
Caught == {"persist", "settle", "activate", "absorb", "resolve"}

Throw(p) ==
    /\ p \in Inside /\ faults < MaxFaults
    /\ faults' = faults + 1
    /\ prov' = IF pc[p] \in Caught /\ prov[job[p].on] = "activating"
               THEN [prov EXCEPT ![job[p].on] = "pending"] ELSE prov
    /\ Exit(p)
    /\ UNCHANGED <<owner, space, imported, served>>

PageDies(t) ==
    /\ faults < MaxFaults
    /\ faults' = faults + 1
    /\ \E p \in Procs : TabOf[p] = t /\ pc[p] # "idle"
    /\ pc' = [p \in Procs |-> IF TabOf[p] = t THEN "idle" ELSE pc[p]]
    /\ job' = [p \in Procs |-> IF TabOf[p] = t THEN NoJob ELSE job[p]]
    /\ UNCHANGED <<meta, space, imported, served>>

----------------------------------------------------------------------------
Step(p) ==
    \/ MarkActivating(p) \/ PersistStart(p) \/ SettleStart(p)
    \/ Disowned(p) \/ MoveClock(p) \/ RetireOperation(p)
    \/ ServeActivation(p) \/ Absorb(p) \/ ResolveActivation(p)
    \/ RecoverStart(p) \/ ReconcileEvidence(p) \/ Admit(p) \/ ConfirmAdmission(p)
    \/ EndSync(p)
    \/ \E o \in Sessions : BindRoot(p, o) \/ PushCompound(p, o) \/ PushClock(p, o)

Next ==
    \/ \E p \in Procs :
         \/ Step(p) \/ Throw(p)
         \/ \E o \in Sessions : \/ Claim(p, o) \/ ResumeStart(p, o) \/ Reconcile(p, o)
                                \/ ListStarts(p, o) \/ EditNote(p, o)
                                \/ SetCurrentPlanItem(p, o) \/ SetCompletionDraft(p, o)
                                \/ RemovePlanItem(p, o)
                                \/ \E i \in Extra : AddPlanItem(p, o, i)
                                \/ \E kind \in Edits : Edit(p, o, kind)
         \/ \E s \in Spaces : StartSync(p, s)
    \/ \E t \in Tabs : PageDies(t)

Spec == Init /\ [][Next]_vars

----------------------------------------------------------------------------
(* Properties *)

RowSet == [of : Sessions, ent : Initial(0, Items), act : {"create", "update"},
           rev : Nat, exp : Nat, root : {"compound", "alone"},
           state : {"awaiting_s4", "ready"}]

(* Every variable has its type. *)
TypeOK ==
    /\ prov \in [Sessions -> States] /\ owner \in [Sessions -> Tabs \cup {"none"}]
    /\ ses \in [Sessions -> [rev : Nat, clock : {"none", "running", "paused", "ended"},
                             ended : BOOLEAN, mine : {"none", "local", "authoritative"}]]
    /\ plan \in [Sessions -> SUBSET Items]
    /\ outbox \subseteq RowSet
    /\ marker \in [Spaces -> [state : {"none", "failed", "meta_pending", "ready"},
                              rows : SUBSET RowSet]]
    /\ imported \in [Sessions -> Nat]
    /\ served \in [Sessions -> {"none", "authoritative", "activation_conflict"}]
    /\ receipts \subseteq Sessions
    /\ pc \in [Procs -> {"idle", "wait", "mark", "persist", "settle", "retire", "activate",
                         "absorb", "resolve", "evidence", "admit", "bind", "push", "apply"}]
    /\ faults \in Nat

(* A device runs one provisional session at a time, whatever its tabs do,  *)
(* in whatever Spaces: its operation is the only one that blocks a start.  *)
Live(o) == ses[o].mine = "local" /\ ~ses[o].ended

OneSessionRuns ==
    \A o, x \in Sessions :
       /\ Live(o) => prov[o] \in Blocking
       /\ prov[o] \in Blocking /\ prov[x] \in Blocking => o = x

(* A note that is edited once the clock has moved takes the place of the   *)
(* session's create row: that import is lost, see the README.              *)
Overwritten(o) == \E r \in OnSession(o) : r.act = "update" /\ r.exp = 0

(* Until the server has it, the outbox holds all of a provisional session: *)
(* one create row of each of its parts, and the changes of its clock that  *)
(* the server has not seen, none left out and each on top of the other.    *)
NothingIsMissing ==
    \A o \in Sessions : ses[o].mine = "local" /\ ~Overwritten(o) =>
       LET clocks == RowsOf(o) \ Compound(o)
           first  == IF Committed(o) THEN imported[o] + 1 ELSE 2
       IN  /\ IF Committed(o) THEN Compound(o) = {} ELSE WholeCompound(o)
           /\ {[r EXCEPT !.state = "awaiting_s4"] : r \in clocks} =
                {Clock(o, rev) : rev \in first..ses[o].rev}
           /\ Cardinality(clocks) = ses[o].rev + 1 - first

(* Rows of an import have an operation that answers for them, and what the *)
(* server activated is not imported as well by the device that absorbed it. *)
RowsHaveAuthority ==
    \A r \in outbox :
       /\ r.root = "compound" =>
            prov[r.of] \in {"pending", "activating", "conflict", "awaiting_s4", "transport_ready"}
       /\ r.root = "compound" /\ r.state = "ready" =>
            prov[r.of] \in {"awaiting_s4", "transport_ready"}
       /\ r.of \notin receipts

(* What has been admitted for transport does not change any more.          *)
Admitted(o) == Committed(o) \/ \E r \in RowsOf(o) : r.state = "ready"

AdmittedIsFrozen ==
    [][\A o \in Sessions : Admitted(o) =>
          /\ ses'[o] = ses[o] /\ plan'[o] = plan[o]
          /\ \A r \in {x \in outbox' : x.of = o} : r \in outbox]_vars
=============================================================================
