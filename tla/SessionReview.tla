--------------------------- MODULE SessionReview ---------------------------
(***************************************************************************)
(* The plan of one focus session, its reviews, and the commands that a     *)
(* review leaves behind: a review that marks a planned work item complete  *)
(* or cancelled writes an envelope, and a reconciliation carries it out in *)
(* the Task Space and writes its receipt.                                  *)
(*                                                                         *)
(* Reviews and reconciliations come in on read handles: their batches hold *)
(* the shared lease, so that several are compiled before one commits, and  *)
(* a commit compares the versions of the rows it updates.  Receipts have   *)
(* none.  A batch begins with the recovery of those that are unfinished;   *)
(* one whose rows have moved stays staged, and no later batch gets past    *)
(* its recovery.  The plan is changed by the coordinator, and by pushes,   *)
(* under the exclusive lease: no other batch is then unfinished.           *)
(*                                                                         *)
(* A request names the versions it saw and is refused unless they are      *)
(* current when it is compiled: only requests that pass appear.            *)
(*                                                                         *)
(* Left out: the times a review must not precede, personas and notes, the  *)
(* ranks and drafts of the plan, breaks and sessions in conflict (they are *)
(* refused), the level-2 item's parent and estimate, several commands in   *)
(* one reconciliation, one request twice at the same time; the steps of a  *)
(* commit, but for those of a command: other batches commit in one step.   *)
(***************************************************************************)
EXTENDS Naturals, FiniteSets, Sequences

CONSTANTS Tasks,        \* level-3 work items
          Level2,       \* the work item the session is linked to
          Roots,        \* requests, by their operation ids
          Headings,     \* titles of work items
          ReplaySafe,   \* transitions the Task Space declares safe to replay
          MaxVersions,  \* bound: versions of the session
          MaxOutcomes,  \* bound: revisions of an outcome
          MaxEvents,    \* bound: edits of work items and requests lost
          Nil           \* no row, no claim, no structure

\* A work item has one level.
ASSUME LevelsAssumption == Level2 \notin Tasks

Transitions == {"complete", "cancel"}
Marks == Transitions \cup {"none"}
TerminalStates == {"succeeded", "failed", "conflict", "abandoned"}

VARIABLES session,     \* its clock, ownership, validity and version
          plan,        \* task -> its plan row, Nil if there is none
          frozen,      \* session_task_context: the structure at the start
          work,        \* work item -> its row
          outcomes,    \* task -> its outcomes, the last one effective
          envelopes,   \* command -> task, transition and expected version
          receipts,    \* command -> its receipt, Nil if there is none
          journal,     \* command -> what became of its own batch
          before,      \* command -> the row that its batch has written over
          jammed,      \* batches that stay staged: their rows have moved
          recorded,    \* operations that wrote a receipt, or tried to
          calls,       \* request -> where it is
          events        \* how many edits and losses there were

planVars == <<session, plan, frozen>>
batchVars == <<journal, before, jammed>>
reviewVars == <<session, plan, frozen, work, outcomes, envelopes, receipts,
                batchVars, recorded, calls, events>>

\* The envelope that a review makes for a task.
Command(r, i) == <<r, i>>
Enveloped(c) == c \in DOMAIN envelopes

\* A batch is staged, writes its rows and is finalized; recovery aborts one
\* that lacks its stages, or takes written rows back.
Unfinished == {"running", "committed"}

\* A batch that was aborted keeps the result it was to have, and is answered
\* from it like one that was applied.
Answered == {"applied", "aborted"}

\* A command that was refused has a batch, and no operation.
Refused == {"failed", "conflict"}

\* A batch begins: those before it have been recovered.
Begins == jammed = {}

Underway(r) == calls[r].pc \notin {"none", "lost", "done"}
Exclusive ==
    /\ Begins
    /\ \A r \in Roots : ~Underway(r)
    /\ \A c \in Roots \X Tasks : journal[c] \notin Unfinished
Go(r, call) == calls' = [calls EXCEPT ![r] = call]
Finish(r) == Go(r, [pc |-> "done"])

----------------------------------------------------------------------------
(* Work items, as users and other requests change them. *)

Changed(row, f, v) == [row EXCEPT ![f] = v, !.version = @ + 1]

EditTask(w, f, v) ==
    /\ Begins /\ events < MaxEvents /\ work[w][f] # v
    /\ events' = events + 1
    /\ work' = [work EXCEPT ![w] = Changed(@, f, v)]
    /\ UNCHANGED <<planVars, outcomes, envelopes, receipts, batchVars, recorded, calls>>

----------------------------------------------------------------------------
(* The plan. *)

Planned == {i \in Tasks : plan[i] # Nil /\ ~plan[i].removed}

PlanRow(i, source) ==
    [source |-> source, title |-> work[i].title, removed |-> FALSE, current |-> FALSE]

\* A session that starts, or is activated, freezes the structure it plans.
\* One that was pushed has a context without it.
Structure(S) == [level2 |-> work[Level2], tasks |-> [i \in S |-> work[i]]]
Context(structure) ==
    [title |-> work[Level2].title, status |-> work[Level2].status, structure |-> structure]

OpenPlan == Exclusive /\ ~session.ended
Replanned(p) ==
    /\ plan' = p
    /\ UNCHANGED <<session, work, outcomes, envelopes, receipts, batchVars, recorded, calls, events>>

\* A task is added once, even if it was removed, and frozen as it is.
MayPlan(i) == work[i].status = "open"

AlsoFrozen(i) ==
    [frozen EXCEPT !.structure.tasks =
        [j \in DOMAIN @ \cup {i} |-> IF j = i THEN work[i] ELSE @[j]]]

AddPlan(i) ==
    /\ OpenPlan /\ frozen.structure # Nil
    /\ plan[i] = Nil /\ MayPlan(i)
    /\ Replanned([plan EXCEPT ![i] = PlanRow(i, "during_session")])
    /\ frozen' = AlsoFrozen(i)

RemovePlan(i) ==
    /\ OpenPlan /\ i \in Planned
    /\ Replanned([plan EXCEPT ![i].removed = TRUE, ![i].current = FALSE])
    /\ UNCHANGED frozen

SetCurrent(target) ==
    /\ OpenPlan /\ target \in Planned \cup {Nil}
    /\ Replanned([i \in Tasks |-> IF plan[i] = Nil THEN Nil
                                  ELSE [plan[i] EXCEPT !.current = (i = target)]])
    /\ UNCHANGED frozen

EndSession(validity) ==
    /\ OpenPlan
    /\ session' = [session EXCEPT !.ended = TRUE, !.validity = validity,
                                  !.version = @ + 1]
    /\ UNCHANGED <<plan, frozen, work, outcomes, envelopes, receipts, batchVars,
                   recorded, calls, events>>

\* A device pushes rows of a session while it is its own and not judged.
Pushable == Exclusive /\ session.own = "local_provisional" /\ session.validity = "pending"

\* What identifies a row stays.
MayPush(i, row) ==
    IF plan[i] = Nil THEN ~row.removed
    ELSE row.source = plan[i].source /\ row.title = plan[i].title

PushPlan(i, row) ==
    /\ Pushable /\ MayPush(i, row)
    /\ Replanned([plan EXCEPT ![i] = row])
    /\ UNCHANGED frozen

\* It pushes an outcome of its own review, whose command has no envelope.
PushOutcome(i, mark) ==
    /\ Pushable /\ session.ended
    /\ outcomes[i] = <<>>
    /\ outcomes' = [outcomes EXCEPT ![i] = <<mark>>]
    /\ UNCHANGED <<planVars, work, envelopes, receipts, batchVars, recorded, calls, events>>

----------------------------------------------------------------------------
(* A review. *)

\* _validate_frozen_work_item: a version that moved is allowed for where the
\* effort projection moved it.
Unchanged(row, old, projected) ==
    /\ row.title = old.title /\ row.status = old.status
    /\ row.version = old.version \/ (projected /\ row.effort # old.effort)

FrozenTasks == IF frozen.structure = Nil THEN {} ELSE DOMAIN frozen.structure.tasks

TaskHolds(i) ==
    /\ work[i].title = plan[i].title
    /\ i \notin FrozenTasks => plan[i].source # "before_start"
    /\ i \in FrozenTasks => Unchanged(work[i], frozen.structure.tasks[i], FALSE)

SnapshotsHold ==
    /\ work[Level2].title = frozen.title /\ work[Level2].status = frozen.status
    /\ frozen.structure # Nil => Unchanged(work[Level2], frozen.structure.level2, TRUE)
    /\ \A i \in Planned : TaskHolds(i)

Judged(v) ==
    [session EXCEPT !.validity = v, !.version = @ + 1,
                    !.own = IF v = "valid" THEN "authoritative" ELSE @]

\* The effort of the level-2 item is that of the session once it counts.
Effort(s) == IF s.ended /\ s.validity = "valid" /\ s.own = "authoritative" THEN 1 ELSE 0
Credited(s) ==
    IF work[Level2].effort = Effort(s) THEN work[Level2]
    ELSE Changed(work[Level2], "effort", Effort(s))

Envelopes(r, marks) ==
    [c \in {Command(r, i) : i \in {j \in DOMAIN marks : marks[j] \in Transitions}} |->
        [task |-> c[2], transition |-> marks[c[2]], expected |-> work[c[2]].version]]

Reviewable == session.ended /\ session.version < MaxVersions

CompileReview(r, marks, v) ==
    /\ Begins /\ calls[r].pc = "none"
    /\ Reviewable /\ SnapshotsHold
    /\ DOMAIN marks \subseteq Planned
    /\ \A i \in DOMAIN marks : Len(outcomes[i]) < MaxOutcomes
    /\ Go(r, [pc |-> "review", marks |-> marks, seen |-> session,
              after |-> Judged(v), level2 |-> work[Level2], credited |-> Credited(Judged(v)),
              envelopes |-> Envelopes(r, marks)])
    /\ UNCHANGED <<planVars, work, outcomes, envelopes, receipts, batchVars, recorded, events>>

\* The commit compares the version of the session and, where its effort moves,
\* that of the level-2 item: not those of the tasks.
ReviewCurrent(k) ==
    /\ session.version = k.seen.version
    /\ k.credited # k.level2 => work[Level2].version = k.level2.version

\* Each outcome replaces the one that was effective.
Superseded(marks) ==
    [i \in Tasks |-> IF i \in DOMAIN marks THEN Append(outcomes[i], marks[i]) ELSE outcomes[i]]

CommitReview(r) ==
    LET k == calls[r] IN
    /\ k.pc = "review" /\ ReviewCurrent(k)
    /\ session' = k.after
    /\ work' = IF k.credited = k.level2 THEN work ELSE [work EXCEPT ![Level2] = k.credited]
    /\ outcomes' = Superseded(k.marks)
    /\ envelopes' = [c \in DOMAIN envelopes \cup DOMAIN k.envelopes |->
                        IF c \in DOMAIN k.envelopes THEN k.envelopes[c] ELSE envelopes[c]]
    /\ Finish(r)
    /\ UNCHANGED <<plan, frozen, receipts, batchVars, recorded, events>>

\* A commit whose rows have moved fails, and leaves its batch staged.
Jam(batch) == jammed' = jammed \cup {batch} /\ UNCHANGED <<journal, before>>

JamReview(r) ==
    /\ calls[r].pc = "review" /\ ~ReviewCurrent(calls[r])
    /\ Jam(r)
    /\ Finish(r)
    /\ UNCHANGED <<planVars, work, outcomes, envelopes, receipts, recorded, events>>

----------------------------------------------------------------------------
(* A reconciliation: its admission. *)

Claim(kind, r) == [kind |-> kind, root |-> r]
ClaimOf(receipt) == IF receipt = Nil THEN Nil ELSE receipt.claim
Claimed(receipt) == ClaimOf(receipt) # Nil /\ ClaimOf(receipt).kind = "replay_claimed"
IsTerminal(receipt) == receipt # Nil /\ receipt.state \in TerminalStates
Receipt(state, claim) == [state |-> state, claim |-> claim]

\* The journal holds no operation of the command.
Unjournaled(c) == journal[c] \in {"absent"} \cup Refused

\* A command that has its outcome is only observed.
OnlyObserve(c) == journal[c] \in Answered \/ IsTerminal(receipts[c])

MayAbandon(c) == ~OnlyObserve(c) /\ Unjournaled(c) /\ ~Claimed(receipts[c])

MayReplay(r, c) ==
    /\ ~OnlyObserve(c) /\ Unjournaled(c)
    /\ envelopes[c].transition \in ReplaySafe
    /\ Claimed(receipts[c]) => ClaimOf(receipts[c]).root = r

\* What a request for command c may be answered: `wish' is what it asks for.
Decision(r, c, wish) ==
    CASE wish = "abandon" /\ MayAbandon(c) -> "abandoned"
      [] wish = "replay" /\ MayReplay(r, c) -> "replay_claimed"
      [] OTHER -> "observe"

Admissible(c, wish) == wish = "abandon" => OnlyObserve(c) \/ MayAbandon(c)

\* The receipt that the admission writes, Nil if it writes none.
AdmissionReceipt(r, c, decision) ==
    CASE decision = "abandoned" -> Receipt("abandoned", Nil)
      [] decision = "replay_claimed" /\ ~Claimed(receipts[c]) ->
            Receipt(IF receipts[c] = Nil THEN "pending" ELSE receipts[c].state,
                    Claim("replay_claimed", r))
      [] OTHER -> Nil

\* A write that is compiled: it inserts the receipt if there is none.
Write(c, receipt) ==
    [to |-> receipt, insert |-> receipts[c] = Nil, seen |-> session.version]

CompileAdmission(r, c, wish) ==
    /\ Begins /\ calls[r].pc = "none" /\ Enveloped(c) /\ Admissible(c, wish)
    /\ LET decision == Decision(r, c, wish) IN
       Go(r, [pc |-> "admit", command |-> c, decision |-> decision,
              write |-> Write(c, AdmissionReceipt(r, c, decision))])
    /\ UNCHANGED <<planVars, work, outcomes, envelopes, receipts, batchVars, recorded, events>>

\* A batch that writes a receipt carries the session along, unchanged: the
\* commit compares the session's version, and an insert must find no row.
CommitsWrite(c, write) ==
    /\ session.version = write.seen
    /\ write.to # Nil /\ write.insert => receipts[c] = Nil

AfterWrite(c, write) ==
    IF write.to = Nil THEN receipts ELSE [receipts EXCEPT ![c] = write.to]

CommitAdmission(r) ==
    LET k == calls[r] IN
    /\ k.pc = "admit"
    /\ IF CommitsWrite(k.command, k.write)
       THEN /\ receipts' = AfterWrite(k.command, k.write)
            /\ Go(r, [pc |-> "admitted", command |-> k.command, decision |-> k.decision])
            /\ UNCHANGED batchVars
       ELSE Jam(r) /\ Finish(r) /\ UNCHANGED receipts
    /\ UNCHANGED <<planVars, work, outcomes, envelopes, recorded, events>>

----------------------------------------------------------------------------
(* A reconciliation: its commands are carried out. *)

ReadReceipt(r) ==
    LET k == calls[r] IN
    /\ k.pc = "admitted"
    /\ Go(r, [pc |-> "read", command |-> k.command, decision |-> k.decision,
              local |-> receipts[k.command]])
    /\ UNCHANGED <<planVars, work, outcomes, envelopes, receipts, batchVars, recorded, events>>

\* Faulty variant: no answer is taken for a failure.
NoAnswerIsFailure(outcome) ==
    CASE outcome \in Answered -> "succeeded"
      [] outcome = "timeout" -> "failed"
      [] OTHER -> outcome

\* The outcome of a command as its receipt states it.
OutcomeState(outcome) ==
    CASE outcome \in Answered -> "succeeded"
      [] outcome = "timeout" -> "unknown"
      [] OTHER -> outcome

ToRecord(c, decision, state, expected) ==
    [pc |-> "record", command |-> c, decision |-> decision, state |-> state,
     expected |-> expected]

\* Having read the receipt, the request looks for the outcome.
QueryOriginal(r) ==
    LET k == calls[r]
        settled == journal[k.command] \in Answered
        own == Claim("replay_claimed", r)
    IN
    /\ k.pc = "read"
    /\ Go(r, CASE settled /\ ~(k.local # Nil /\ k.local.state = "abandoned") ->
                    ToRecord(k.command, k.decision, OutcomeState(journal[k.command]),
                             ClaimOf(k.local))
               [] ~settled /\ k.decision = "observe" /\ k.local = Nil ->
                    ToRecord(k.command, k.decision, "pending", Nil)
               [] ~settled /\ k.decision = "replay_claimed" /\ ~IsTerminal(k.local)
                    /\ ClaimOf(k.local) = own ->
                    [pc |-> "execute", command |-> k.command, decision |-> k.decision]
               [] OTHER -> [pc |-> "done"])
    /\ UNCHANGED <<planVars, work, outcomes, envelopes, receipts, batchVars, recorded, events>>

OutcomeKnown(r, outcome) ==
    LET k == calls[r] IN
    Go(r, ToRecord(k.command, k.decision, OutcomeState(outcome), Claim("replay_claimed", r)))

\* The request fails with an exception: it may be sent again.
Lost(k) == [pc |-> "lost", command |-> k.command, decision |-> k.decision]

\* TransitionWorkItem: the fence wants a claim on the envelope, of any root.
AsExpected(c) == work[envelopes[c].task].version = envelopes[c].expected

CompileTransition(r) ==
    LET c == calls[r].command
        verdict == IF ~Claimed(receipts[c]) THEN "failed"
                   ELSE IF ~AsExpected(c) THEN "conflict" ELSE "running"
    IN
    /\ Begins /\ calls[r].pc = "execute" /\ journal[c] = "absent"
    /\ journal' = [journal EXCEPT ![c] = verdict]
    /\ IF verdict = "running"
       THEN Go(r, [pc |-> "executing", command |-> c, decision |-> calls[r].decision])
       ELSE OutcomeKnown(r, verdict)
    /\ UNCHANGED <<planVars, work, outcomes, envelopes, receipts, before, jammed,
                   recorded, events>>

\* The command has a batch already: its result is returned, if it has one.
ReplayTransition(r) ==
    LET c == calls[r].command IN
    /\ Begins /\ calls[r].pc = "execute"
    /\ \/ journal[c] \in Answered \cup Refused /\ OutcomeKnown(r, journal[c])
       \/ journal[c] = "compensated" /\ Go(r, Lost(calls[r]))
    /\ UNCHANGED <<planVars, work, outcomes, envelopes, receipts, batchVars, recorded, events>>

\* Faulty variant: they are not.
NotComparedAgain(c) == TRUE

\* The rows are compared again when the batch commits.
StillExpected(c) == AsExpected(c)

Transited(c) ==
    [work EXCEPT ![envelopes[c].task] = Changed(@, "status", envelopes[c].transition)]

\* The batch of a command writes its rows, or cannot.
Carry(c) ==
    /\ journal[c] = "running" /\ StillExpected(c)
    /\ journal' = [journal EXCEPT ![c] = "committed"]
    /\ before' = [before EXCEPT ![c] = work[envelopes[c].task]]
    /\ work' = Transited(c)
    /\ jammed' = jammed \ {c}

JamCommand(c) == journal[c] = "running" /\ ~StillExpected(c) /\ Jam(c) /\ UNCHANGED work

\* It is finalized, or aborted before it has written anything.
Settle(c, from, to) ==
    /\ journal[c] = from
    /\ journal' = [journal EXCEPT ![c] = to]
    /\ before' = [before EXCEPT ![c] = Nil]
    /\ UNCHANGED <<work, jammed>>

\* The row that it has written over is put back, whatever is there now.
TakeBack(c) ==
    /\ journal[c] = "committed"
    /\ journal' = [journal EXCEPT ![c] = "compensated"]
    /\ before' = [before EXCEPT ![c] = Nil]
    /\ work' = [work EXCEPT ![envelopes[c].task] = before[c]]
    /\ UNCHANGED jammed

CommitTransition(r) ==
    LET c == calls[r].command IN
    /\ calls[r].pc = "executing"
    /\ \/ Carry(c) /\ UNCHANGED calls
       \/ JamCommand(c) /\ Go(r, Lost(calls[r]))
    /\ UNCHANGED <<planVars, outcomes, envelopes, receipts, recorded, events>>

FinalizeTransition(r) ==
    /\ calls[r].pc = "executing"
    /\ Settle(calls[r].command, "committed", "applied")
    /\ OutcomeKnown(r, "applied")
    /\ UNCHANGED <<planVars, outcomes, envelopes, receipts, recorded, events>>

\* The next batch of anybody recovers one that is not finished, forward or
\* back; its own request then fails.
Recover(c) ==
    /\ Enveloped(c)
    /\ \/ Carry(c) \/ JamCommand(c) \/ TakeBack(c)
       \/ c \notin jammed /\ Settle(c, "running", "aborted")
       \/ Settle(c, "committed", "applied")
    /\ calls' = [r \in Roots |-> IF calls[r].pc = "executing" /\ calls[r].command = c
                                 THEN Lost(calls[r]) ELSE calls[r]]
    /\ UNCHANGED <<planVars, outcomes, envelopes, receipts, recorded, events>>

\* The Task Space does not answer in time: what it does may be done all the same.
TimeOut(r) ==
    /\ calls[r].pc \in {"execute", "executing"}
    /\ OutcomeKnown(r, "timeout")
    /\ UNCHANGED <<planVars, work, outcomes, envelopes, receipts, batchVars, recorded, events>>

----------------------------------------------------------------------------
(* A reconciliation: its receipts. *)

\* The operation that writes a receipt: of the root that claimed, if any.
ReceiptOperation(k) ==
    <<k.command, k.state, IF k.expected = Nil THEN Nil ELSE k.expected.root>>

\* A receipt without a verdict is claimed by nobody.
Verdict(k) ==
    Receipt(k.state, IF k.state = "unknown" THEN Claim("replay_finished_unknown", k.expected.root)
                     ELSE Nil)

MayRecord(k) ==
    /\ ~IsTerminal(receipts[k.command])
    /\ receipts[k.command] # Nil => ClaimOf(receipts[k.command]) = k.expected

CompileReceipt(r) ==
    LET k == calls[r]
        fresh == ~IsTerminal(receipts[k.command]) /\ ReceiptOperation(k) \notin recorded
    IN
    /\ k.pc = "record" /\ (fresh => Begins)
    /\ recorded' = IF fresh THEN recorded \cup {ReceiptOperation(k)} ELSE recorded
    /\ IF fresh /\ MayRecord(k)
       THEN Go(r, [pc |-> "receipt", command |-> k.command, decision |-> k.decision,
                   write |-> Write(k.command, Verdict(k))])
       ELSE Finish(r)
    /\ UNCHANGED <<planVars, work, outcomes, envelopes, receipts, batchVars, events>>

CommitReceipt(r) ==
    LET k == calls[r] IN
    /\ k.pc = "receipt"
    /\ IF CommitsWrite(k.command, k.write)
       THEN receipts' = AfterWrite(k.command, k.write) /\ UNCHANGED batchVars
       ELSE Jam(r) /\ UNCHANGED receipts
    /\ Finish(r)
    /\ UNCHANGED <<planVars, work, outcomes, envelopes, recorded, events>>

\* A request is lost with its process or its client.  Sent again, a
\* reconciliation finds its admission in the journal and goes on from there:
\* one that was aborted too, whose receipt was never written.
LoseRequest(r) ==
    /\ Underway(r) /\ events < MaxEvents
    /\ events' = events + 1
    /\ Go(r, IF calls[r].pc = "review" THEN [pc |-> "done"] ELSE Lost(calls[r]))
    /\ UNCHANGED <<planVars, work, outcomes, envelopes, receipts, batchVars, recorded>>

SendAgain(r) ==
    /\ Begins /\ calls[r].pc = "lost"
    /\ Go(r, [calls[r] EXCEPT !.pc = "admitted"])
    /\ UNCHANGED <<planVars, work, outcomes, envelopes, receipts, batchVars, recorded, events>>

----------------------------------------------------------------------------
(* The specification. *)

NewItem == [title |-> CHOOSE t \in Headings : TRUE, status |-> "open", effort |-> 0, version |-> 1]

InitialPlan(S) == [i \in Tasks |-> IF i \in S THEN PlanRow(i, "before_start") ELSE Nil]

ReviewInit ==
    /\ session \in [own : {"authoritative", "local_provisional"}, ended : BOOLEAN,
                    validity : {"pending"}, version : {1}]
    /\ work = [w \in Tasks \cup {Level2} |-> NewItem]
    /\ \E S \in SUBSET Tasks :
         /\ plan = InitialPlan(S)
         /\ \/ frozen = Context(Structure(S))
            \/ session.own = "local_provisional" /\ S = {} /\ frozen = Context(Nil)
    /\ outcomes = [i \in Tasks |-> <<>>]
    /\ envelopes = [c \in {} |-> Nil]
    /\ receipts = [c \in Roots \X Tasks |-> Nil]
    /\ journal = [c \in Roots \X Tasks |-> "absent"]
    /\ before = [c \in Roots \X Tasks |-> Nil]
    /\ jammed = {}
    /\ recorded = {}
    /\ calls = [r \in Roots |-> [pc |-> "none"]]
    /\ events = 0

PlanStep ==
    \/ \E i \in Tasks : AddPlan(i) \/ RemovePlan(i)
    \/ \E target \in Tasks \cup {Nil} : SetCurrent(target)
    \/ \E v \in {"valid", "invalid", "pending"} : EndSession(v)
    \/ \E i \in Tasks, source \in {"before_start", "during_session"}, t \in Headings,
          removed \in BOOLEAN :
            PushPlan(i, [source |-> source, title |-> t, removed |-> removed,
                         current |-> FALSE])
    \/ \E i \in Tasks, mark \in Marks : PushOutcome(i, mark)

ReviewStep(r) ==
    \/ \E S \in SUBSET Tasks : \E marks \in [S -> Marks], v \in {"valid", "invalid"} :
           CompileReview(r, marks, v)
    \/ CommitReview(r) \/ JamReview(r)

ReconcileStep(r) ==
    \/ \E c \in Roots \X Tasks, wish \in {"observe", "abandon", "replay"} :
           CompileAdmission(r, c, wish)
    \/ CommitAdmission(r) \/ ReadReceipt(r) \/ QueryOriginal(r)
    \/ CompileTransition(r) \/ ReplayTransition(r) \/ TimeOut(r)
    \/ CommitTransition(r) \/ FinalizeTransition(r)
    \/ CompileReceipt(r) \/ CommitReceipt(r)
    \/ LoseRequest(r) \/ SendAgain(r)

ReviewNext ==
    \/ PlanStep
    \/ \E w \in Tasks \cup {Level2} :
         \/ \E t \in Headings : EditTask(w, "title", t)
         \/ \E s \in {"open"} \cup Transitions : EditTask(w, "status", s)
    \/ \E c \in Roots \X Tasks : Recover(c)
    \/ \E r \in Roots : ReviewStep(r) \/ ReconcileStep(r)

ReviewSpec == ReviewInit /\ [][ReviewNext]_reviewVars

\* What a receipt says happened: requests that were lost, late, overtaken by
\* another root or cut short by a timeout never make one claim a failure of a
\* command that took effect, nor a success of one that was refused, taken back
\* or is still under way.  A batch that recovery aborted is answered as applied:
\* that one success is false, and the code's.
ReceiptsAreTrue ==
    \A c \in DOMAIN envelopes : IsTerminal(receipts[c]) =>
        CASE receipts[c].state = "succeeded" -> journal[c] \in Answered
          [] receipts[c].state \in Refused -> journal[c] = receipts[c].state
          [] OTHER -> TRUE

\* A command takes effect on its work item as the session froze it, hence one
\* command of the session at a time, whatever was edited, reviewed again,
\* replayed or taken back between the start of the session and its commit.
CommandsActOnFrozenTasks ==
    [][\A c \in DOMAIN envelopes :
          /\ journal[c] # "committed" /\ journal'[c] = "committed"
          /\ envelopes[c].task \in FrozenTasks
          => work[envelopes[c].task] = frozen.structure.tasks[envelopes[c].task]]_reviewVars
=============================================================================
