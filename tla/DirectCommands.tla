--------------------------- MODULE DirectCommands ---------------------------
(***************************************************************************)
(* Commands that a page sends to the server at once, and not through the   *)
(* outbox (frontend lib/direct-command-intents.ts): those of the Task      *)
(* Space (task-space-repository.ts) and the review of an ended session     *)
(* (focus-session/review-intent-executor.ts, the reviews of                *)
(* focus-session-repository.ts, session-review-draft-registry.ts).         *)
(*                                                                         *)
(* An intent in the database of the Space keeps the exact request under    *)
(* its operation id before it is sent, and what became of it.  All pages   *)
(* share the database and nothing excludes them: the one that submits, a   *)
(* round that resumes what is pending and a sync cycle may work on one     *)
(* intent at the same time, while the draft of a review is edited.  Every  *)
(* step below is one transaction or one answer of the server.              *)
(***************************************************************************)
EXTENDS Naturals

CONSTANTS
    Pages, Commands,   \* Commands: operation ids
    Items,             \* what the commands of the Task Space are about
    Sessions,          \* ended sessions that wait for their review
    Contents,
    MaxVersion,        \* bound on the versions other devices make
    MaxFaults,         \* bound on dead pages, lost answers and exceptions
    None

ASSUME DirectAssumption ==
    /\ Items \cap Sessions = {}
    /\ MaxVersion \in Nat /\ MaxFaults \in Nat
    /\ None \notin Commands

Targets  == Items \cup Sessions
Failures == {"code", "handler", "unanswered"}

Requests  == [target : Targets, ver : Nat, content : Contents]
Decisions == [req : Requests, verdict : {"accepted", "rejected"}]
Drafts    == [op : Commands, ver : Nat, content : Contents]
Intents   == [req : Requests, state : {"prepared", "in_flight", "terminal", "failed"},
              why : Failures \cup {"none"}, after : SUBSET Commands]

(* No row is the value for an absent one. *)
ASSUME NoneAssumption ==
    None \notin Intents /\ None \notin Drafts /\ None \notin Decisions

VARIABLES
    imported, \* sessions that ran offline and reach the server by an import
    version,  \* version[t]: of the row on the server
    decided,  \* decided[c]: what the server journaled of operation c
    copy,     \* copy[t]: version of the row in the database of the Space
    intent,   \* intent[c]: its intent
    draft,    \* draft[s]: the draft of the review of s
    held,     \* held[p]: the draft a page edits, and of which session
    taken,    \* operation ids that have been drawn
    sent,     \* requests that may still arrive
    call,     \* call[p]: what the page is doing
    faults

server == <<imported, version, decided>>
space  == <<copy, intent, draft>>
vars   == <<server, space, held, taken, sent, call, faults>>

Request(t, v, x) == [target |-> t, ver |-> v, content |-> x]
IsReview(r)      == r.target \in Sessions

Pending(c) == intent[c] # None /\ intent[c].state \in {"prepared", "in_flight"}
Settled(c) == intent[c] # None /\ intent[c].state \in {"terminal", "failed"}

Init ==
    /\ imported \in SUBSET Sessions
    /\ version = [t \in Targets |-> IF t \in imported THEN 0 ELSE 1]
    /\ copy = version
    /\ decided = [c \in Commands |-> None]
    /\ intent = [c \in Commands |-> None]
    /\ draft = [s \in Sessions |-> None]
    /\ held = [p \in Pages |-> None]
    /\ taken = {} /\ sent = {}
    /\ call = [p \in Pages |-> None]
    /\ faults = 0

----------------------------------------------------------------------------
(* Calls.  "by" tells who asked: the user, a sync cycle, or a round that   *)
(* resumes what is pending and has "todo" before it.                       *)

Idle(p)     == call[p] = None
At(p, here) == call[p] # None /\ call[p].at = here
Op(p)       == call[p].op
Req(p)      == call[p].req

Call(p, here, by, c, r, todo) ==
    call' = [call EXCEPT ![p] = [at |-> here, by |-> by, op |-> c, req |-> r,
                                 todo |-> todo, why |-> "none"]]
Goto(p, here) == call' = [call EXCEPT ![p].at = here]
Return(p)     == call' = [call EXCEPT ![p] = None]

(* What a request goes through first: only a review has a draft to check.  *)
First(r) == IF IsReview(r) THEN "check" ELSE "start"

Done(p) == IF call[p].by = "round" THEN Goto(p, "next") ELSE Return(p)

(* The page that submitted a review has done with its draft. *)
Release(p) == held' = IF call[p].by = "user" /\ IsReview(Req(p))
                      THEN [held EXCEPT ![p] = None] ELSE held

(* Faulty variants: an exception ends the round, as it once did; no answer *)
(* is taken for a no.                                                      *)
OnlyCodesFail(why) == IF why = "code" THEN "failed" ELSE "abort"
SilenceIsNo(why)   == "failed"

(* classifyIntentFailure: the server said no, the program failed, or there *)
(* was no answer that counts.                                              *)
Disposition(why) == IF why = "unanswered" THEN "abort" ELSE "failed"

Fail(p, why) ==
    IF call[p].by = "round" /\ Disposition(why) = "failed"
    THEN call' = [call EXCEPT ![p].at = "mark", ![p].why = why]
    ELSE Return(p)

----------------------------------------------------------------------------
(* Drafts of reviews.  A draft keeps its operation id and its version.     *)

Reviewed(s) == \E c \in Commands : intent[c] # None /\ intent[c].state = "terminal"
                                     /\ intent[c].req.target = s

Row(h) == [op |-> h.op, ver |-> h.ver, content |-> h.content]

(* SessionReviewDraftController.open *)
Open(p, s) ==
    /\ held[p] = None /\ ~Reviewed(s)
    /\ IF draft[s] # None
       THEN /\ held' = [held EXCEPT ![p] =
                          [session |-> s, op |-> draft[s].op, ver |-> draft[s].ver,
                           content |-> draft[s].content]]
            /\ UNCHANGED taken
       ELSE \E c \in Commands \ taken, x \in Contents :
              /\ taken' = taken \cup {c}
              /\ held' = [held EXCEPT ![p] =
                            [session |-> s, op |-> c, ver |-> copy[s], content |-> x]]
    /\ UNCHANGED <<server, space, sent, call, faults>>

Edit(p, x) ==
    /\ held[p] # None /\ held[p].content # x
    /\ held' = [held EXCEPT ![p].content = x]
    /\ UNCHANGED <<server, space, taken, sent, call, faults>>

Flush(p) ==
    /\ held[p] # None
    /\ draft' = [draft EXCEPT ![held[p].session] = Row(held[p])]
    /\ UNCHANGED <<server, copy, intent, held, taken, sent, call, faults>>

Close(p) ==
    /\ held[p] # None
    /\ held' = [held EXCEPT ![p] = None]
    /\ UNCHANGED <<server, space, taken, sent, call, faults>>

(* requirePersistedExactSessionReviewDraft *)
Persisted(p) == held[p] # None /\ draft[held[p].session] = Row(held[p])

(* Faulty variant: the draft is cleared whatever has become of it.         *)
AnyDraft(d, c, r) == TRUE

(* resolveReviewIntentMode and requireReviewDraftMatchesBoundRequest: the  *)
(* draft says what the request says, the version of an import apart.       *)
Matches(d, c, r) ==
    /\ d # None /\ d.op = c /\ d.content = r.content
    /\ d.ver = r.ver \/ r.ver > 0

----------------------------------------------------------------------------
(* Intents *)

New(r) == [req |-> r, state |-> "prepared", why |-> "none",
           after |-> {c \in Commands : intent[c] # None}]

(* Faulty variant: the row is put, not added.                              *)
Overwrite(c, r) == {New(r)}

(* prepareDirectCommandIntent: what the intent of c may be when r is asked *)
(* for under that id; nothing if the id stands for another request.        *)
Bindings(c, r) ==
    IF intent[c] = None THEN {New(r)} ELSE {x \in {intent[c]} : x.req = r}

(* A command of the Task Space: the version is that of the cached row.     *)
StartCommand(p, i, x) ==
    /\ Idle(p)
    /\ \E c \in Commands \ taken :
         /\ taken' = taken \cup {c}
         /\ Call(p, "prepare", "user", c, Request(i, copy[i], x), {})
    /\ UNCHANGED <<server, space, held, sent, faults>>

(* submitReview of a session that never ran offline                        *)
StartReview(p) ==
    /\ Idle(p) /\ Persisted(p) /\ held[p].session \notin imported
    /\ Call(p, "prepare", "user", held[p].op,
            Request(held[p].session, held[p].ver, held[p].content), {})
    /\ UNCHANGED <<server, space, held, taken, sent, faults>>

(* submitProvisionalReviewLocked: the draft waits for the import.          *)
KeepForImport(p) ==
    /\ Idle(p) /\ Persisted(p) /\ held[p].session \in imported
    /\ version[held[p].session] = 0 /\ intent[held[p].op] = None
    /\ UNCHANGED vars

(* resumeImportedProvisionalReviews, once the import is resolved           *)
SyncReview(p, s) ==
    /\ Idle(p) /\ s \in imported /\ version[s] > 0 /\ draft[s] # None
    /\ LET d == draft[s]
       IN  \/ /\ intent[d.op] = None /\ copy[s] > 0
              /\ Call(p, "prepare", "sync", d.op, Request(s, copy[s], d.content), {})
           \/ /\ Pending(d.op)
              /\ intent[d.op].req.target = s /\ intent[d.op].req.ver > 0
              /\ intent[d.op].req.content = d.content
              /\ Call(p, "check", "sync", d.op, intent[d.op].req, {})
    /\ UNCHANGED <<server, space, held, taken, sent, faults>>

(* resumePendingDirectCommandIntents, at every opening of the Task Space   *)
StartRound(p) ==
    /\ Idle(p)
    /\ \E c \in Commands : Pending(c)
    /\ Call(p, "next", "round", None, None, {c \in Commands : Pending(c)})
    /\ UNCHANGED <<server, space, held, taken, sent, faults>>

Resume(p) ==
    /\ At(p, "next")
    /\ IF call[p].todo = {} THEN Return(p)
       ELSE \E c \in call[p].todo :
              /\ intent[c].after \cap call[p].todo = {}
              /\ Call(p, First(intent[c].req), "round", c, intent[c].req,
                      call[p].todo \ {c})
    /\ UNCHANGED <<server, space, held, taken, sent, faults>>

Prepare(p) ==
    /\ At(p, "prepare")
    /\ \/ \E x \in Bindings(Op(p), Req(p)) :
            /\ intent' = [intent EXCEPT ![Op(p)] = x]
            /\ Goto(p, First(x.req))
       \/ Bindings(Op(p), Req(p)) = {} /\ Fail(p, "handler") /\ UNCHANGED intent
    /\ UNCHANGED <<server, copy, draft, held, taken, sent, faults>>

Check(p) ==
    /\ At(p, "check")
    /\ IF Matches(draft[Req(p).target], Op(p), Req(p))
       THEN Goto(p, "start") ELSE Fail(p, "handler")
    /\ UNCHANGED <<server, space, held, taken, sent, faults>>

(* executeDurableDirectCommand, its first transaction and the request      *)
Same(p) == intent[Op(p)] # None /\ intent[Op(p)].req = Req(p)

Start(p) ==
    /\ At(p, "start")
    /\ LET c == Op(p)
       IN  \/ /\ Same(p) /\ Pending(c)
              /\ intent' = [intent EXCEPT ![c].state = "in_flight"]
              /\ sent' = sent \cup {[op |-> c, req |-> Req(p)]}
              /\ Goto(p, "wait") /\ UNCHANGED held
           \/ /\ Same(p) /\ intent[c].state = "terminal"
              /\ Release(p) /\ Done(p) /\ UNCHANGED <<intent, sent>>
           \/ /\ ~Same(p) \/ intent[c].state = "failed"
              /\ Fail(p, "handler") /\ UNCHANGED <<intent, sent, held>>
    /\ UNCHANGED <<server, copy, draft, taken, faults>>

----------------------------------------------------------------------------
(* The server *)

(* It decides an operation once and journals the decision: a request under *)
(* an id that stands for another one is refused.                           *)
Verdicts(c, r) ==
    IF decided[c] # None
    THEN {IF decided[c].req = r THEN decided[c].verdict ELSE "rejected"}
    ELSE {"rejected"} \cup (IF version[r.target] = r.ver THEN {"accepted"} ELSE {})

Decide(c, r, v) ==
    /\ decided' = IF decided[c] = None
                  THEN [decided EXCEPT ![c] = [req |-> r, verdict |-> v]] ELSE decided
    /\ version' = IF decided[c] = None /\ v = "accepted"
                  THEN [version EXCEPT ![r.target] = @ + 1] ELSE version

Answer(p) ==
    /\ At(p, "wait")
    /\ \E v \in Verdicts(Op(p), Req(p)) :
         /\ Decide(Op(p), Req(p), v)
         /\ IF v = "accepted" THEN Goto(p, "install") ELSE Fail(p, "code")
    /\ UNCHANGED <<imported, space, held, taken, sent, faults>>

(* A request arrives whose answer nobody receives.                         *)
Arrive(m) ==
    /\ decided[m.op] = None
    /\ \E v \in Verdicts(m.op, m.req) : Decide(m.op, m.req, v)
    /\ UNCHANGED <<imported, space, held, taken, sent, call, faults>>

(* Another device changes the row; an import arrives.                      *)
Elsewhere(t) ==
    /\ version[t] < MaxVersion
    /\ version' = [version EXCEPT ![t] = @ + 1]
    /\ UNCHANGED <<imported, decided, space, held, taken, sent, call, faults>>

(* A pull or a refresh, which may have been read some time ago             *)
Refresh(t) ==
    /\ \E v \in {version[t], version[t] - 1} \ {copy[t]} :
         v > 0 /\ copy' = [copy EXCEPT ![t] = v]
    /\ UNCHANGED <<server, intent, draft, held, taken, sent, call, faults>>

----------------------------------------------------------------------------
(* The result *)

(* executeDurableDirectCommand, its last transaction, and                  *)
(* applyAuthoritativeReviewAndClearDraft in it                             *)
Installable(p) ==
    /\ Same(p) /\ intent[Op(p)].state # "terminal"
    /\ IsReview(Req(p)) => Matches(draft[Req(p).target], Op(p), Req(p))

Install(p) ==
    /\ At(p, "install")
    /\ LET r == Req(p)
       IN  \/ /\ Installable(p)
              /\ intent' = [intent EXCEPT ![Op(p)].state = "terminal", ![Op(p)].why = "none"]
              /\ copy' = [copy EXCEPT ![r.target] = r.ver + 1]
              /\ draft' = [s \in Sessions |-> IF s = r.target THEN None ELSE draft[s]]
              /\ Release(p) /\ Done(p)
           \/ /\ ~Installable(p)
              /\ Fail(p, "handler")
              /\ UNCHANGED <<space, held>>
    /\ UNCHANGED <<server, taken, sent, faults>>

(* Faulty variant: only a failure counts.                                  *)
NotFailed(x) == x.state # "failed"

(* markIntentFailed; it raises for an intent that is settled, and the      *)
(* round ends.                                                             *)
Markable(x)  == x.state \notin {"terminal", "failed"}

Mark(p) ==
    /\ At(p, "mark")
    /\ IF Same(p) /\ Markable(intent[Op(p)])
       THEN /\ intent' = [intent EXCEPT ![Op(p)].state = "failed", ![Op(p)].why = call[p].why]
            /\ Goto(p, "next")
       ELSE Return(p) /\ UNCHANGED intent
    /\ UNCHANGED <<server, copy, draft, held, taken, sent, faults>>

----------------------------------------------------------------------------
(* Faults *)

(* A transport failure, or an answer that asks for a retry                 *)
Lose(p) ==
    /\ At(p, "wait") /\ faults < MaxFaults
    /\ faults' = faults + 1
    /\ Fail(p, "unanswered")
    /\ UNCHANGED <<server, space, held, taken, sent>>

(* An exception on the way, a result that does not parse among them        *)
Throw(p) ==
    /\ call[p] # None /\ call[p].at \in {"check", "start", "install"}
    /\ faults < MaxFaults
    /\ faults' = faults + 1
    /\ Fail(p, "handler")
    /\ UNCHANGED <<server, space, held, taken, sent>>

PageDies(p) ==
    /\ call[p] # None /\ faults < MaxFaults
    /\ faults' = faults + 1
    /\ Return(p)
    /\ held' = [held EXCEPT ![p] = None]
    /\ UNCHANGED <<server, space, taken, sent>>

----------------------------------------------------------------------------
Step(p) == \/ Resume(p) \/ Prepare(p) \/ Check(p) \/ Start(p)
           \/ Answer(p) \/ Install(p) \/ Mark(p)

Next ==
    \/ \E p \in Pages :
         \/ Step(p) \/ Lose(p) \/ Throw(p) \/ PageDies(p)
         \/ Flush(p) \/ Close(p) \/ StartReview(p) \/ KeepForImport(p) \/ StartRound(p)
         \/ \E x \in Contents : Edit(p, x) \/ \E i \in Items : StartCommand(p, i, x)
         \/ \E s \in Sessions : Open(p, s) \/ SyncReview(p, s)
    \/ \E m \in sent : Arrive(m)
    \/ \E t \in Targets : Elsewhere(t) \/ Refresh(t)

Spec == Init /\ [][Next]_vars

(* A call gets on, its request is answered in the end, and the Task Space  *)
(* is opened again and again.                                              *)
Fairness == /\ \A p \in Pages : WF_vars(Step(p))
            /\ SF_vars(\E p \in Pages : StartRound(p))

FairSpec == Spec /\ Fairness

----------------------------------------------------------------------------
(* Properties *)

(* Every variable has its type. *)
TypeOK ==
    /\ imported \subseteq Sessions
    /\ version \in [Targets -> Nat] /\ copy \in [Targets -> Nat]
    /\ decided \in [Commands -> Decisions \cup {None}]
    /\ intent \in [Commands -> Intents \cup {None}]
    /\ draft \in [Sessions -> Drafts \cup {None}]
    /\ held \in [Pages -> [session : Sessions, op : Commands, ver : Nat,
                           content : Contents] \cup {None}]
    /\ taken \subseteq Commands
    /\ sent \subseteq [op : Commands, req : Requests]
    /\ call \in [Pages ->
          [at : {"next", "prepare", "check", "start", "wait", "install", "mark"},
           by : {"user", "sync", "round"}, op : Commands \cup {None},
           req : Requests \cup {None}, todo : SUBSET Commands,
           why : Failures \cup {"none"}] \cup {None}]
    /\ faults \in Nat

(* However often a review is edited and submitted, resumed or imported, by *)
(* whatever pages, the server never sees two requests under one operation  *)
(* id: it would answer one of them with the fate of the other.             *)
OneRequestPerOperation ==
    \A m, n \in sent : m.op = n.op => m.req = n.req

(* What an intent says of the server is true: a terminal one was accepted, *)
(* exactly as it stands, and one that failed by the server's word was not. *)
OutcomesAreTrue ==
    \A c \in Commands :
       /\ intent[c] # None /\ intent[c].state = "terminal" =>
            decided[c] = [req |-> intent[c].req, verdict |-> "accepted"]
       /\ intent[c] # None /\ intent[c].state = "failed" /\ intent[c].why # "handler" =>
            decided[c] = [req |-> intent[c].req, verdict |-> "rejected"]

(* A draft is cleared only when the server has accepted what it says, in   *)
(* the last edition that was written.                                      *)
DraftsAreKept ==
    [][\A s \in Sessions : draft[s] # None /\ draft'[s] = None =>
          LET d == decided[draft[s].op]
          IN  d # None /\ d.verdict = "accepted"
                /\ d.req.target = s /\ d.req.content = draft[s].content]_vars

(* A result stays: a round that comes too late, or fails over an intent    *)
(* that another page has finished, does not take it back.                  *)
ResultsStay ==
    [][\A c \in Commands : intent[c] # None =>
          /\ intent'[c] # None /\ intent'[c].req = intent[c].req
          /\ intent[c].state = "terminal" => intent'[c] = intent[c]]_vars

(* Every intent is settled in the end: none of those before it in a round  *)
(* keeps it from being resumed.                                            *)
IntentsSettle ==
    \A c \in Commands : Pending(c) ~> Settled(c)
=============================================================================
