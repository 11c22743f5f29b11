---------------------------- MODULE DirectProofs ----------------------------
(***************************************************************************)
(* Proofs about DirectCommands for any pages, commands, sessions, drafts,  *)
(* faults and requests that arrive late, and about SessionReview for any   *)
(* tasks, requests, edits and losses.                                      *)
(*                                                                         *)
(* An operation id stands for one request because whatever is said under   *)
(* it repeats its intent, which is there before anything is sent and whose *)
(* request never changes: a call past "prepare" (Bound), a request on its  *)
(* way and a decision of the server (Repeated).  Outcomes are true because *)
(* a page that is about to install or to mark knows what the server has    *)
(* decided (Known), and the server never changes its mind.                 *)
(*                                                                         *)
(* A command of a review takes effect on its task as the session froze it  *)
(* because the frozen structure is a past of the tasks, where a version    *)
(* stands for all of a row (FrozenIsPast), and an envelope expects the     *)
(* frozen version (EnvelopesHold).  Receipts are true because what a       *)
(* request is about to record or to write is (CallsHold), and outcomes     *)
(* stay.                                                                   *)
(***************************************************************************)
EXTENDS DirectCommands, SessionReview, TLAPS

Labels == {"next", "prepare", "check", "start", "wait", "install", "mark"}

Calls == [at : Labels, by : {"user", "sync", "round"}, op : Commands \cup {None},
          req : Requests \cup {None}, todo : SUBSET Commands,
          why : Failures \cup {"none"}]

Held == [session : Sessions, op : Commands, ver : Nat, content : Contents]

Accepted(r) == [req |-> r, verdict |-> "accepted"]
Rejected(r) == [req |-> r, verdict |-> "rejected"]

\* A call past "prepare" carries the request of its intent.
BoundCall(p) ==
    /\ call[p].at # "next" => call[p].op \in Commands /\ call[p].req \in Requests
    /\ call[p].at = "prepare" => call[p].by # "round"
    /\ call[p].at \in {"check", "start", "wait", "install", "mark"} =>
          intent[call[p].op] # None /\ intent[call[p].op].req = call[p].req
    /\ \A c \in call[p].todo : intent[c] # None

Bound == \A p \in Pages : call[p] # None => BoundCall(p)

\* So does what is on its way to the server, and what the server journaled.
Repeated ==
    /\ \A m \in sent : intent[m.op] # None /\ intent[m.op].req = m.req
    /\ \A c \in Commands : decided[c] # None =>
          intent[c] # None /\ decided[c].req = intent[c].req

\* Who installs or marks knows the decision.
KnownCall(p) ==
    /\ call[p].at = "install" => decided[call[p].op] = Accepted(call[p].req)
    /\ call[p].at = "mark" => call[p].why \in {"code", "handler"}
    /\ call[p].at = "mark" /\ call[p].why = "code" => decided[call[p].op] = Rejected(call[p].req)

Known == \A p \in Pages : call[p] # None => KnownCall(p)

DirectInv == TypeOK /\ Bound /\ Repeated /\ Known /\ OutcomesAreTrue

----------------------------------------------------------------------------
(* Types *)

\* What TypeOK says of the calls, by the names used here.
LEMMA CallsTyped == TypeOK => call \in [Pages -> Calls \cup {None}]
BY DEF TypeOK, Calls, Labels

LEMMA InitTyped == Init => TypeOK
BY DirectAssumption DEF Init, TypeOK, Targets

\* Ends of a call: it goes on somewhere, or returns.
LEMMA GotoTyped ==
    ASSUME TypeOK, NEW p \in Pages, call[p] # None, NEW here \in Labels, Goto(p, here)
    PROVE  call' \in [Pages -> Calls \cup {None}]
BY CallsTyped DEF Goto, Calls

LEMMA ReturnTyped ==
    ASSUME TypeOK, NEW p \in Pages, Return(p)
    PROVE  call' \in [Pages -> Calls \cup {None}]
BY CallsTyped DEF Return

LEMMA FailTyped ==
    ASSUME TypeOK, NEW p \in Pages, call[p] # None, NEW w \in Failures, Fail(p, w)
    PROVE  call' \in [Pages -> Calls \cup {None}]
BY CallsTyped, ReturnTyped DEF Fail, Calls, Labels, Failures

LEMMA DoneTyped ==
    ASSUME TypeOK, NEW p \in Pages, call[p] # None, Done(p)
    PROVE  call' \in [Pages -> Calls \cup {None}]
BY GotoTyped, ReturnTyped DEF Done, Labels

LEMMA CallTyped ==
    ASSUME TypeOK, NEW p \in Pages, NEW here \in Labels, NEW by \in {"user", "sync", "round"},
           NEW c \in Commands \cup {None}, NEW r \in Requests \cup {None},
           NEW todo \in SUBSET Commands, Call(p, here, by, c, r, todo)
    PROVE  call' \in [Pages -> Calls \cup {None}]
BY CallsTyped DEF Call, Calls, Failures

\* A page that lets its draft go.
LEMMA ReleaseTyped ==
    ASSUME TypeOK, NEW p \in Pages, Release(p)
    PROVE  held' \in [Pages -> Held \cup {None}]
BY DEF TypeOK, Release, Held

\* The calls by any of their names.
LEMMA Retyped == call' \in [Pages -> Calls \cup {None}] =>
    call' \in [Pages ->
          [at : {"next", "prepare", "check", "start", "wait", "install", "mark"},
           by : {"user", "sync", "round"}, op : Commands \cup {None},
           req : Requests \cup {None}, todo : SUBSET Commands,
           why : Failures \cup {"none"}] \cup {None}]
BY DEF Calls, Labels

\* At a label past "next" there is an operation and its request.
LEMMA AtBound ==
    ASSUME TypeOK, Bound, NEW p \in Pages, NEW here \in Labels \ {"next"}, At(p, here)
    PROVE  Op(p) \in Commands /\ Req(p) \in Requests
BY DEF Bound, BoundCall, At, Op, Req, Labels

LEMMA DraftTyped ==
    ASSUME TypeOK, NEW p \in Pages, Flush(p) \/ Close(p) \/ (\E x \in Contents : Edit(p, x))
                                      \/ (\E s \in Sessions : Open(p, s))
    PROVE  TypeOK'
<1>1. CASE Flush(p)
  BY <1>1 DEF TypeOK, Flush, Row, Drafts, server
<1>2. CASE Close(p)
  BY <1>2 DEF TypeOK, Close, server, space
<1>3. CASE \E x \in Contents : Edit(p, x)
  BY <1>3 DEF TypeOK, Edit, server, space
<1>4. CASE \E s \in Sessions : Open(p, s)
  BY <1>4 DEF TypeOK, Open, Targets, Drafts, server, space
<1> QED
  BY <1>1, <1>2, <1>3, <1>4

LEMMA BeginTyped ==
    ASSUME TypeOK, NEW p \in Pages,
           StartReview(p) \/ StartRound(p) \/ (\E s \in Sessions : SyncReview(p, s))
             \/ (\E i \in Items, x \in Contents : StartCommand(p, i, x))
    PROVE  TypeOK'
<1>1. CASE StartReview(p)
  <2>1. Request(held[p].session, held[p].ver, held[p].content) \in Requests
        /\ held[p].op \in Commands
    BY <1>1 DEF TypeOK, StartReview, Persisted, Request, Requests, Targets
  <2>2. call' \in [Pages -> Calls \cup {None}]
    BY <1>1, <2>1, CallTyped DEF StartReview, Labels
  <2> QED
    BY <1>1, <2>2, Retyped DEF TypeOK, StartReview, server, space
<1>2. CASE StartRound(p)
  <2> DEFINE pending == {c \in Commands : Pending(c)}
  <2>a. pending \in SUBSET Commands /\ Call(p, "next", "round", None, None, pending)
    BY <1>2 DEF StartRound
  <2> HIDE DEF pending
  <2>1. call' \in [Pages -> Calls \cup {None}]
    BY <2>a, CallTyped DEF Labels
  <2> QED
    BY <1>2, <2>1, Retyped DEF TypeOK, StartRound, server, space
<1>3. ASSUME NEW s \in Sessions, SyncReview(p, s)
      PROVE  TypeOK'
  <2>1. draft[s] \in Drafts
    BY <1>3 DEF TypeOK, SyncReview
  <2>2. CASE Call(p, "prepare", "sync", draft[s].op, Request(s, copy[s], draft[s].content), {})
    <3>1. Request(s, copy[s], draft[s].content) \in Requests /\ draft[s].op \in Commands
      BY <2>1 DEF TypeOK, Drafts, Request, Requests, Targets
    <3>2. call' \in [Pages -> Calls \cup {None}]
      BY <2>2, <3>1, CallTyped DEF Labels
    <3> QED
      BY <1>3, <3>2, Retyped DEF TypeOK, SyncReview, server, space
  <2>3. CASE /\ Pending(draft[s].op)
             /\ Call(p, "check", "sync", draft[s].op, intent[draft[s].op].req, {})
    <3>1. draft[s].op \in Commands
      BY <2>1 DEF Drafts
    <3>2. intent[draft[s].op].req \in Requests
      BY <2>3, <3>1 DEF TypeOK, Pending, Intents
    <3>3. call' \in [Pages -> Calls \cup {None}]
      BY <2>3, <3>1, <3>2, CallTyped DEF Labels
    <3> QED
      BY <1>3, <3>3, Retyped DEF TypeOK, SyncReview, server, space
  <2> QED
    BY <1>3, <2>2, <2>3 DEF SyncReview
<1>4. ASSUME NEW i \in Items, NEW x \in Contents, StartCommand(p, i, x)
      PROVE  TypeOK'
  <2>1. Request(i, copy[i], x) \in Requests
    BY DEF TypeOK, Request, Requests, Targets
  <2>2. PICK c \in Commands \ taken : /\ taken' = taken \cup {c}
                                     /\ Call(p, "prepare", "user", c, Request(i, copy[i], x), {})
    BY <1>4 DEF StartCommand
  <2>3. call' \in [Pages -> Calls \cup {None}]
    BY <2>1, <2>2, CallTyped DEF Labels
  <2> QED
    BY <1>4, <2>2, <2>3, Retyped DEF TypeOK, StartCommand, server, space
<1> QED
  BY <1>1, <1>2, <1>3, <1>4

LEMMA StepTyped ==
    ASSUME TypeOK, Bound, NEW p \in Pages, Step(p)
    PROVE  TypeOK'
<1>1. CASE Resume(p)
  <2>1. CASE call[p].todo = {}
    <3>1. call' \in [Pages -> Calls \cup {None}]
      BY <1>1, <2>1, ReturnTyped DEF Resume
    <3> QED
      BY <1>1, <3>1, Retyped DEF TypeOK, Resume, server, space
  <2>2. CASE call[p].todo # {}
    <3>1. PICK c \in call[p].todo :
             Call(p, First(intent[c].req), "round", c, intent[c].req, call[p].todo \ {c})
      BY <1>1, <2>2 DEF Resume
    <3>2. call[p] \in Calls /\ call[p] # None
      BY <1>1, CallsTyped DEF Resume, At
    <3>3. c \in Commands /\ call[p].todo \ {c} \in SUBSET Commands
      BY <3>2 DEF Calls
    <3>4. intent[c].req \in Requests
      BY <3>2, <3>3 DEF TypeOK, Bound, BoundCall, Intents
    <3>5. call' \in [Pages -> Calls \cup {None}]
      BY <3>1, <3>3, <3>4, CallTyped DEF First, Labels
    <3> QED
      BY <1>1, <3>5, Retyped DEF TypeOK, Resume, server, space
  <2> QED
    BY <2>1, <2>2
<1>2. CASE Prepare(p)
  <2>1. Op(p) \in Commands /\ Req(p) \in Requests /\ call[p] # None
    BY <1>2, AtBound DEF Prepare, Labels, At
  <2>2. ASSUME NEW x \in Bindings(Op(p), Req(p)), intent' = [intent EXCEPT ![Op(p)] = x],
               Goto(p, First(x.req))
        PROVE  TypeOK'
    <3>1. x \in Intents
      BY <2>1, <2>2 DEF TypeOK, Bindings, New, Intents
    <3>2. call' \in [Pages -> Calls \cup {None}]
      BY <2>1, <2>2, GotoTyped DEF First, Labels
    <3> QED
      BY <1>2, <2>1, <2>2, <3>1, <3>2, Retyped DEF TypeOK, Prepare, server
  <2>3. CASE Fail(p, "handler") /\ UNCHANGED intent
    <3>1. call' \in [Pages -> Calls \cup {None}]
      BY <2>1, <2>3, FailTyped DEF Failures
    <3> QED
      BY <1>2, <2>3, <3>1, Retyped DEF TypeOK, Prepare, server
  <2> QED
    BY <1>2, <2>2, <2>3 DEF Prepare
<1>3. CASE Check(p)
  <2>1. call' \in [Pages -> Calls \cup {None}]
    BY <1>3, GotoTyped, FailTyped DEF Check, At, Labels, Failures
  <2> QED
    BY <1>3, <2>1, Retyped DEF TypeOK, Check, server, space
<1>4. CASE Start(p)
  <2>1. Op(p) \in Commands /\ Req(p) \in Requests /\ call[p] # None
    BY <1>4, AtBound DEF Start, Labels, At
  <2>2. CASE /\ Same(p) /\ intent' = [intent EXCEPT ![Op(p)].state = "in_flight"]
             /\ sent' = sent \cup {[op |-> Op(p), req |-> Req(p)]}
             /\ Goto(p, "wait") /\ UNCHANGED held
    <3>1. call' \in [Pages -> Calls \cup {None}]
      BY <2>1, <2>2, GotoTyped DEF Labels
    <3>2. intent' \in [Commands -> Intents \cup {None}]
      BY <2>1, <2>2 DEF TypeOK, Same, Intents
    <3> QED
      BY <1>4, <2>1, <2>2, <3>1, <3>2, Retyped DEF TypeOK, Start, server
  <2>3. CASE Release(p) /\ Done(p) /\ UNCHANGED <<intent, sent>>
    <3>1. call' \in [Pages -> Calls \cup {None}]
      BY <2>1, <2>3, DoneTyped
    <3>2. held' \in [Pages -> Held \cup {None}]
      BY <2>3, ReleaseTyped
    <3> QED
      BY <1>4, <2>3, <3>1, <3>2, Retyped DEF TypeOK, Start, server, Held
  <2>4. CASE Fail(p, "handler") /\ UNCHANGED <<intent, sent, held>>
    <3>1. call' \in [Pages -> Calls \cup {None}]
      BY <2>1, <2>4, FailTyped DEF Failures
    <3> QED
      BY <1>4, <2>4, <3>1, Retyped DEF TypeOK, Start, server
  <2> QED
    BY <1>4, <2>2, <2>3, <2>4 DEF Start
<1>5. CASE Answer(p)
  <2>1. Op(p) \in Commands /\ Req(p) \in Requests /\ call[p] # None
    BY <1>5, AtBound DEF Answer, Labels, At
  <2>2. PICK v \in Verdicts(Op(p), Req(p)) :
           /\ Decide(Op(p), Req(p), v)
           /\ IF v = "accepted" THEN Goto(p, "install") ELSE Fail(p, "code")
    BY <1>5 DEF Answer
  <2>3. v \in {"accepted", "rejected"}
    BY <2>1, <2>2 DEF TypeOK, Verdicts, Decisions
  <2>4. decided' \in [Commands -> Decisions \cup {None}] /\ version' \in [Targets -> Nat]
    BY <2>1, <2>2, <2>3 DEF TypeOK, Decide, Decisions, Requests
  <2>5. call' \in [Pages -> Calls \cup {None}]
    BY <2>1, <2>2, GotoTyped, FailTyped DEF Labels, Failures
  <2> QED
    BY <1>5, <2>4, <2>5, Retyped DEF TypeOK, Answer, space
<1>6. CASE Install(p)
  <2>1. Op(p) \in Commands /\ Req(p) \in Requests /\ call[p] # None
    BY <1>6, AtBound DEF Install, Labels, At
  <2>2. CASE Installable(p)
    <3>1. /\ intent' = [intent EXCEPT ![Op(p)].state = "terminal", ![Op(p)].why = "none"]
          /\ copy' = [copy EXCEPT ![Req(p).target] = Req(p).ver + 1]
          /\ draft' = [s \in Sessions |-> IF s = Req(p).target THEN None ELSE draft[s]]
          /\ Release(p) /\ Done(p)
      BY <1>6, <2>2 DEF Install
    <3>2. call' \in [Pages -> Calls \cup {None}]
      BY <2>1, <3>1, DoneTyped
    <3>3. held' \in [Pages -> Held \cup {None}]
      BY <3>1, ReleaseTyped
    <3>a. intent[Op(p)] \in Intents
      BY <2>1, <2>2 DEF TypeOK, Installable, Same
    <3>b. [intent[Op(p)] EXCEPT !.state = "terminal", !.why = "none"] \in Intents
      BY <3>a DEF Intents
    <3>c. intent' = [intent EXCEPT ![Op(p)] =
                       [intent[Op(p)] EXCEPT !.state = "terminal", !.why = "none"]]
      BY <2>1, <3>1, <3>a DEF TypeOK, Intents
    <3>4. intent' \in [Commands -> Intents \cup {None}]
      BY <2>1, <3>b, <3>c DEF TypeOK
    <3>5. copy' \in [Targets -> Nat] /\ draft' \in [Sessions -> Drafts \cup {None}]
      BY <2>1, <3>1 DEF TypeOK, Requests
    <3> QED
      BY <1>6, <3>2, <3>3, <3>4, <3>5, Retyped DEF TypeOK, Install, server, Held
  <2>3. CASE ~Installable(p)
    <3>1. call' \in [Pages -> Calls \cup {None}]
      BY <1>6, <2>1, <2>3, FailTyped DEF Install, Failures
    <3> QED
      BY <1>6, <2>3, <3>1, Retyped DEF TypeOK, Install, server, space
  <2> QED
    BY <2>2, <2>3
<1>7. CASE Mark(p)
  <2>1. Op(p) \in Commands /\ call[p] # None /\ call[p].why \in Failures \cup {"none"}
    BY <1>7, AtBound, CallsTyped DEF Mark, Labels, At, Calls
  <2>2. call' \in [Pages -> Calls \cup {None}]
    BY <1>7, <2>1, GotoTyped, ReturnTyped DEF Mark, Labels
  <2>3. intent' \in [Commands -> Intents \cup {None}]
    BY <1>7, <2>1 DEF TypeOK, Mark, Same, Intents
  <2> QED
    BY <1>7, <2>2, <2>3, Retyped DEF TypeOK, Mark, server
<1> QED
  BY <1>1, <1>2, <1>3, <1>4, <1>5, <1>6, <1>7 DEF Step

LEMMA FaultTyped ==
    ASSUME TypeOK, NEW p \in Pages, Lose(p) \/ Throw(p) \/ PageDies(p)
    PROVE  TypeOK'
<1>1. call' \in [Pages -> Calls \cup {None}]
  BY FailTyped, ReturnTyped DEF Lose, Throw, PageDies, At, Failures
<1>2. faults' \in Nat
  BY DEF TypeOK, Lose, Throw, PageDies
<1>3. held' \in [Pages -> Held \cup {None}]
  BY DEF TypeOK, Lose, Throw, PageDies, Held
<1> QED
  BY <1>1, <1>2, <1>3, Retyped DEF TypeOK, Lose, Throw, PageDies, Held, server, space

LEMMA ElsewhereTyped ==
    ASSUME TypeOK, (\E m \in sent : Arrive(m)) \/ (\E t \in Targets : Elsewhere(t) \/ Refresh(t))
    PROVE  TypeOK'
<1>1. ASSUME NEW m \in sent, Arrive(m)
      PROVE  TypeOK'
  <2>1. m.op \in Commands /\ m.req \in Requests
    BY DEF TypeOK
  <2>2. PICK v \in Verdicts(m.op, m.req) : Decide(m.op, m.req, v)
    BY <1>1 DEF Arrive
  <2>3. v \in {"accepted", "rejected"}
    BY <2>1, <2>2 DEF TypeOK, Verdicts, Decisions
  <2>4. decided' \in [Commands -> Decisions \cup {None}] /\ version' \in [Targets -> Nat]
    BY <2>1, <2>2, <2>3 DEF TypeOK, Decide, Decisions, Requests
  <2> QED
    BY <1>1, <2>4 DEF TypeOK, Arrive, space
<1>2. ASSUME NEW t \in Targets, Elsewhere(t) \/ Refresh(t)
      PROVE  TypeOK'
  BY <1>2 DEF TypeOK, Elsewhere, Refresh, server, space
<1> QED
  BY <1>1, <1>2

----------------------------------------------------------------------------
(* What no step takes back *)

\* Intents stay, with their requests; so do the server's decisions.
Kept == \A c \in Commands : intent[c] # None =>
          intent'[c] # None /\ intent'[c].req = intent[c].req

Firm == \A c \in Commands : decided[c] # None => decided'[c] = decided[c]

LEMMA IntentsKept ==
    ASSUME DirectInv, [Next]_vars
    PROVE  Kept
<1> SUFFICES ASSUME NEW c \in Commands, intent[c] # None
             PROVE  intent'[c] # None /\ intent'[c].req = intent[c].req
  BY DEF Kept
<1>0. intent[c] \in Intents
  BY DEF DirectInv, TypeOK
<1>1. CASE UNCHANGED intent
  BY <1>1
<1>2. ASSUME NEW p \in Pages, Prepare(p), ~UNCHANGED intent
      PROVE  intent'[c] # None /\ intent'[c].req = intent[c].req
  BY <1>2 DEF DirectInv, TypeOK, Prepare, Bindings
<1>3. ASSUME NEW p \in Pages, Start(p) \/ Mark(p) \/ Install(p), ~UNCHANGED intent
      PROVE  intent'[c] # None /\ intent'[c].req = intent[c].req
  <2>1. /\ intent'[c] \in Intents \cup {intent[c]}
        /\ intent'[c].req = intent[c].req
    BY <1>0, <1>3 DEF DirectInv, TypeOK, Start, Mark, Install, Intents, space
  <2> QED
    BY <2>1, NoneAssumption
<1> QED
  BY <1>1, <1>2, <1>3
  DEF Next, vars, space, server, Step, Resume, Check, Answer, Lose, Throw, PageDies, Flush, Close,
      StartReview, KeepForImport, StartRound, Edit, StartCommand, Open, SyncReview, Arrive,
      Elsewhere, Refresh

LEMMA DecideFirm ==
    ASSUME TypeOK, NEW c \in Commands, NEW r \in Requests, NEW v, Decide(c, r, v)
    PROVE  Firm
BY DEF TypeOK, Decide, Firm

\* What is decided now is the verdict that is given now.
LEMMA DecideRecords ==
    ASSUME TypeOK, NEW c \in Commands, NEW r \in Requests, NEW v \in Verdicts(c, r),
           decided[c] # None => decided[c].req = r, Decide(c, r, v)
    PROVE  decided'[c] = [req |-> r, verdict |-> v]
<1>1. CASE decided[c] = None
  BY <1>1 DEF TypeOK, Decide
<1>2. CASE decided[c] # None
  <2>1. decided[c] \in Decisions /\ decided'[c] = decided[c]
    BY <1>2 DEF TypeOK, Decide
  <2>2. v = decided[c].verdict
    BY <1>2 DEF Verdicts
  <2> QED
    BY <2>1, <2>2, <1>2 DEF Decisions
<1> QED
  BY <1>1, <1>2

LEMMA DecisionsFirm ==
    ASSUME DirectInv, [Next]_vars
    PROVE  Firm
<1>1. CASE UNCHANGED decided
  BY <1>1 DEF Firm
<1>2. ASSUME NEW p \in Pages, Answer(p)
      PROVE  Firm
  BY <1>2, AtBound, DecideFirm DEF DirectInv, Answer, Labels
<1>3. ASSUME NEW m \in sent, Arrive(m)
      PROVE  Firm
  <2>1. m.op \in Commands /\ m.req \in Requests
    BY DEF DirectInv, TypeOK
  <2> QED
    BY <1>3, <2>1, DecideFirm DEF DirectInv, Arrive
<1> QED
  BY <1>1, <1>2, <1>3
  DEF Next, vars, space, server, Step, Resume, Prepare, Check, Start, Install, Mark, Lose, Throw,
      PageDies, Flush, Close, StartReview, KeepForImport, StartRound, Edit, StartCommand, Open,
      SyncReview, Elsewhere, Refresh

----------------------------------------------------------------------------
(* The calls *)

Good(p) == call[p] # None => BoundCall(p) /\ KnownCall(p)

\* The calls of the other pages stay good.
LEMMA OthersGood ==
    ASSUME DirectInv, Kept, Firm, NEW q \in Pages, call'[q] = call[q]
    PROVE  Good(q)'
<1> SUFFICES ASSUME call[q] # None
             PROVE  BoundCall(q)' /\ KnownCall(q)'
  BY DEF Good
<1>1. call[q] \in Calls /\ BoundCall(q) /\ KnownCall(q)
  BY CallsTyped DEF DirectInv, Bound, Known
<1>2. BoundCall(q)'
  BY <1>1 DEF BoundCall, Calls, Labels, Kept
<1>3. \A r \in Requests : Accepted(r) # None /\ Rejected(r) # None
  BY NoneAssumption DEF Accepted, Rejected, Decisions
<1>4. KnownCall(q)'
  BY <1>1, <1>3 DEF BoundCall, KnownCall, Calls, Labels, Firm
<1> QED
  BY <1>2, <1>4

LEMMA AllGood == (\A p \in Pages : Good(p)) => Bound /\ Known
BY DEF Good, Bound, Known

\* A page goes on, unless it goes on to install.
LEMMA GotoGood ==
    ASSUME DirectInv, Kept, NEW p \in Pages, call[p] # None,
           NEW here \in {"next", "check", "start", "wait"}, Goto(p, here),
           here # "next" => intent'[Op(p)] # None /\ intent'[Op(p)].req = Req(p)
                              /\ call[p].at # "next"
    PROVE  Good(p)'
<1>1. call[p] \in Calls /\ BoundCall(p)
  BY CallsTyped DEF DirectInv, Bound
<1>2. call'[p] = [call[p] EXCEPT !.at = here]
  BY DEF DirectInv, TypeOK, Goto
<1>3. BoundCall(p)'
  BY <1>1, <1>2 DEF BoundCall, Calls, Labels, Kept, Op, Req
<1>4. KnownCall(p)'
  BY <1>1, <1>2 DEF KnownCall, Calls
<1> QED
  BY <1>3, <1>4 DEF Good

LEMMA ReturnGood ==
    ASSUME DirectInv, NEW p \in Pages, Return(p)
    PROVE  Good(p)'
BY DEF DirectInv, TypeOK, Return, Good

LEMMA DoneGood ==
    ASSUME DirectInv, Kept, NEW p \in Pages, call[p] # None, Done(p)
    PROVE  Good(p)'
BY GotoGood, ReturnGood DEF Done

\* A call that fails is marked with what the server has said.
LEMMA FailGood ==
    ASSUME DirectInv, Kept, NEW p \in Pages, call[p] # None, NEW w \in Failures, Fail(p, w),
           call[p].at # "next",
           w = "code" => decided'[Op(p)] = Rejected(Req(p))
    PROVE  Good(p)'
<1>1. CASE Return(p)
  BY <1>1, ReturnGood
<1>2. CASE ~Return(p)
  <2>1. call[p] \in Calls /\ BoundCall(p)
    BY CallsTyped DEF DirectInv, Bound
  <2>2. /\ call[p].by = "round" /\ w \in {"code", "handler"}
        /\ call'[p] = [call[p] EXCEPT !.at = "mark", !.why = w]
    BY <1>2 DEF Fail, Disposition, Failures, DirectInv, TypeOK
  <2>3. BoundCall(p)'
    BY <2>1, <2>2 DEF BoundCall, Calls, Labels, Kept
  <2>4. KnownCall(p)'
    BY <2>1, <2>2 DEF KnownCall, Calls, Op, Req
  <2> QED
    BY <2>3, <2>4 DEF Good
<1> QED
  BY <1>1, <1>2

\* A call begins.
LEMMA CallGood ==
    ASSUME DirectInv, Kept, NEW p \in Pages, NEW by \in {"user", "sync", "round"},
           NEW here \in {"next", "prepare", "check", "start"},
           NEW c, NEW r, NEW todo \in SUBSET Commands, Call(p, here, by, c, r, todo),
           here # "next" => c \in Commands /\ r \in Requests,
           here = "prepare" => by # "round",
           here \in {"check", "start"} => intent[c] # None /\ intent[c].req = r,
           \A x \in todo : intent[x] # None
    PROVE  Good(p)'
<1>1. call'[p] = [at |-> here, by |-> by, op |-> c, req |-> r, todo |-> todo, why |-> "none"]
  BY DEF DirectInv, TypeOK, Call
<1>2. BoundCall(p)'
  BY <1>1 DEF BoundCall, Kept
<1>3. KnownCall(p)'
  BY <1>1 DEF KnownCall
<1> QED
  BY <1>2, <1>3 DEF Good

\* Every step of a page leaves it with a good call.
LEMMA StepGood ==
    ASSUME DirectInv, Kept, Firm, NEW p \in Pages, Step(p)
    PROVE  Good(p)'
<1>0. call[p] # None /\ call[p] \in Calls /\ BoundCall(p) /\ KnownCall(p) /\ Firm /\ TypeOK
  BY CallsTyped DEF DirectInv, Bound, Known, Step, At, Resume, Prepare, Check, Start, Answer,
                    Install, Mark
<1>1. CASE Resume(p)
  <2>1. CASE call[p].todo = {}
    BY <1>1, <2>1, ReturnGood DEF Resume
  <2>2. CASE call[p].todo # {}
    <3>1. PICK c \in call[p].todo :
             Call(p, First(intent[c].req), "round", c, intent[c].req, call[p].todo \ {c})
      BY <1>1, <2>2 DEF Resume
    <3>2. c \in Commands /\ call[p].todo \ {c} \in SUBSET Commands
      BY <1>0 DEF Calls
    <3>3. intent[c] # None /\ intent[c].req \in Requests
      BY <1>0, <3>2 DEF TypeOK, BoundCall, Intents
    <3>4. \A x \in call[p].todo \ {c} : intent[x] # None
      BY <1>0 DEF BoundCall
    <3>5. First(intent[c].req) \in {"check", "start"}
      BY DEF First
    <3> HIDE DEF First
    <3> QED
      BY <3>1, <3>2, <3>3, <3>4, <3>5, CallGood
  <2> QED
    BY <2>1, <2>2
<1>2. CASE Prepare(p)
  <2>1. Op(p) \in Commands /\ Req(p) \in Requests /\ call[p].at = "prepare"
    BY <1>0, <1>2 DEF Prepare, At, BoundCall, Op, Req
  <2>2. ASSUME NEW x \in Bindings(Op(p), Req(p)), intent' = [intent EXCEPT ![Op(p)] = x],
               Goto(p, First(x.req))
        PROVE  Good(p)'
    <3>1. x \in Intents /\ x.req = Req(p)
      BY <1>0, <2>1, <2>2 DEF TypeOK, Bindings, New, Intents
    <3>2. intent'[Op(p)] # None /\ intent'[Op(p)].req = Req(p)
      BY <1>0, <2>1, <2>2, <3>1, NoneAssumption DEF TypeOK
    <3>3. First(x.req) \in {"check", "start"}
      BY DEF First
    <3> QED
      BY <1>0, <2>1, <2>2, <3>2, <3>3, GotoGood
  <2>3. CASE Fail(p, "handler")
    BY <1>0, <2>1, <2>3, FailGood DEF Failures
  <2> QED
    BY <1>2, <2>2, <2>3 DEF Prepare
<1>3. CASE Check(p)
  <2>1. call[p].at = "check" /\ intent'[Op(p)] # None /\ intent'[Op(p)].req = Req(p)
    BY <1>0, <1>3 DEF Check, At, BoundCall, Op, Req, Kept
  <2> QED
    BY <1>0, <1>3, <2>1, GotoGood, FailGood DEF Check, Failures
<1>4. CASE Start(p)
  <2>1. call[p].at = "start" /\ intent'[Op(p)] # None /\ intent'[Op(p)].req = Req(p)
    BY <1>0, <1>4 DEF Start, At, BoundCall, Op, Req, Kept
  <2> QED
    BY <1>0, <1>4, <2>1, GotoGood, DoneGood, FailGood DEF Start, Failures
<1>5. CASE Answer(p)
  <2>1. /\ call[p].at = "wait" /\ Op(p) \in Commands /\ Req(p) \in Requests
        /\ intent[Op(p)] # None /\ intent[Op(p)].req = Req(p)
    BY <1>0, <1>5 DEF Answer, At, BoundCall, Op, Req
  <2>2. decided[Op(p)] # None => decided[Op(p)].req = Req(p)
    BY <2>1 DEF DirectInv, Repeated
  <2>3. PICK v \in Verdicts(Op(p), Req(p)) :
           /\ Decide(Op(p), Req(p), v)
           /\ IF v = "accepted" THEN Goto(p, "install") ELSE Fail(p, "code")
    BY <1>5 DEF Answer
  <2>4. decided'[Op(p)] = [req |-> Req(p), verdict |-> v]
    BY <1>0, <2>1, <2>2, <2>3, DecideRecords
  <2>5. CASE v = "accepted"
    <3>1. call'[p] = [call[p] EXCEPT !.at = "install"]
      BY <1>0, <2>3, <2>5 DEF TypeOK, Goto
    <3>2. BoundCall(p)'
      BY <1>0, <2>1, <3>1 DEF BoundCall, Calls, Labels, Kept, Op, Req
    <3>3. KnownCall(p)'
      BY <1>0, <2>4, <2>5, <3>1 DEF KnownCall, Calls, Accepted, Op, Req
    <3> QED
      BY <3>2, <3>3 DEF Good
  <2>6. CASE v # "accepted"
    <3>1. v = "rejected"
      BY <1>0, <2>1, <2>3, <2>6 DEF TypeOK, Verdicts, Decisions
    <3> QED
      BY <1>0, <2>1, <2>3, <2>4, <2>6, <3>1, FailGood DEF Rejected, Failures
  <2> QED
    BY <2>5, <2>6
<1>6. CASE Install(p)
  <2>1. call[p].at = "install"
    BY <1>6 DEF Install, At
  <2> QED
    BY <1>0, <1>6, <2>1, DoneGood, FailGood DEF Install, Failures
<1>7. CASE Mark(p)
  BY <1>0, <1>7, GotoGood, ReturnGood DEF Mark
<1> QED
  BY <1>1, <1>2, <1>3, <1>4, <1>5, <1>6, <1>7 DEF Step

LEMMA BeginGood ==
    ASSUME DirectInv, Kept, NEW p \in Pages,
           StartReview(p) \/ StartRound(p) \/ (\E s \in Sessions : SyncReview(p, s))
             \/ (\E i \in Items, x \in Contents : StartCommand(p, i, x))
    PROVE  Good(p)'
<1>0. TypeOK
  BY DEF DirectInv
<1>1. CASE StartReview(p)
  <2>1. Request(held[p].session, held[p].ver, held[p].content) \in Requests
        /\ held[p].op \in Commands
    BY <1>0, <1>1 DEF TypeOK, StartReview, Persisted, Request, Requests, Targets
  <2> QED
    BY <1>1, <2>1, CallGood DEF StartReview
<1>2. CASE StartRound(p)
  <2> DEFINE pending == {c \in Commands : Pending(c)}
  <2>1. pending \in SUBSET Commands /\ Call(p, "next", "round", None, None, pending)
    BY <1>2 DEF StartRound
  <2>2. \A c \in pending : intent[c] # None
    BY DEF Pending
  <2> HIDE DEF pending
  <2> QED
    BY <2>1, <2>2, CallGood
<1>3. ASSUME NEW s \in Sessions, SyncReview(p, s)
      PROVE  Good(p)'
  <2>1. draft[s].op \in Commands /\ draft[s].content \in Contents
    BY <1>0, <1>3 DEF TypeOK, SyncReview, Drafts
  <2>2. CASE Call(p, "prepare", "sync", draft[s].op, Request(s, copy[s], draft[s].content), {})
    <3>1. Request(s, copy[s], draft[s].content) \in Requests
      BY <1>0, <2>1 DEF TypeOK, Request, Requests, Targets
    <3> QED
      BY <2>1, <2>2, <3>1, CallGood
  <2>3. CASE /\ Pending(draft[s].op)
             /\ Call(p, "check", "sync", draft[s].op, intent[draft[s].op].req, {})
    <3>1. intent[draft[s].op] # None /\ intent[draft[s].op].req \in Requests
      BY <1>0, <2>1, <2>3 DEF TypeOK, Pending, Intents
    <3> QED
      BY <2>1, <2>3, <3>1, CallGood
  <2> QED
    BY <1>3, <2>2, <2>3 DEF SyncReview
<1>4. ASSUME NEW i \in Items, NEW x \in Contents, StartCommand(p, i, x)
      PROVE  Good(p)'
  <2>1. Request(i, copy[i], x) \in Requests
    BY <1>0 DEF TypeOK, Request, Requests, Targets
  <2> QED
    BY <1>4, <2>1, CallGood DEF StartCommand
<1> QED
  BY <1>1, <1>2, <1>3, <1>4

LEMMA FaultGood ==
    ASSUME DirectInv, Kept, NEW p \in Pages, Lose(p) \/ Throw(p) \/ PageDies(p)
    PROVE  Good(p)'
BY FailGood, ReturnGood DEF Lose, Throw, PageDies, At, Failures

\* A step is one page's, and then the other calls stand still, or no page's.
Steps(p) ==
    \/ Step(p) \/ Lose(p) \/ Throw(p) \/ PageDies(p)
    \/ StartReview(p) \/ StartRound(p) \/ (\E s \in Sessions : SyncReview(p, s))
    \/ (\E i \in Items, x \in Contents : StartCommand(p, i, x))

LEMMA WhoseStep ==
    [Next]_vars => (\E p \in Pages : Steps(p)) \/ UNCHANGED call
BY DEF Next, vars, space, server, Steps, Flush, Close, KeepForImport, Edit, Open, Arrive,
       Elsewhere, Refresh

LEMMA OthersStand ==
    ASSUME TypeOK, NEW p \in Pages, Steps(p), NEW q \in Pages \ {p}
    PROVE  call'[q] = call[q]
BY DEF TypeOK, Steps, Step, Resume, Prepare, Check, Start, Answer, Install, Mark, Lose, Throw,
       PageDies, StartReview, StartRound, SyncReview, StartCommand, Call, Goto, Return, Fail, Done

LEMMA CallsGood ==
    ASSUME DirectInv, [Next]_vars
    PROVE  Bound' /\ Known'
<1>1. Kept /\ Firm /\ TypeOK
  BY IntentsKept, DecisionsFirm DEF DirectInv
<1>2. ASSUME NEW q \in Pages
      PROVE  Good(q)'
  <2>1. CASE UNCHANGED call
    BY <1>1, <2>1, OthersGood
  <2>2. ASSUME NEW p \in Pages, Steps(p)
        PROVE  Good(q)'
    <3>1. CASE q = p
      BY <1>1, <2>2, <3>1, StepGood, BeginGood, FaultGood DEF Steps
    <3>2. CASE q # p
      BY <1>1, <2>2, <3>2, OthersStand, OthersGood
    <3> QED
      BY <3>1, <3>2
  <2> QED
    BY <2>1, <2>2, WhoseStep
<1> QED
  BY <1>2, AllGood DEF Good, Bound, Known

----------------------------------------------------------------------------
(* Requests and outcomes *)

LEMMA NextTyped ==
    ASSUME TypeOK, Bound, [Next]_vars
    PROVE  TypeOK'
<1>1. CASE UNCHANGED vars
  BY <1>1 DEF TypeOK, vars, server, space
<1>2. ASSUME NEW p \in Pages, KeepForImport(p)
      PROVE  TypeOK'
  BY <1>1, <1>2 DEF KeepForImport
<1> QED
  BY <1>1, <1>2, StepTyped, FaultTyped, DraftTyped, BeginTyped, ElsewhereTyped DEF Next

\* Where a request is made: a page past the transaction that starts it.
LEMMA SentBy ==
    ASSUME DirectInv, [Next]_vars, NEW m \in sent' \ sent
    PROVE  intent[m.op] # None /\ intent[m.op].req = m.req /\ m.op \in Commands
<1>1. ASSUME NEW p \in Pages, Start(p)
      PROVE  intent[m.op] # None /\ intent[m.op].req = m.req /\ m.op \in Commands
  <2>1. Op(p) \in Commands
    BY <1>1, AtBound DEF DirectInv, Start, Labels
  <2>2. m = [op |-> Op(p), req |-> Req(p)] /\ Same(p)
    BY <1>1 DEF Start
  <2> QED
    BY <2>1, <2>2 DEF Same
<1> QED
  BY <1>1
  DEF Next, vars, space, server, Step, Resume, Prepare, Check, Answer, Install, Mark, Lose, Throw,
      PageDies, Flush, Close, StartReview, KeepForImport, StartRound, Edit, StartCommand, Open,
      SyncReview, Arrive, Elsewhere, Refresh

\* What is decided repeats an intent, for whatever arrives does.
LEMMA DecidedBy ==
    ASSUME DirectInv, [Next]_vars, NEW c \in Commands, decided[c] = None, decided'[c] # None
    PROVE  intent[c] # None /\ decided'[c].req = intent[c].req
<1>1. ASSUME NEW d \in Commands, NEW r \in Requests, NEW v, Decide(d, r, v),
             intent[d] # None, intent[d].req = r
      PROVE  intent[c] # None /\ decided'[c].req = intent[c].req
  BY <1>1 DEF DirectInv, TypeOK, Decide
<1>2. ASSUME NEW p \in Pages, Answer(p)
      PROVE  intent[c] # None /\ decided'[c].req = intent[c].req
  <2>1. /\ Op(p) \in Commands /\ Req(p) \in Requests
        /\ intent[Op(p)] # None /\ intent[Op(p)].req = Req(p)
    BY <1>2, AtBound DEF DirectInv, Bound, BoundCall, Answer, At, Labels, Op, Req
  <2>2. PICK v : Decide(Op(p), Req(p), v)
    BY <1>2 DEF Answer
  <2> QED
    BY <1>1, <2>1, <2>2
<1>3. ASSUME NEW m \in sent, Arrive(m)
      PROVE  intent[c] # None /\ decided'[c].req = intent[c].req
  <2>1. /\ m.op \in Commands /\ m.req \in Requests
        /\ intent[m.op] # None /\ intent[m.op].req = m.req
    BY DEF DirectInv, TypeOK, Repeated
  <2>2. PICK v : Decide(m.op, m.req, v)
    BY <1>3 DEF Arrive
  <2> QED
    BY <1>1, <2>1, <2>2
<1> QED
  BY <1>2, <1>3
  DEF Next, vars, space, server, Step, Resume, Prepare, Check, Start, Install, Mark, Lose, Throw,
      PageDies, Flush, Close, StartReview, KeepForImport, StartRound, Edit, StartCommand, Open,
      SyncReview, Elsewhere, Refresh

LEMMA StillRepeated ==
    ASSUME DirectInv, [Next]_vars
    PROVE  Repeated'
<1>0. Kept /\ Firm /\ TypeOK'
  BY IntentsKept, DecisionsFirm, NextTyped DEF DirectInv
<1>1. ASSUME NEW m \in sent'
      PROVE  intent'[m.op] # None /\ intent'[m.op].req = m.req
  <2>1. intent[m.op] # None /\ intent[m.op].req = m.req /\ m.op \in Commands
    BY SentBy DEF DirectInv, TypeOK, Repeated
  <2> QED
    BY <1>0, <2>1 DEF Kept
<1>2. ASSUME NEW c \in Commands, decided'[c] # None
      PROVE  intent'[c] # None /\ decided'[c].req = intent'[c].req
  <2>1. intent[c] # None /\ decided'[c].req = intent[c].req
    BY <1>0, <1>2, DecidedBy DEF DirectInv, Repeated, Firm
  <2> QED
    BY <1>0, <2>1 DEF Kept
<1> QED
  BY <1>1, <1>2 DEF Repeated

\* What OutcomesAreTrue says of one intent.
Outcome(c) ==
    /\ intent[c] # None /\ intent[c].state = "terminal" =>
         decided[c] = Accepted(intent[c].req)
    /\ intent[c] # None /\ intent[c].state = "failed" /\ intent[c].why # "handler" =>
         decided[c] = Rejected(intent[c].req)

LEMMA OutcomesByOne == OutcomesAreTrue <=> \A c \in Commands : Outcome(c)
BY DEF OutcomesAreTrue, Outcome, Accepted, Rejected

\* A step leaves an intent as it is, or open, or installs or marks it.
LEMMA IntentSteps ==
    ASSUME DirectInv, [Next]_vars, NEW c \in Commands
    PROVE  \/ intent'[c] = intent[c]
           \/ intent'[c] # None /\ intent'[c].state \in {"prepared", "in_flight"}
                /\ (intent[c] # None => Pending(c))
           \/ \E p \in Pages : /\ Op(p) = c /\ Same(p)
                               /\ \/ Install(p) /\ Installable(p)
                                  \/ Mark(p) /\ Markable(intent[c])
<1> DEFINE Goal == \/ intent'[c] = intent[c]
                   \/ intent'[c] # None /\ intent'[c].state \in {"prepared", "in_flight"}
                        /\ (intent[c] # None => Pending(c))
                   \/ \E p \in Pages : /\ Op(p) = c /\ Same(p)
                                       /\ \/ Install(p) /\ Installable(p)
                                          \/ Mark(p) /\ Markable(intent[c])
<1>0. TypeOK /\ intent \in [Commands -> Intents \cup {None}]
  BY DEF DirectInv, TypeOK
<1>1. CASE UNCHANGED intent
  BY <1>1
<1>2. ASSUME NEW p \in Pages, Prepare(p)
      PROVE  Goal
  <2>1. Op(p) \in Commands /\ Req(p) \in Requests
    BY <1>2, AtBound DEF DirectInv, Prepare, Labels
  <2>2. CASE UNCHANGED intent
    BY <2>2
  <2>3. ASSUME NEW x \in Bindings(Op(p), Req(p)), intent' = [intent EXCEPT ![Op(p)] = x]
        PROVE  Goal
    <3>1. CASE c = Op(p) /\ intent[c] = None
      <4>1. intent'[c] = New(Req(p))
        BY <1>0, <2>3, <3>1 DEF Bindings
      <4>2. New(Req(p)) \in Intents /\ New(Req(p)).state = "prepared"
        BY <2>1 DEF New, Intents
      <4> QED
        BY <3>1, <4>1, <4>2, NoneAssumption
    <3>2. CASE c # Op(p) \/ intent[c] # None
      BY <1>0, <2>3, <3>2 DEF Bindings
    <3> QED
      BY <3>1, <3>2
  <2> QED
    BY <1>2, <2>2, <2>3 DEF Prepare
<1>3. ASSUME NEW p \in Pages, Start(p)
      PROVE  Goal
  <2>1. CASE UNCHANGED intent
    BY <2>1
  <2>2. CASE Same(p) /\ Pending(Op(p)) /\ intent' = [intent EXCEPT ![Op(p)].state = "in_flight"]
    <3>1. CASE c = Op(p)
      <4>1. intent[c] \in Intents
        BY <1>0, <2>2, <3>1 DEF Same
      <4>2. intent'[c] \in Intents /\ intent'[c].state = "in_flight"
        BY <1>0, <2>2, <3>1, <4>1 DEF Intents
      <4> QED
        BY <2>2, <3>1, <4>2, NoneAssumption
    <3>2. CASE c # Op(p)
      BY <1>0, <2>2, <3>2
    <3> QED
      BY <3>1, <3>2
  <2> QED
    BY <1>3, <2>1, <2>2 DEF Start
<1>4. ASSUME NEW p \in Pages, Install(p)
      PROVE  Goal
  <2>1. CASE Installable(p) /\ Op(p) = c
    BY <1>4, <2>1 DEF Installable
  <2>2. CASE Op(p) # c
    BY <1>0, <1>4, <2>2 DEF Install, space
  <2>3. CASE ~Installable(p)
    BY <1>4, <2>3 DEF Install, space
  <2> QED
    BY <2>1, <2>2, <2>3
<1>5. ASSUME NEW p \in Pages, Mark(p)
      PROVE  Goal
  BY <1>0, <1>5 DEF Mark
<1> QED
  BY <1>1, <1>2, <1>3, <1>4, <1>5
  DEF Next, vars, space, server, Step, Resume, Check, Answer, Lose, Throw, PageDies, Flush, Close,
      StartReview, KeepForImport, StartRound, Edit, StartCommand, Open, SyncReview, Arrive,
      Elsewhere, Refresh

LEMMA StillTrue ==
    ASSUME DirectInv, [Next]_vars
    PROVE  OutcomesAreTrue'
<1>0. TypeOK /\ Firm /\ Kept
  BY IntentsKept, DecisionsFirm DEF DirectInv
<1> SUFFICES ASSUME NEW c \in Commands
             PROVE  Outcome(c)'
  BY OutcomesByOne DEF Outcome, OutcomesAreTrue, Accepted, Rejected
<1>a. \A r : Accepted(r) # Rejected(r)
  BY DEF Accepted, Rejected
<1>b. Outcome(c) /\ (intent[c] # None => intent[c] \in Intents)
  BY OutcomesByOne DEF DirectInv, TypeOK
<1>c. \A r \in Requests : Accepted(r) # None /\ Rejected(r) # None
  BY NoneAssumption DEF Accepted, Rejected, Decisions
<1>1. CASE intent'[c] = intent[c]
  BY <1>0, <1>1, <1>b, <1>c DEF Outcome, Firm, Intents
<1>2. CASE intent'[c] # None /\ intent'[c].state \in {"prepared", "in_flight"}
  BY <1>2 DEF Outcome
<1>3. ASSUME NEW p \in Pages, Install(p), Installable(p), Op(p) = c, Same(p)
      PROVE  Outcome(c)'
  <2>1. /\ call[p] # None /\ KnownCall(p) /\ call[p].at = "install"
        /\ intent[c].req = Req(p) /\ Req(p) \in Requests
    BY <1>3, AtBound DEF DirectInv, Known, Install, At, Same, Labels
  <2>2. decided[c] = Accepted(Req(p))
    BY <1>3, <2>1 DEF KnownCall, Op, Req
  <2>3. decided'[c] = Accepted(Req(p))
    BY <1>0, <1>c, <2>1, <2>2 DEF Firm
  <2>4. intent'[c].state = "terminal" /\ intent'[c].req = Req(p)
    <3>1. intent[c] \in Intents
      BY <1>3, <1>b DEF Same
    <3>2. intent' = [intent EXCEPT ![c].state = "terminal", ![c].why = "none"]
      BY <1>3 DEF Install
    <3> QED
      BY <1>0, <2>1, <3>1, <3>2 DEF TypeOK, Intents
  <2> QED
    BY <2>3, <2>4 DEF Outcome
<1>4. ASSUME NEW p \in Pages, Mark(p), Markable(intent[c]), Op(p) = c, Same(p)
      PROVE  Outcome(c)'
  <2>1. /\ call[p] # None /\ KnownCall(p) /\ call[p].at = "mark"
        /\ intent[c].req = Req(p) /\ Req(p) \in Requests
    BY <1>4, AtBound DEF DirectInv, Known, Mark, At, Same, Labels
  <2>2. intent'[c].state = "failed" /\ intent'[c].req = Req(p) /\ intent'[c].why = call[p].why
    <3>1. intent[c] \in Intents
      BY <1>4, <1>b DEF Same
    <3>2. intent' = [intent EXCEPT ![c].state = "failed", ![c].why = call[p].why]
      BY <1>4 DEF Mark
    <3> QED
      BY <1>0, <2>1, <3>1, <3>2 DEF TypeOK, Intents
  <2>3. call[p].why = "code" => decided[c] = Rejected(Req(p))
    BY <1>4, <2>1 DEF KnownCall, Op, Req
  <2>4. call[p].why # "handler" => decided'[c] = Rejected(Req(p))
    BY <1>0, <1>c, <2>1, <2>3 DEF Firm, KnownCall
  <2> QED
    BY <2>2, <2>4 DEF Outcome
<1> QED
  BY <1>1, <1>2, <1>3, <1>4, IntentSteps

----------------------------------------------------------------------------
(* The theorems *)

LEMMA InitHolds == Init => DirectInv
<1> SUFFICES ASSUME Init PROVE DirectInv
  OBVIOUS
<1>1. TypeOK
  BY InitTyped
<1>2. Bound /\ Repeated /\ Known /\ OutcomesAreTrue
  BY DEF Init, Bound, Repeated, Known, OutcomesAreTrue
<1> QED
  BY <1>1, <1>2 DEF DirectInv

LEMMA NextHolds == DirectInv /\ [Next]_vars => DirectInv'
BY NextTyped, CallsGood, StillRepeated, StillTrue DEF DirectInv

(* The inductive invariant holds: types, calls, requests and decisions that *)
(* repeat their intents, pages that know the decision they act on.         *)
THEOREM DirectInvariance == Spec => []DirectInv
BY InitHolds, NextHolds, PTL DEF Spec

(* Every variable of the direct commands keeps its type.                   *)
THEOREM TypeCorrect == Spec => []TypeOK
<1>1. DirectInv => TypeOK
  BY DEF DirectInv
<1> QED
  BY <1>1, DirectInvariance, PTL

(* The server never sees two requests under one operation id.              *)
THEOREM OneRequest == Spec => []OneRequestPerOperation
<1>1. DirectInv => OneRequestPerOperation
  BY DEF DirectInv, Repeated, OneRequestPerOperation
<1> QED
  BY <1>1, DirectInvariance, PTL

(* What an intent says of the server is true.                              *)
THEOREM TrueOutcomes == Spec => []OutcomesAreTrue
<1>1. DirectInv => OutcomesAreTrue
  BY DEF DirectInv
<1> QED
  BY <1>1, DirectInvariance, PTL

\* A draft goes when its review is installed, and only then.
LEMMA ClearedBy ==
    ASSUME DirectInv, [Next]_vars, NEW s \in Sessions, draft[s] # None, draft'[s] = None
    PROVE  \E p \in Pages : Install(p) /\ Installable(p) /\ Req(p).target = s
<1>1. ASSUME NEW p \in Pages, Flush(p)
      PROVE  FALSE
  <2>1. Row(held[p]) \in Drafts
    BY <1>1 DEF DirectInv, TypeOK, Flush, Row, Drafts
  <2>2. draft'[s] \in {draft[s], Row(held[p])}
    BY <1>1 DEF DirectInv, TypeOK, Flush
  <2> QED
    BY <2>1, <2>2, NoneAssumption
<1>2. ASSUME NEW p \in Pages, Install(p)
      PROVE  Installable(p) /\ Req(p).target = s
  BY <1>2 DEF Install, space
<1> QED
  BY <1>1, <1>2
  DEF Next, vars, space, server, Step, Resume, Prepare, Check, Start, Answer, Mark, Lose, Throw,
      PageDies, Close, StartReview, KeepForImport, StartRound, Edit, StartCommand, Open,
      SyncReview, Arrive, Elsewhere, Refresh

(* A draft is cleared only when the server has accepted what it says.      *)
THEOREM DraftsKept == Spec => DraftsAreKept
<1> DEFINE Clear == \A s \in Sessions : draft[s] # None /\ draft'[s] = None =>
                       LET d == decided[draft[s].op]
                       IN  d # None /\ d.verdict = "accepted"
                             /\ d.req.target = s /\ d.req.content = draft[s].content
<1>1. DirectInv /\ [Next]_vars => [Clear]_vars
  <2> SUFFICES ASSUME DirectInv, [Next]_vars, NEW s \in Sessions,
                      draft[s] # None, draft'[s] = None
               PROVE  /\ decided[draft[s].op] # None
                      /\ decided[draft[s].op].verdict = "accepted"
                      /\ decided[draft[s].op].req.target = s
                      /\ decided[draft[s].op].req.content = draft[s].content
    OBVIOUS
  <2>1. PICK p \in Pages : Install(p) /\ Installable(p) /\ Req(p).target = s
    BY ClearedBy
  <2>2. /\ call[p] # None /\ KnownCall(p) /\ call[p].at = "install"
        /\ Op(p) \in Commands /\ Req(p) \in Requests
    BY <2>1, AtBound DEF DirectInv, Known, Install, At, Labels
  <2>3. decided[Op(p)] = Accepted(Req(p))
    BY <2>2 DEF KnownCall, Op, Req
  <2>4. draft[s].op = Op(p) /\ draft[s].content = Req(p).content
    BY <2>1 DEF Installable, IsReview, Matches
  <2>5. Accepted(Req(p)) # None
    BY <2>2, NoneAssumption DEF Accepted, Decisions
  <2> QED
    BY <2>1, <2>3, <2>4, <2>5 DEF Accepted
<1> QED
  BY <1>1, DirectInvariance, PTL DEF Spec, DraftsAreKept

(* A result stays, whatever a late round or a failing call does.           *)
THEOREM ResultsStand == Spec => ResultsStay
<1> DEFINE Stay == \A c \in Commands : intent[c] # None =>
                      /\ intent'[c] # None /\ intent'[c].req = intent[c].req
                      /\ intent[c].state = "terminal" => intent'[c] = intent[c]
<1>1. DirectInv /\ [Next]_vars => [Stay]_vars
  <2> SUFFICES ASSUME DirectInv, [Next]_vars, NEW c \in Commands, intent[c] # None
               PROVE  /\ intent'[c] # None /\ intent'[c].req = intent[c].req
                      /\ intent[c].state = "terminal" => intent'[c] = intent[c]
    OBVIOUS
  <2>1. intent'[c] # None /\ intent'[c].req = intent[c].req
    BY IntentsKept DEF Kept
  <2>2. ASSUME intent[c].state = "terminal"
        PROVE  intent'[c] = intent[c]
    BY <2>2, IntentSteps DEF Pending, Installable, Markable
  <2> QED
    BY <2>1, <2>2
<1> QED
  BY <1>1, DirectInvariance, PTL DEF Spec, ResultsStay

----------------------------------------------------------------------------
(* The reviews of a session. *)

\* The row of a task: no effort is projected to it.
TaskRow(row) ==
    /\ row = [title |-> row.title, status |-> row.status, effort |-> 0, version |-> row.version]
    /\ row.version \in Nat

SessionRow(s) ==
    /\ s = [own |-> s.own, ended |-> s.ended, validity |-> s.validity, version |-> s.version]
    /\ s.ended \in BOOLEAN

TablesTyped ==
    /\ calls = [r \in Roots |-> calls[r]]
    /\ receipts = [c \in Roots \X Tasks |-> receipts[c]]
    /\ journal = [c \in Roots \X Tasks |-> journal[c]]
    /\ before = [c \in Roots \X Tasks |-> before[c]]
    /\ work = [w \in Tasks \cup {Level2} |-> work[w]]
    /\ \A i \in Tasks : TaskRow(work[i])
    /\ SessionRow(session)

FrozenTyped ==
    /\ frozen = [title |-> frozen.title, status |-> frozen.status, structure |-> frozen.structure]
    /\ frozen.structure # Nil =>
         /\ frozen.structure = [level2 |-> frozen.structure.level2, tasks |-> frozen.structure.tasks]
         /\ frozen.structure.tasks = [i \in DOMAIN frozen.structure.tasks |-> frozen.structure.tasks[i]]
    /\ FrozenTasks \subseteq Tasks

FrozenRow(i) == frozen.structure.tasks[i]

\* The frozen structure is a past of the tasks: who has its version has it all.
FrozenIsPast ==
    \A i \in FrozenTasks :
        /\ TaskRow(FrozenRow(i)) /\ FrozenRow(i).version <= work[i].version
        /\ work[i].version = FrozenRow(i).version => work[i] = FrozenRow(i)

\* An envelope expects the task as it is frozen.
Expecting(E) ==
    /\ DOMAIN E \subseteq Roots \X Tasks
    /\ \A c \in DOMAIN E :
         /\ E[c].task = c[2]
         /\ E[c].task \in FrozenTasks => E[c].expected = FrozenRow(E[c].task).version

\* Reviews are compiled, and their envelopes written, when the session has ended.
EnvelopesHold ==
    /\ Expecting(envelopes)
    /\ DOMAIN envelopes # {} => session.ended

\* A command whose rows are written acted on its task as it is frozen: put
\* back, it is the frozen row again.
Restores(c) ==
    /\ c \in DOMAIN envelopes
    /\ TaskRow(before[c])
    /\ c[2] \in FrozenTasks => before[c] = FrozenRow(c[2])

BeforeHolds == \A c \in Roots \X Tasks : journal[c] = "committed" => Restores(c)

\* The batch of the command is over, and has a result.
Over(c) == journal[c] \in Answered \cup Refused

\* What a state of a receipt says of the command's own batch.
True(c, state) ==
    /\ state = "succeeded" => journal[c] \in Answered
    /\ state \in Refused => journal[c] = state

Reconciling == {"admit", "admitted", "read", "execute", "executing", "record", "receipt", "lost"}

CallHolds(k) ==
    /\ k.pc = "review" => /\ session.ended /\ Expecting(k.envelopes)
                          /\ SessionRow(k.after) /\ k.after.ended
    /\ k.pc \in Reconciling => k.command \in DOMAIN envelopes
    /\ k.pc = "record" => True(k.command, k.state)
    /\ k.pc \in {"admit", "receipt"} /\ k.write.to # Nil => True(k.command, k.write.to.state)
    /\ k.pc \in {"none", "review", "done"} \cup Reconciling
    /\ k.pc = "lost" => k = [pc |-> "lost", command |-> k.command, decision |-> k.decision]

CallsHold == \A r \in Roots : CallHolds(calls[r])

\* What a receipt says is true, and so is what a request is about to write.
ReceiptsHold == \A c \in Roots \X Tasks : receipts[c] # Nil => True(c, receipts[c].state)

\* The inductive invariant of the reviews: the frozen structure is a past of the
\* tasks, envelopes expect it, what may be put back is frozen, and what is said of
\* a command is in its journal.
ReviewInv ==
    /\ TablesTyped /\ FrozenTyped /\ FrozenIsPast /\ EnvelopesHold
    /\ BeforeHolds /\ CallsHold /\ ReceiptsHold

\* A row whose title or status changes has another version.
LEMMA ChangedRow ==
    ASSUME NEW row, TaskRow(row), NEW f \in {"title", "status"}, NEW v
    PROVE  TaskRow(Changed(row, f, v)) /\ Changed(row, f, v).version = row.version + 1
<1>1. PICK t, s, n : row = [title |-> t, status |-> s, effort |-> 0, version |-> n] /\ n \in Nat
  BY DEF TaskRow
<1>2. CASE f = "title"
  <2>1. [row EXCEPT !["title"] = v] = [title |-> v, status |-> s, effort |-> 0, version |-> n]
    BY <1>1
  <2>2. \A R : R = [title |-> v, status |-> s, effort |-> 0, version |-> n]
             => [R EXCEPT !.version = n + 1] = [title |-> v, status |-> s, effort |-> 0, version |-> n + 1]
    OBVIOUS
  <2>3. row.version = n  BY <1>1
  <2>4. Changed(row, "title", v) = [title |-> v, status |-> s, effort |-> 0, version |-> n + 1]
    BY <2>1, <2>2, <2>3, Zenon DEF Changed
  <2> QED  BY <2>4, <1>1, <1>2 DEF TaskRow
<1>3. CASE f = "status"
  <2>1. [row EXCEPT !["status"] = v] = [title |-> t, status |-> v, effort |-> 0, version |-> n]
    BY <1>1
  <2>2. \A R : R = [title |-> t, status |-> v, effort |-> 0, version |-> n]
             => [R EXCEPT !.version = n + 1] = [title |-> t, status |-> v, effort |-> 0, version |-> n + 1]
    OBVIOUS
  <2>3. row.version = n  BY <1>1
  <2>4. Changed(row, "status", v) = [title |-> t, status |-> v, effort |-> 0, version |-> n + 1]
    BY <2>1, <2>2, <2>3, Zenon DEF Changed
  <2> QED  BY <2>4, <1>1, <1>3 DEF TaskRow
<1> QED  BY <1>2, <1>3

\* The step moves tasks forward, leaves them or puts the frozen one back.
Onward ==
    /\ work' = [w \in Tasks \cup {Level2} |-> work'[w]]
    /\ \A i \in Tasks :
         \/ work'[i] = work[i]
         \/ /\ TaskRow(work'[i])
            /\ \/ work'[i].version = work[i].version + 1
               \/ i \in FrozenTasks => work'[i] = FrozenRow(i)

\* A step that freezes nothing leaves the structure a past of the tasks.
LEMMA PastStays ==
    ASSUME TablesTyped, FrozenTyped, FrozenIsPast, Onward, frozen' = frozen
    PROVE  FrozenTyped' /\ FrozenIsPast' /\ (\A i \in Tasks : TaskRow(work'[i]))
<1>1. FrozenTyped'  BY DEF FrozenTyped, FrozenTasks
<1>2. ASSUME NEW i \in Tasks  PROVE TaskRow(work'[i])
  BY <1>2 DEF Onward, TablesTyped
<1>3. FrozenTasks' = FrozenTasks  BY DEF FrozenTasks
<1>4. ASSUME NEW i \in FrozenTasks
      PROVE  /\ TaskRow(FrozenRow(i)) /\ FrozenRow(i).version <= work'[i].version
             /\ work'[i].version = FrozenRow(i).version => work'[i] = FrozenRow(i)
  <2>1. i \in Tasks  BY <1>4 DEF FrozenTyped
  <2>2. /\ TaskRow(FrozenRow(i)) /\ FrozenRow(i).version <= work[i].version
        /\ work[i].version = FrozenRow(i).version => work[i] = FrozenRow(i)
    BY <1>4 DEF FrozenIsPast
  <2>3. FrozenRow(i).version \in Nat /\ work[i].version \in Nat
    BY <2>1, <2>2 DEF TaskRow, TablesTyped
  <2>4. work'[i] = work[i] \/ work'[i].version = work[i].version + 1 \/ work'[i] = FrozenRow(i)
    BY <1>4, <2>1 DEF Onward
  <2> QED  BY <2>2, <2>3, <2>4
<1> QED  BY <1>1, <1>2, <1>3, <1>4 DEF FrozenIsPast, FrozenRow

\* What holds of a call and of the envelopes, but for their writing, outlives
\* every step that neither takes back an end nor a decision.
Onwards ==
    /\ session.ended => session'.ended /\ frozen' = frozen
    /\ DOMAIN envelopes \subseteq DOMAIN envelopes'
    /\ \A c \in Roots \X Tasks : Over(c) => journal'[c] = journal[c]

LEMMA TruthStays ==
    ASSUME Onwards, NEW c \in Roots \X Tasks, NEW state, True(c, state)
    PROVE  True(c, state)'
BY DEF Onwards, True, Over, Answered, Refused

LEMMA ExpectingStays ==
    ASSUME frozen' = frozen, NEW E, Expecting(E)
    PROVE  Expecting(E)'
BY DEF Expecting, FrozenTasks, FrozenRow

LEMMA CallStays ==
    ASSUME Onwards, EnvelopesHold, NEW k, CallHolds(k)
    PROVE  CallHolds(k)'
<1>1. k.pc = "review" => session'.ended /\ Expecting(k.envelopes)'
  <2> SUFFICES ASSUME k.pc = "review" PROVE session'.ended /\ Expecting(k.envelopes)'
    OBVIOUS
  <2>1. session.ended /\ Expecting(k.envelopes)  BY DEF CallHolds
  <2>2. session'.ended /\ frozen' = frozen  BY <2>1 DEF Onwards
  <2> QED  BY <2>1, <2>2, ExpectingStays
<1>2. k.pc \in Reconciling => k.command \in DOMAIN envelopes'
  BY DEF CallHolds, Onwards
<1>3. k.pc \in Reconciling => k.command \in Roots \X Tasks
  BY DEF CallHolds, EnvelopesHold, Expecting
<1>4. k.pc = "record" => True(k.command, k.state)'
  BY <1>3, TruthStays DEF CallHolds, Reconciling
<1>5. k.pc \in {"admit", "receipt"} /\ k.write.to # Nil => True(k.command, k.write.to.state)'
  BY <1>3, TruthStays DEF CallHolds, Reconciling
<1> QED  BY <1>1, <1>2, <1>4, <1>5 DEF CallHolds

\* No batch writes its rows in the step.
Steady == \A c \in Roots \X Tasks :
              journal'[c] = "committed" => journal[c] = "committed" /\ before'[c] = before[c]

LEMMA BeforeStays ==
    ASSUME BeforeHolds, EnvelopesHold, Onwards, Steady
    PROVE  BeforeHolds'
<1> SUFFICES ASSUME NEW c \in Roots \X Tasks, journal'[c] = "committed"
             PROVE  Restores(c)'
  BY DEF BeforeHolds
<1>1. Restores(c) /\ before'[c] = before[c]  BY DEF Steady, BeforeHolds
<1>2. frozen' = frozen /\ c \in DOMAIN envelopes'
  BY <1>1 DEF Restores, EnvelopesHold, Onwards
<1> QED  BY <1>1, <1>2 DEF Restores, FrozenTasks, FrozenRow

\* What a step leaves to be shown.
LEMMA StepHolds ==
    ASSUME ReviewInv, TablesTyped', FrozenTyped', FrozenIsPast', EnvelopesHold', Onwards,
           Steady \/ BeforeHolds',
           \A r \in Roots : calls'[r] = calls[r] \/ CallHolds(calls[r])',
           \A c \in Roots \X Tasks : \/ receipts'[c] = receipts[c]
                                     \/ receipts'[c] # Nil => True(c, receipts[c].state)'
    PROVE  ReviewInv'
<1>1. ASSUME NEW r \in Roots, calls'[r] = calls[r]
      PROVE  CallHolds(calls[r])'
  <2>1. PICK k : k = calls[r]  OBVIOUS
  <2>2. CallHolds(k)  BY <2>1 DEF ReviewInv, CallsHold
  <2>3. CallHolds(k)'  BY <2>2, CallStays DEF ReviewInv
  <2>4. k = calls'[r]  BY <2>1, <1>1
  <2> QED  BY <2>3, <2>4 DEF CallHolds, Expecting, True, FrozenTasks, FrozenRow
<1>2. CallsHold'  BY <1>1 DEF CallsHold
<1>3. ASSUME NEW c \in Roots \X Tasks, receipts'[c] # Nil, receipts'[c] = receipts[c]
      PROVE  True(c, receipts[c].state)'
  <2>1. PICK s : s = receipts[c].state  OBVIOUS
  <2>2. True(c, s)  BY <1>3, <2>1 DEF ReviewInv, ReceiptsHold
  <2>3. True(c, s)'  BY <2>2, TruthStays
  <2>4. s = receipts'[c].state  BY <2>1, <1>3
  <2> QED  BY <2>3, <2>4 DEF True
<1>4. ReceiptsHold'  BY <1>3 DEF ReceiptsHold
<1>5. BeforeHolds'  BY BeforeStays DEF ReviewInv
<1> QED  BY <1>2, <1>4, <1>5 DEF ReviewInv

\* Nothing but one call changes.
LEMMA QuietStep ==
    ASSUME ReviewInv, NEW r \in Roots, NEW k, CallHolds(k), Go(r, k),
           UNCHANGED <<session, frozen, work, envelopes, receipts, journal, before>>
    PROVE  ReviewInv'
<1>1. calls' = [q \in Roots |-> IF q = r THEN k ELSE calls[q]]
  BY DEF Go, ReviewInv, TablesTyped
<1>2. TablesTyped'  BY <1>1 DEF ReviewInv, TablesTyped
<1>3. FrozenTyped'  BY DEF ReviewInv, FrozenTyped, FrozenTasks
<1>4. FrozenIsPast'  BY DEF ReviewInv, FrozenIsPast, FrozenTasks, FrozenRow
<1>5. EnvelopesHold'  BY DEF ReviewInv, EnvelopesHold, Expecting, FrozenTasks, FrozenRow
<1>6. Onwards /\ Steady  BY DEF Onwards, Steady
<1>7. CallHolds(k)'  BY <1>6, CallStays DEF ReviewInv
<1>8. ASSUME NEW q \in Roots, calls'[q] # calls[q]
      PROVE  CallHolds(calls[q])'
  <2>1. calls'[q] = k  BY <1>1, <1>8
  <2> QED  BY <2>1, <1>7 DEF CallHolds, Expecting, True, FrozenTasks, FrozenRow
<1> QED  BY <1>2, <1>3, <1>4, <1>5, <1>6, <1>8, StepHolds

\* What a request knows when it is at one of its steps.
LEMMA AtStep ==
    ASSUME ReviewInv, NEW r \in Roots, calls[r].pc \in Reconciling
    PROVE  /\ calls[r].command \in DOMAIN envelopes
           /\ calls[r].command \in Roots \X Tasks
BY DEF ReviewInv, CallsHold, CallHolds, EnvelopesHold, Expecting

\* Calls that are over, and calls that carry a command on.
LEMMA OverHolds == CallHolds([pc |-> "done"])
BY DEF CallHolds, Reconciling

LEMMA CarriesHolds ==
    ASSUME NEW c \in DOMAIN envelopes, NEW d,
           NEW p \in {"admitted", "execute", "executing", "lost"}
    PROVE  CallHolds([pc |-> p, command |-> c, decision |-> d])
BY DEF CallHolds, Reconciling

\* A request that fails has its command still.
LEMMA LostHolds ==
    ASSUME ReviewInv, NEW r \in Roots, calls[r].pc \in Reconciling
    PROVE  CallHolds(Lost(calls[r]))
<1>1. PICK c, d : c = calls[r].command /\ d = calls[r].decision  OBVIOUS
<1>2. c \in DOMAIN envelopes  BY <1>1, AtStep
<1> QED  BY <1>1, <1>2, CarriesHolds DEF Lost

LEMMA RecordHolds ==
    ASSUME NEW c \in DOMAIN envelopes, NEW d, NEW s, NEW x, True(c, s)
    PROVE  CallHolds(ToRecord(c, d, s, x))
BY DEF CallHolds, Reconciling, ToRecord

\* An outcome is told as it is; of a timeout nothing is told.
LEMMA OutcomeIsTrue ==
    ASSUME NEW c \in Roots \X Tasks, Over(c)
    PROVE  True(c, OutcomeState(journal[c]))
BY DEF True, OutcomeState, Over, Answered, Refused

\* A judgement changes no other part of the row.
LEMMA JudgedRow ==
    ASSUME SessionRow(session), NEW v
    PROVE  SessionRow(Judged(v)) /\ Judged(v).ended = session.ended
<1>1. PICK o, e, x, n : session = [own |-> o, ended |-> e, validity |-> x, version |-> n]
                        /\ e \in BOOLEAN
  BY DEF SessionRow
<1>2. [session EXCEPT !.validity = v] = [own |-> o, ended |-> e, validity |-> v, version |-> n]
  BY <1>1
<1>3. \A R, m : R = [own |-> o, ended |-> e, validity |-> v, version |-> n]
            => [R EXCEPT !.version = m] = [own |-> o, ended |-> e, validity |-> v, version |-> m]
  OBVIOUS
<1>4. \A R, m, q : R = [own |-> o, ended |-> e, validity |-> v, version |-> m]
            => [R EXCEPT !.own = q] = [own |-> q, ended |-> e, validity |-> v, version |-> m]
  OBVIOUS
<1>5. PICK q : q = IF v = "valid" THEN "authoritative" ELSE session.own  OBVIOUS
<1>6. PICK m : m = session.version + 1  OBVIOUS
<1>7. PICK A : A = [session EXCEPT !.validity = v]  OBVIOUS
<1>8. PICK B : B = [A EXCEPT !.version = m]  OBVIOUS
<1>9. B = [own |-> o, ended |-> e, validity |-> v, version |-> m]  BY <1>2, <1>3, <1>7, <1>8
<1>10. Judged(v) = [B EXCEPT !.own = q]  BY <1>5, <1>6, <1>7, <1>8, Zenon DEF Judged
<1>11. Judged(v) = [own |-> q, ended |-> e, validity |-> v, version |-> m]
  BY <1>4, <1>9, <1>10
<1> QED  BY <1>1, <1>11 DEF SessionRow

\* A compiled review ends a session, and its envelopes expect what is frozen.
LEMMA CompiledReview ==
    ASSUME ReviewInv, NEW r \in Roots, NEW S \in SUBSET Tasks, NEW marks \in [S -> Marks],
           NEW v, CompileReview(r, marks, v)
    PROVE  ReviewInv'
<1> DEFINE k == [pc |-> "review", marks |-> marks, seen |-> session,
                 after |-> Judged(v), level2 |-> work[Level2], credited |-> Credited(Judged(v)),
                 envelopes |-> Envelopes(r, marks)]
<1>1. Expecting(Envelopes(r, marks))
  <2> DEFINE E == Envelopes(r, marks)
  <2>1. ASSUME NEW c \in DOMAIN E
        PROVE  /\ c \in Roots \X Tasks /\ c[2] \in DOMAIN marks
               /\ E[c].task = c[2] /\ E[c].expected = work[c[2]].version
    BY <2>1 DEF Envelopes, Command
  <2>2. ASSUME NEW i \in DOMAIN marks, i \in FrozenTasks
        PROVE  work[i].version = FrozenRow(i).version
    <3>1. TaskHolds(i)  BY <2>2 DEF CompileReview, SnapshotsHold
    <3> QED  BY <3>1, <2>2 DEF TaskHolds, Unchanged, FrozenRow
  <2> QED  BY <2>1, <2>2 DEF Expecting
<1>2. session.ended  BY DEF CompileReview, Reviewable
<1>3. SessionRow(Judged(v)) /\ Judged(v).ended
  BY <1>2, JudgedRow DEF ReviewInv, TablesTyped
<1>4. CallHolds(k)
  <2>1. k.pc = "review" /\ k.envelopes = Envelopes(r, marks) /\ k.after = Judged(v)  OBVIOUS
  <2> HIDE DEF k
  <2> QED  BY <2>1, <1>1, <1>2, <1>3 DEF CallHolds, Reconciling
<1>5. Go(r, k) /\ UNCHANGED <<session, frozen, work, envelopes, receipts, journal, before>>
  BY DEF CompileReview, planVars, batchVars
<1> QED  BY <1>4, <1>5, QuietStep

\* A request is admitted; what it may write claims no outcome.
LEMMA CompiledAdmission ==
    ASSUME ReviewInv, NEW r \in Roots, NEW c \in Roots \X Tasks, NEW wish,
           CompileAdmission(r, c, wish)
    PROVE  ReviewInv'
<1> DEFINE d == Decision(r, c, wish)
           w == Write(c, AdmissionReceipt(r, c, d))
           k == [pc |-> "admit", command |-> c, decision |-> d, write |-> w]
<1>1. c \in DOMAIN envelopes  BY DEF CompileAdmission, Enveloped
<1>2. w.to # Nil => True(c, w.to.state)
  <2>1. w.to = AdmissionReceipt(r, c, d)  BY DEF Write
  <2>2. AdmissionReceipt(r, c, d) # Nil =>
           \/ AdmissionReceipt(r, c, d).state \in {"abandoned", "pending"}
           \/ receipts[c] # Nil /\ AdmissionReceipt(r, c, d).state = receipts[c].state
    <3> HIDE DEF d
    <3>1. CASE d = "abandoned"  BY <3>1 DEF AdmissionReceipt, Receipt
    <3>2. CASE d = "replay_claimed" /\ ~Claimed(receipts[c])
      BY <3>2 DEF AdmissionReceipt, Receipt
    <3>3. CASE d # "abandoned" /\ ~(d = "replay_claimed" /\ ~Claimed(receipts[c]))
      BY <3>3 DEF AdmissionReceipt
    <3> QED  BY <3>1, <3>2, <3>3
  <2>3. receipts[c] # Nil => True(c, receipts[c].state)  BY DEF ReviewInv, ReceiptsHold
  <2> QED  BY <2>1, <2>2, <2>3 DEF True, Refused
<1>3. CallHolds(k)  BY <1>1, <1>2 DEF CallHolds, Reconciling
<1>4. Go(r, k) /\ UNCHANGED <<session, frozen, work, envelopes, receipts, journal, before>>
  BY DEF CompileAdmission, planVars, batchVars
<1> QED  BY <1>3, <1>4, QuietStep

\* A request looks for the outcome of its command.
LEMMA QueriedOriginal ==
    ASSUME ReviewInv, NEW r \in Roots, QueryOriginal(r)
    PROVE  ReviewInv'
<1> DEFINE c == calls[r].command
           d == calls[r].decision
<1>1. c \in DOMAIN envelopes /\ c \in Roots \X Tasks
  BY AtStep DEF QueryOriginal, Reconciling
<1>2. PICK k : Go(r, k) /\ \/ \E x : journal[c] \in Answered
                                      /\ k = ToRecord(c, d, OutcomeState(journal[c]), x)
                           \/ k = ToRecord(c, d, "pending", Nil)
                           \/ k = [pc |-> "execute", command |-> c, decision |-> d]
                           \/ k = [pc |-> "done"]
  BY DEF QueryOriginal
<1>3. CallHolds(k)
  <2>1. True(c, "pending")  BY DEF True, Refused
  <2>2. journal[c] \in Answered => Over(c)  BY DEF Over
  <2> HIDE DEF c, d
  <2> QED  BY <1>1, <1>2, <2>1, <2>2, OutcomeIsTrue, RecordHolds, CarriesHolds, OverHolds
<1>4. UNCHANGED <<session, frozen, work, envelopes, receipts, journal, before>>
  BY DEF QueryOriginal, planVars, batchVars
<1> QED  BY <1>2, <1>3, <1>4, QuietStep

\* The receipt that a request compiles says what the request has to record.
LEMMA CompiledReceipt ==
    ASSUME ReviewInv, NEW r \in Roots, CompileReceipt(r)
    PROVE  ReviewInv'
<1> DEFINE c == calls[r].command
           w == Write(c, Verdict(calls[r]))
<1>1. c \in DOMAIN envelopes /\ True(c, calls[r].state)
  BY DEF CompileReceipt, Reconciling, ReviewInv, CallsHold, CallHolds
<1>2. w.to.state = calls[r].state  BY DEF Write, Verdict, Receipt
<1>3. PICK k : Go(r, k) /\ \/ k = [pc |-> "receipt", command |-> c,
                                   decision |-> calls[r].decision, write |-> w]
                           \/ k = [pc |-> "done"]
  BY DEF CompileReceipt, Finish
<1>4. CallHolds(k)
  <2> HIDE DEF c, w
  <2> QED  BY <1>1, <1>2, <1>3, OverHolds DEF CallHolds, Reconciling
<1>5. UNCHANGED <<session, frozen, work, envelopes, receipts, journal, before>>
  BY DEF CompileReceipt, planVars, batchVars
<1> QED  BY <1>3, <1>4, <1>5, QuietStep

\* The other steps that change one call only.
LEMMA QuietSteps ==
    ASSUME ReviewInv, NEW r \in Roots,
           \/ JamReview(r) \/ ReadReceipt(r) \/ ReplayTransition(r) \/ TimeOut(r)
           \/ LoseRequest(r) \/ SendAgain(r)
    PROVE  ReviewInv'
<1> DEFINE c == calls[r].command
           d == calls[r].decision
<1>1. UNCHANGED <<session, frozen, work, envelopes, receipts, journal, before>>
  BY DEF JamReview, Jam, ReadReceipt, ReplayTransition, TimeOut, LoseRequest, SendAgain,
     planVars, batchVars
<1>2. CASE JamReview(r)
  BY <1>1, <1>2, OverHolds, QuietStep DEF JamReview, Finish
<1>3. CASE ReadReceipt(r)
  <2>1. c \in DOMAIN envelopes  BY <1>3, AtStep DEF ReadReceipt, Reconciling
  <2>2. CallHolds([pc |-> "read", command |-> c, decision |-> d, local |-> receipts[c]])
    BY <2>1 DEF CallHolds, Reconciling
  <2> QED  BY <1>1, <1>3, <2>2, QuietStep DEF ReadReceipt
<1>4. CASE ReplayTransition(r)
  <2>1. c \in DOMAIN envelopes /\ c \in Roots \X Tasks
    BY <1>4, AtStep DEF ReplayTransition, Reconciling
  <2>2. CASE journal[c] \in Answered \cup Refused /\ OutcomeKnown(r, journal[c])
    <3>1. True(c, OutcomeState(journal[c]))  BY <2>1, <2>2, OutcomeIsTrue DEF Over
    <3> QED  BY <1>1, <2>1, <2>2, <3>1, RecordHolds, QuietStep DEF OutcomeKnown
  <2>3. CASE Go(r, Lost(calls[r]))
    BY <1>1, <1>4, <2>3, LostHolds, QuietStep DEF ReplayTransition, Reconciling
  <2> QED  BY <1>4, <2>2, <2>3 DEF ReplayTransition
<1>5. CASE TimeOut(r)
  <2>1. c \in DOMAIN envelopes  BY <1>5, AtStep DEF TimeOut, Reconciling
  <2>2. True(c, OutcomeState("timeout"))  BY DEF True, OutcomeState, Answered, Refused
  <2> QED  BY <1>1, <1>5, <2>1, <2>2, RecordHolds, QuietStep DEF TimeOut, OutcomeKnown
<1>6. CASE LoseRequest(r)
  <2>1. PICK k : Go(r, k) /\ k = IF calls[r].pc = "review" THEN [pc |-> "done"] ELSE Lost(calls[r])
    BY <1>6 DEF LoseRequest
  <2>2. CASE calls[r].pc = "review"
    BY <1>1, <2>1, <2>2, OverHolds, QuietStep
  <2>3. CASE calls[r].pc # "review"
    <3>1. calls[r].pc \in {"none", "review", "done"} \cup Reconciling
      BY DEF ReviewInv, CallsHold, CallHolds
    <3>2. calls[r].pc \in Reconciling  BY <1>6, <2>3, <3>1 DEF LoseRequest, Underway
    <3> QED  BY <1>1, <2>1, <2>3, <3>2, LostHolds, QuietStep
  <2> QED  BY <2>2, <2>3
<1>7. CASE SendAgain(r)
  <2>1. c \in DOMAIN envelopes  BY <1>7, AtStep DEF SendAgain, Reconciling
  <2>2. PICK k : k = [calls[r] EXCEPT !.pc = "admitted"]  OBVIOUS
  <2>3. k.pc = "admitted" /\ k.command = c
    BY <1>7, <2>2 DEF SendAgain, ReviewInv, CallsHold, CallHolds, Reconciling
  <2>4. CallHolds(k)  BY <2>1, <2>3 DEF CallHolds, Reconciling
  <2> QED  BY <1>1, <1>7, <2>2, <2>4, QuietStep DEF SendAgain
<1> QED  BY <1>2, <1>3, <1>4, <1>5, <1>6, <1>7

\* What a task is expected to be, it is as the session froze it.
LEMMA ExpectedIsFrozen ==
    ASSUME ReviewInv, NEW c \in DOMAIN envelopes, AsExpected(c), envelopes[c].task \in FrozenTasks
    PROVE  work[envelopes[c].task] = frozen.structure.tasks[envelopes[c].task]
BY DEF ReviewInv, EnvelopesHold, Expecting, AsExpected, FrozenIsPast, FrozenRow

\* What a batch of a command goes through, at its request or at a recovery.
BatchStep(c) ==
    \/ Carry(c) \/ JamCommand(c) \/ TakeBack(c)
    \/ Settle(c, "running", "aborted") \/ Settle(c, "committed", "applied")

\* The batch of a command moves its task on or puts the frozen row back.
LEMMA MovedTask ==
    ASSUME ReviewInv, NEW c \in DOMAIN envelopes, BatchStep(c)
    PROVE  Onward
<1>1. PICK t \in Tasks : t = envelopes[c].task /\ t = c[2] /\ c \in Roots \X Tasks
  BY DEF ReviewInv, EnvelopesHold, Expecting
<1>2. CASE work' = work  BY <1>2 DEF Onward, ReviewInv, TablesTyped
<1>3. CASE Carry(c)
  <2>1. PICK row : row = Changed(work[t], "status", envelopes[c].transition)  OBVIOUS
  <2>2. work' = [w \in Tasks \cup {Level2} |-> IF w = t THEN row ELSE work[w]]
    BY <1>1, <1>3, <2>1 DEF Carry, Transited, ReviewInv, TablesTyped
  <2>3. TaskRow(row) /\ row.version = work[t].version + 1
    BY <2>1, ChangedRow DEF ReviewInv, TablesTyped
  <2> QED  BY <2>2, <2>3 DEF Onward
<1>4. CASE TakeBack(c)
  <2>1. work' = [w \in Tasks \cup {Level2} |-> IF w = t THEN before[c] ELSE work[w]]
    BY <1>1, <1>4 DEF TakeBack, ReviewInv, TablesTyped
  <2>2. TaskRow(before[c]) /\ (t \in FrozenTasks => before[c] = FrozenRow(t))
    BY <1>1, <1>4 DEF TakeBack, ReviewInv, BeforeHolds, Restores
  <2> QED  BY <2>1, <2>2 DEF Onward
<1> QED  BY <1>2, <1>3, <1>4 DEF BatchStep, JamCommand, Settle

\* A batch changes its own entry of the journal, and none that is over.
LEMMA JournaledStep ==
    ASSUME ReviewInv, NEW c \in Roots \X Tasks, BatchStep(c)
    PROVE  /\ journal' = [b \in Roots \X Tasks |-> journal'[b]]
           /\ before' = [b \in Roots \X Tasks |-> before'[b]]
           /\ \A b \in Roots \X Tasks : Over(b) => journal'[b] = journal[b]
           /\ \A b \in Roots \X Tasks \ {c} : journal'[b] = journal[b] /\ before'[b] = before[b]
<1>1. journal = [b \in Roots \X Tasks |-> journal[b]] /\ before = [b \in Roots \X Tasks |-> before[b]]
  BY DEF ReviewInv, TablesTyped
<1>2. CASE UNCHANGED <<journal, before>>  BY <1>1, <1>2
<1>3. ASSUME NEW x, NEW y, ~Over(c),
             journal' = [journal EXCEPT ![c] = x], before' = [before EXCEPT ![c] = y]
      PROVE  /\ journal' = [b \in Roots \X Tasks |-> journal'[b]]
             /\ before' = [b \in Roots \X Tasks |-> before'[b]]
             /\ \A b \in Roots \X Tasks : Over(b) => journal'[b] = journal[b]
             /\ \A b \in Roots \X Tasks \ {c} : journal'[b] = journal[b] /\ before'[b] = before[b]
  <2>1. journal' = [b \in Roots \X Tasks |-> IF b = c THEN x ELSE journal[b]]  BY <1>1, <1>3
  <2>2. before' = [b \in Roots \X Tasks |-> IF b = c THEN y ELSE before[b]]  BY <1>1, <1>3
  <2> QED  BY <1>3, <2>1, <2>2
<1>4. journal[c] \in Unfinished => ~Over(c)  BY DEF Unfinished, Over, Answered, Refused
<1>5. \/ UNCHANGED <<journal, before>>
      \/ /\ journal[c] \in Unfinished
         /\ \E x, y : journal' = [journal EXCEPT ![c] = x] /\ before' = [before EXCEPT ![c] = y]
  BY DEF BatchStep, Carry, JamCommand, Jam, TakeBack, Settle, Unfinished
<1> QED  BY <1>2, <1>3, <1>4, <1>5

\* The row that a batch has written over is the one that was frozen.
LEMMA BeforeStep ==
    ASSUME ReviewInv, NEW c \in DOMAIN envelopes, BatchStep(c), UNCHANGED <<frozen, envelopes>>
    PROVE  BeforeHolds'
<1>1. PICK t \in Tasks : t = envelopes[c].task /\ t = c[2] /\ c \in Roots \X Tasks
  BY DEF ReviewInv, EnvelopesHold, Expecting
<1>2. ASSUME NEW b \in Roots \X Tasks, journal'[b] = "committed"
      PROVE  Restores(b)'
  <2>1. CASE journal[b] = "committed" /\ before'[b] = before[b]
    BY <2>1 DEF ReviewInv, BeforeHolds, Restores, FrozenTasks, FrozenRow
  <2>2. CASE b # c  BY <1>1, <1>2, <2>1, <2>2, JournaledStep
  <2>3. CASE b = c /\ Carry(c)
    <3>1. before'[c] = work[t]  BY <1>1, <2>3 DEF Carry, ReviewInv, TablesTyped
    <3>2. TaskRow(work[t])  BY DEF ReviewInv, TablesTyped
    <3>3. t \in FrozenTasks => work[t] = FrozenRow(t)
      BY <1>1, <2>3, ExpectedIsFrozen DEF Carry, StillExpected, FrozenRow
    <3> QED  BY <1>1, <2>3, <3>1, <3>2, <3>3 DEF Restores, FrozenTasks, FrozenRow
  <2>4. CASE b = c /\ ~Carry(c)
    <3>1. \A x : journal' = [journal EXCEPT ![c] = x] => journal'[c] = x
      BY <1>1 DEF ReviewInv, TablesTyped
    <3>2. UNCHANGED <<journal, before>>
      BY <1>2, <2>4, <3>1 DEF BatchStep, JamCommand, Jam, TakeBack, Settle
    <3> QED  BY <1>2, <2>1, <3>2
  <2> QED  BY <2>2, <2>3, <2>4
<1> QED  BY <1>2 DEF BeforeHolds

\* What a step of a batch leaves to be shown.
LEMMA BatchHolds ==
    ASSUME ReviewInv, NEW c \in DOMAIN envelopes, BatchStep(c),
           UNCHANGED <<session, frozen, envelopes, receipts>>,
           calls' = [r \in Roots |-> calls'[r]],
           \A r \in Roots : calls'[r] = calls[r] \/ CallHolds(calls[r])'
    PROVE  ReviewInv'
<1>1. c \in Roots \X Tasks  BY DEF ReviewInv, EnvelopesHold, Expecting
<1>2. FrozenTyped' /\ FrozenIsPast' /\ (\A i \in Tasks : TaskRow(work'[i]))
  BY MovedTask, PastStays DEF ReviewInv
<1>3. TablesTyped'
  BY <1>1, <1>2, MovedTask, JournaledStep DEF ReviewInv, TablesTyped, Onward
<1>4. EnvelopesHold'
  BY DEF ReviewInv, EnvelopesHold, Expecting, FrozenTasks, FrozenRow
<1>5. Onwards  BY <1>1, JournaledStep DEF Onwards
<1>6. BeforeHolds'  BY BeforeStep
<1> QED  BY <1>2, <1>3, <1>4, <1>5, <1>6, StepHolds

\* The request writes the rows of its command, or finds that they have moved.
LEMMA CommittedTransition ==
    ASSUME ReviewInv, NEW r \in Roots, CommitTransition(r)
    PROVE  ReviewInv'
<1>1. PICK c : c = calls[r].command  OBVIOUS
<1>2. c \in DOMAIN envelopes /\ c \in Roots \X Tasks /\ calls[r].pc \in Reconciling
  BY <1>1, AtStep DEF CommitTransition, Reconciling
<1>3. UNCHANGED <<session, frozen, envelopes, receipts>>
  BY DEF CommitTransition, planVars
<1>4. CASE Carry(c) /\ UNCHANGED calls
  <2>1. calls' = [q \in Roots |-> calls'[q]]  BY <1>4 DEF ReviewInv, TablesTyped
  <2> QED  BY <1>2, <1>3, <1>4, <2>1, BatchHolds DEF BatchStep
<1>5. CASE JamCommand(c) /\ Go(r, Lost(calls[r]))
  <2>1. UNCHANGED <<session, frozen, work, envelopes, receipts, journal, before>>
    BY <1>3, <1>5 DEF JamCommand, Jam
  <2> QED  BY <1>2, <1>5, <2>1, LostHolds, QuietStep
<1> QED  BY <1>1, <1>4, <1>5 DEF CommitTransition

\* The request that has carried a command out knows what it did.
LEMMA FinalizedTransition ==
    ASSUME ReviewInv, NEW r \in Roots, FinalizeTransition(r)
    PROVE  ReviewInv'
<1>1. PICK c : c = calls[r].command  OBVIOUS
<1>2. c \in DOMAIN envelopes /\ c \in Roots \X Tasks
  BY <1>1, AtStep DEF FinalizeTransition, Reconciling
<1>3. Settle(c, "committed", "applied") /\ UNCHANGED <<session, frozen, envelopes, receipts>>
  BY <1>1 DEF FinalizeTransition, planVars
<1>4. PICK k : /\ calls' = [calls EXCEPT ![r] = k]
               /\ \E x : k = ToRecord(c, calls[r].decision, OutcomeState("applied"), x)
  BY <1>1 DEF FinalizeTransition, OutcomeKnown, Go
<1>5. calls' = [q \in Roots |-> IF q = r THEN k ELSE calls[q]]
  BY <1>4 DEF ReviewInv, TablesTyped
<1>6. journal'[c] = "applied"  BY <1>2, <1>3 DEF Settle, ReviewInv, TablesTyped
<1>7. CallHolds(k)'
  <2>1. k.pc = "record" /\ k.command = c /\ k.state = "succeeded"
    BY <1>4 DEF ToRecord, OutcomeState, Answered
  <2>2. c \in DOMAIN envelopes'  BY <1>2, <1>3
  <2> QED  BY <1>6, <2>1, <2>2 DEF CallHolds, Reconciling, True, Answered, Refused
<1>8. ASSUME NEW q \in Roots, calls'[q] # calls[q]
      PROVE  CallHolds(calls[q])'
  <2>1. calls'[q] = k  BY <1>5, <1>8
  <2> QED  BY <2>1, <1>7 DEF CallHolds, Expecting, True, FrozenTasks, FrozenRow
<1>9. calls' = [q \in Roots |-> calls'[q]]  BY <1>5
<1> QED  BY <1>2, <1>3, <1>8, <1>9, BatchHolds DEF BatchStep

\* The request whose batch was recovered fails, and is sent again or not.
LEMMA Recovered ==
    ASSUME ReviewInv, NEW c \in Roots \X Tasks, Recover(c)
    PROVE  ReviewInv'
<1>1. /\ c \in DOMAIN envelopes /\ BatchStep(c)
      /\ UNCHANGED <<session, frozen, envelopes, receipts>>
  BY DEF Recover, Enveloped, BatchStep, planVars
<1>2. calls' = [r \in Roots |-> IF calls[r].pc = "executing" /\ calls[r].command = c
                                THEN Lost(calls[r]) ELSE calls[r]]
  BY DEF Recover
<1>3. calls' = [r \in Roots |-> calls'[r]]  BY <1>2
<1>4. ASSUME NEW q \in Roots, calls'[q] # calls[q]
      PROVE  CallHolds(calls[q])'
  <2>1. PICK d : calls'[q] = [pc |-> "lost", command |-> c, decision |-> d]
    BY <1>2, <1>4 DEF Lost
  <2> QED  BY <1>1, <2>1 DEF CallHolds, Reconciling
<1> QED  BY <1>1, <1>3, <1>4, BatchHolds

\* A transition that is refused is recorded as refused.
LEMMA CompiledTransition ==
    ASSUME ReviewInv, NEW r \in Roots, CompileTransition(r)
    PROVE  ReviewInv'
<1>0. PICK c : c = calls[r].command  OBVIOUS
<1>1. c \in DOMAIN envelopes /\ c \in Roots \X Tasks
  BY <1>0, AtStep DEF CompileTransition, Reconciling
<1>2. PICK x, k : /\ journal' = [journal EXCEPT ![c] = x] /\ x \in {"running"} \cup Refused
                  /\ calls' = [calls EXCEPT ![r] = k]
                  /\ \/ k = [pc |-> "executing", command |-> c, decision |-> calls[r].decision]
                     \/ x \in Refused
                        /\ \E y : k = ToRecord(c, calls[r].decision, OutcomeState(x), y)
  <2>1. PICK x : x = IF ~Claimed(receipts[c]) THEN "failed"
                     ELSE IF ~AsExpected(c) THEN "conflict" ELSE "running"
    OBVIOUS
  <2>2. /\ journal' = [journal EXCEPT ![c] = x]
        /\ IF x = "running"
           THEN calls' = [calls EXCEPT ![r] = [pc |-> "executing", command |-> c,
                                               decision |-> calls[r].decision]]
           ELSE calls' = [calls EXCEPT ![r] = ToRecord(c, calls[r].decision, OutcomeState(x),
                                                       Claim("replay_claimed", r))]
    BY <1>0, <2>1, Zenon DEF CompileTransition, OutcomeKnown, Go
  <2>3. CASE x = "running"  BY <2>2, <2>3
  <2>4. CASE x # "running"
    <3>1. x \in Refused  BY <2>1, <2>4 DEF Refused
    <3> QED  BY <2>2, <2>4, <3>1
  <2> QED  BY <2>3, <2>4
<1>3. journal[c] = "absent" /\ UNCHANGED <<session, frozen, work, envelopes, receipts, before>>
  BY <1>0 DEF CompileTransition, planVars
<1>4. journal' = [b \in Roots \X Tasks |-> IF b = c THEN x ELSE journal[b]]
  BY <1>1, <1>2 DEF ReviewInv, TablesTyped
<1>5. calls' = [q \in Roots |-> IF q = r THEN k ELSE calls[q]]
  BY <1>2 DEF ReviewInv, TablesTyped
<1>6. TablesTyped'  BY <1>3, <1>4, <1>5 DEF ReviewInv, TablesTyped
<1>7. FrozenTyped'  BY <1>3 DEF ReviewInv, FrozenTyped, FrozenTasks
<1>8. FrozenIsPast'  BY <1>3 DEF ReviewInv, FrozenIsPast, FrozenTasks, FrozenRow
<1>9. EnvelopesHold'  BY <1>3 DEF ReviewInv, EnvelopesHold, Expecting, FrozenTasks, FrozenRow
<1>10. Onwards
  <2>1. \A b \in Roots \X Tasks : Over(b) => journal'[b] = journal[b]
    BY <1>3, <1>4 DEF Over, Answered, Refused
  <2> QED  BY <1>3, <2>1 DEF Onwards
<1>11. CallHolds(k)'
  <2>1. CASE k = [pc |-> "executing", command |-> c, decision |-> calls[r].decision]
    BY <1>1, <1>3, <2>1 DEF CallHolds, Reconciling
  <2>2. CASE x \in Refused /\ \E y : k = ToRecord(c, calls[r].decision, OutcomeState(x), y)
    <3>1. k.pc = "record" /\ k.command = c /\ k.state = x
      BY <2>2 DEF ToRecord, OutcomeState, Answered, Refused
    <3>2. True(c, x)'  BY <1>1, <1>4, <2>2 DEF True, Refused
    <3> QED  BY <1>1, <1>3, <3>1, <3>2 DEF CallHolds, Reconciling, True
  <2> QED  BY <1>2, <2>1, <2>2
<1>12. ASSUME NEW q \in Roots, calls'[q] # calls[q]
       PROVE  CallHolds(calls[q])'
  <2>1. calls'[q] = k  BY <1>5, <1>12
  <2> QED  BY <2>1, <1>11 DEF CallHolds, Expecting, True, FrozenTasks, FrozenRow
<1>13. Steady
  <2>1. x # "committed"  BY <1>2 DEF Refused
  <2> QED  BY <1>3, <1>4, <2>1 DEF Steady
<1> QED  BY <1>3, <1>6, <1>7, <1>8, <1>9, <1>10, <1>12, <1>13, StepHolds

\* A step that leaves work items, envelopes and what became of them alone.
LEMMA PlanHolds ==
    ASSUME ReviewInv, FrozenTyped', FrozenIsPast', SessionRow(session'), Onwards,
           frozen' = frozen \/ DOMAIN envelopes = {},
           UNCHANGED <<work, envelopes, receipts, journal, before, calls>>
    PROVE  ReviewInv'
<1>1. TablesTyped'  BY DEF ReviewInv, TablesTyped
<1>2. EnvelopesHold'
  <2>1. session.ended => session'.ended  BY DEF Onwards
  <2> QED  BY <2>1 DEF ReviewInv, EnvelopesHold, Expecting, FrozenTasks, FrozenRow
<1>3. Steady  BY DEF Steady
<1> QED  BY <1>1, <1>2, <1>3, StepHolds

\* A task that is added is frozen as it is, before anything is reviewed.
LEMMA AddedPlan ==
    ASSUME ReviewInv, NEW i \in Tasks, AddPlan(i)
    PROVE  ReviewInv'
<1>1. ~session.ended /\ frozen.structure # Nil /\ frozen' = AlsoFrozen(i)
      /\ UNCHANGED <<session, work, envelopes, receipts, journal, before, calls>>
  BY DEF AddPlan, OpenPlan, Replanned, batchVars
<1>2. PICK t, s, l, T : /\ frozen = [title |-> t, status |-> s, structure |-> [level2 |-> l, tasks |-> T]]
                        /\ T = [j \in DOMAIN T |-> T[j]]
  <2>1. PICK t, s, q : frozen = [title |-> t, status |-> s, structure |-> q]
    BY DEF ReviewInv, FrozenTyped
  <2>2. frozen.structure = q  BY <2>1
  <2>3. q = [level2 |-> q.level2, tasks |-> q.tasks] /\ q.tasks = [j \in DOMAIN q.tasks |-> q.tasks[j]]
    BY <1>1, <2>2 DEF ReviewInv, FrozenTyped
  <2>4. PICK l, T : q = [level2 |-> l, tasks |-> T]  BY <2>3
  <2>5. q.tasks = T  BY <2>4
  <2>6. T = [j \in DOMAIN T |-> T[j]]  BY <2>3, <2>5
  <2> QED  BY <2>1, <2>4, <2>6
<1>3. DOMAIN T = FrozenTasks /\ DOMAIN T \subseteq Tasks
  BY <1>1, <1>2 DEF ReviewInv, FrozenTyped, FrozenTasks
<1>4. PICK U : U = [j \in DOMAIN T \cup {i} |-> IF j = i THEN work[i] ELSE T[j]]
  OBVIOUS
<1>5. frozen.structure = [level2 |-> l, tasks |-> T] /\ frozen.structure.tasks = T
  BY <1>2
<1>6. frozen' = [frozen EXCEPT !["structure"] = [frozen.structure EXCEPT !["tasks"] = U]]
  BY <1>1, <1>4, <1>5, Zenon DEF AlsoFrozen
<1>7. [frozen.structure EXCEPT !["tasks"] = U] = [level2 |-> l, tasks |-> U]
  BY <1>5
<1>8. \A N : [frozen EXCEPT !["structure"] = N] = [title |-> t, status |-> s, structure |-> N]
  BY <1>2
<1>9. frozen' = [title |-> t, status |-> s, structure |-> [level2 |-> l, tasks |-> U]]
  BY <1>6, <1>7, <1>8
<1>10. frozen'.structure = [level2 |-> l, tasks |-> U] /\ frozen'.structure.tasks = U
  BY <1>9
<1>11. DOMAIN U = DOMAIN T \cup {i}  BY <1>4
<1>12. FrozenTasks' \subseteq DOMAIN U
  BY <1>10 DEF FrozenTasks
<1>13. FrozenTyped'
  <2>1. FrozenTasks' \subseteq Tasks  BY <1>3, <1>11, <1>12
  <2>2. U = [j \in DOMAIN U |-> U[j]]  BY <1>4
  <2> QED  BY <1>9, <1>10, <2>1, <2>2, Zenon DEF FrozenTyped
<1>14. FrozenIsPast'
  <2>1. ASSUME NEW j \in DOMAIN U
        PROVE  /\ TaskRow(U[j]) /\ U[j].version <= work[j].version
               /\ work[j].version = U[j].version => work[j] = U[j]
    <3>1. CASE j = i
      <4>1. U[j] = work[j] /\ TaskRow(work[j])  BY <1>4, <3>1 DEF ReviewInv, TablesTyped
      <4> QED  BY <4>1 DEF TaskRow
    <3>2. CASE j # i
      <4>1. U[j] = T[j] /\ j \in FrozenTasks  BY <1>3, <1>4, <2>1, <3>2
      <4>2. T[j] = FrozenRow(j)  BY <1>5 DEF FrozenRow
      <4> QED  BY <4>1, <4>2 DEF ReviewInv, FrozenIsPast
    <3> QED  BY <3>1, <3>2
  <2>2. work' = work  BY <1>1
  <2> QED  BY <1>10, <1>12, <2>1, <2>2 DEF FrozenIsPast, FrozenRow
<1>15. DOMAIN envelopes = {}  BY <1>1 DEF ReviewInv, EnvelopesHold
<1>16. Onwards  BY <1>1 DEF Onwards
<1>17. SessionRow(session')  BY <1>1 DEF ReviewInv, TablesTyped
<1> QED  BY <1>1, <1>13, <1>14, <1>15, <1>16, <1>17, PlanHolds

\* A session that ends stays what it is but for its end.
LEMMA EndedSession ==
    ASSUME ReviewInv, NEW v, EndSession(v)
    PROVE  ReviewInv'
<1>1. session' = [session EXCEPT !.ended = TRUE, !.validity = v, !.version = @ + 1]
      /\ UNCHANGED <<frozen, work, envelopes, receipts, journal, before, calls>>
  BY DEF EndSession, batchVars
<1>2. PICK o, e, x, n : session = [own |-> o, ended |-> e, validity |-> x, version |-> n]
  BY DEF ReviewInv, TablesTyped, SessionRow
<1>3. session'.ended /\ SessionRow(session')
  <2>1. PICK y : y = TRUE  OBVIOUS
  <2>2. \A z : [session EXCEPT !.ended = z] = [own |-> o, ended |-> z, validity |-> x, version |-> n]
    BY <1>2
  <2>3. \A R, z : R = [own |-> o, ended |-> z, validity |-> x, version |-> n]
             => [R EXCEPT !.validity = v] = [own |-> o, ended |-> z, validity |-> v, version |-> n]
    OBVIOUS
  <2>4. \A R, z, m : R = [own |-> o, ended |-> z, validity |-> v, version |-> n]
             => [R EXCEPT !.version = m] = [own |-> o, ended |-> z, validity |-> v, version |-> m]
    OBVIOUS
  <2>5. PICK m : m = session.version + 1  OBVIOUS
  <2>6. PICK A : A = [session EXCEPT !.ended = y]  OBVIOUS
  <2>7. PICK B : B = [A EXCEPT !.validity = v]  OBVIOUS
  <2>8. session' = [B EXCEPT !.version = m]  BY <1>1, <2>1, <2>5, <2>6, <2>7, Zenon
  <2>9. session' = [own |-> o, ended |-> y, validity |-> v, version |-> m]
    <3>1. A = [own |-> o, ended |-> y, validity |-> x, version |-> n]  BY <2>2, <2>6
    <3>2. B = [own |-> o, ended |-> y, validity |-> v, version |-> n]  BY <2>3, <2>7, <3>1
    <3> QED  BY <2>4, <2>8, <3>2
  <2>10. session'.ended = y  BY <2>9
  <2> QED  BY <2>1, <2>9, <2>10, Zenon DEF SessionRow
<1>4. FrozenTyped'  BY <1>1 DEF ReviewInv, FrozenTyped, FrozenTasks
<1>5. FrozenIsPast'  BY <1>1 DEF ReviewInv, FrozenIsPast, FrozenTasks, FrozenRow
<1>6. Onwards  BY <1>1, <1>3 DEF Onwards
<1> QED  BY <1>1, <1>3, <1>4, <1>5, <1>6, PlanHolds

\* Rows that are pushed, planned, removed or made current freeze nothing.
LEMMA Unfrozen ==
    ASSUME ReviewInv, UNCHANGED <<session, frozen, work, envelopes, receipts, journal, before, calls>>
    PROVE  ReviewInv'
<1>1. FrozenTyped'  BY DEF ReviewInv, FrozenTyped, FrozenTasks
<1>2. FrozenIsPast'  BY DEF ReviewInv, FrozenIsPast, FrozenTasks, FrozenRow
<1>3. Onwards  BY DEF Onwards
<1>4. SessionRow(session')  BY DEF ReviewInv, TablesTyped
<1> QED  BY <1>1, <1>2, <1>3, <1>4, PlanHolds

LEMMA PlanSteps ==
    ASSUME ReviewInv, PlanStep
    PROVE  ReviewInv'
<1>1. CASE \E i \in Tasks : AddPlan(i)  BY <1>1, AddedPlan
<1>2. CASE \E i \in Tasks : RemovePlan(i)
  BY <1>2, Unfrozen DEF RemovePlan, Replanned, batchVars
<1>3. CASE \E target \in Tasks \cup {Nil} : SetCurrent(target)
  BY <1>3, Unfrozen DEF SetCurrent, Replanned, batchVars
<1>4. CASE \E v \in {"valid", "invalid", "pending"} : EndSession(v)
  BY <1>4, EndedSession
<1>5. CASE \E i \in Tasks : \E row : PushPlan(i, row)
  BY <1>5, Unfrozen DEF PushPlan, Replanned, batchVars
<1>6. CASE \E i \in Tasks, mark \in Marks : PushOutcome(i, mark)
  BY <1>6, Unfrozen DEF PushOutcome, planVars, batchVars
<1>7. PlanStep => \/ \E i \in Tasks : AddPlan(i) \/ RemovePlan(i)
                  \/ \E target \in Tasks \cup {Nil} : SetCurrent(target)
                  \/ \E v \in {"valid", "invalid", "pending"} : EndSession(v)
                  \/ \E i \in Tasks : \E row : PushPlan(i, row)
                  \/ \E i \in Tasks, mark \in Marks : PushOutcome(i, mark)
  BY Zenon DEF PlanStep
<1> QED  BY <1>1, <1>2, <1>3, <1>4, <1>5, <1>6, <1>7

\* An edit leaves a task another version of itself.
LEMMA EditedTask ==
    ASSUME ReviewInv, NEW w \in Tasks \cup {Level2}, NEW f \in {"title", "status"}, NEW v,
           EditTask(w, f, v)
    PROVE  ReviewInv'
<1>1. UNCHANGED <<session, frozen, envelopes, receipts, journal, before, calls>>
  BY DEF EditTask, planVars, batchVars
<1>2. PICK row : row = Changed(work[w], f, v)  OBVIOUS
<1>3. work' = [u \in Tasks \cup {Level2} |-> IF u = w THEN row ELSE work[u]]
  BY <1>2 DEF EditTask, ReviewInv, TablesTyped
<1>4. w \in Tasks => TaskRow(row) /\ row.version = work[w].version + 1
  BY <1>2, ChangedRow DEF ReviewInv, TablesTyped
<1>5. Onward  BY <1>3, <1>4 DEF Onward
<1>6. FrozenTyped' /\ FrozenIsPast' /\ (\A i \in Tasks : TaskRow(work'[i]))
  BY <1>1, <1>5, PastStays DEF ReviewInv
<1>7. TablesTyped'  BY <1>1, <1>5, <1>6 DEF ReviewInv, TablesTyped, Onward
<1>8. EnvelopesHold'  BY <1>1 DEF ReviewInv, EnvelopesHold, Expecting, FrozenTasks, FrozenRow
<1>9. Onwards /\ Steady  BY <1>1 DEF Onwards, Steady
<1> QED  BY <1>1, <1>6, <1>7, <1>8, <1>9, StepHolds

\* A review that commits adds its envelopes, and moves no task.
LEMMA CommittedReview ==
    ASSUME ReviewInv, NEW r \in Roots, CommitReview(r)
    PROVE  ReviewInv'
<1>1. PICK k : k = calls[r]  OBVIOUS
<1>2. CallHolds(k) /\ k.pc = "review"
  BY <1>1 DEF CommitReview, ReviewInv, CallsHold
<1>3. session.ended /\ Expecting(k.envelopes) /\ SessionRow(k.after) /\ k.after.ended
  BY <1>2 DEF CallHolds
<1>4. /\ session' = k.after
      /\ work' = IF k.credited = k.level2 THEN work ELSE [work EXCEPT ![Level2] = k.credited]
      /\ envelopes' = [c \in DOMAIN envelopes \cup DOMAIN k.envelopes |->
                          IF c \in DOMAIN k.envelopes THEN k.envelopes[c] ELSE envelopes[c]]
      /\ calls' = [calls EXCEPT ![r] = [pc |-> "done"]]
      /\ UNCHANGED <<frozen, receipts, journal, before>>
  BY <1>1 DEF CommitReview, Finish, Go, batchVars
<1>5. Onward
  <2>1. CASE work' = work  BY <2>1 DEF Onward, ReviewInv, TablesTyped
  <2>2. CASE work' = [work EXCEPT ![Level2] = k.credited]
    <3>1. work' = [u \in Tasks \cup {Level2} |-> IF u = Level2 THEN k.credited ELSE work[u]]
      BY <2>2 DEF ReviewInv, TablesTyped
    <3>2. \A i \in Tasks : i # Level2  BY LevelsAssumption
    <3> QED  BY <3>1, <3>2 DEF Onward
  <2> QED  BY <1>4, <2>1, <2>2
<1>6. FrozenTyped' /\ FrozenIsPast' /\ (\A i \in Tasks : TaskRow(work'[i]))
  BY <1>4, <1>5, PastStays DEF ReviewInv
<1>7. calls' = [q \in Roots |-> IF q = r THEN [pc |-> "done"] ELSE calls[q]]
  BY <1>4 DEF ReviewInv, TablesTyped
<1>8. TablesTyped'
  <2>1. SessionRow(session')  BY <1>3, <1>4
  <2>2. calls' = [q \in Roots |-> calls'[q]]  BY <1>7
  <2> QED  BY <1>4, <1>5, <1>6, <2>1, <2>2 DEF ReviewInv, TablesTyped, Onward
<1>9. EnvelopesHold'
  <2>1. PICK E : E = envelopes'  OBVIOUS
  <2>2. /\ DOMAIN E = DOMAIN envelopes \cup DOMAIN k.envelopes
        /\ \A c \in DOMAIN E : E[c] = IF c \in DOMAIN k.envelopes THEN k.envelopes[c] ELSE envelopes[c]
    BY <1>4, <2>1
  <2>3. Expecting(envelopes)  BY DEF ReviewInv, EnvelopesHold
  <2>4. Expecting(E)  BY <1>3, <2>2, <2>3 DEF Expecting
  <2>5. Expecting(E)'  BY <1>4, <2>4, ExpectingStays
  <2>6. session'.ended  BY <1>3, <1>4
  <2> QED  BY <2>1, <2>5, <2>6 DEF EnvelopesHold, Expecting, FrozenTasks, FrozenRow
<1>10. Onwards
  <2>1. session'.ended  BY <1>3, <1>4
  <2>2. DOMAIN envelopes \subseteq DOMAIN envelopes'  BY <1>4
  <2> QED  BY <1>4, <2>1, <2>2 DEF Onwards
<1>11. ASSUME NEW q \in Roots, calls'[q] # calls[q]
       PROVE  CallHolds(calls[q])'
  <2>1. calls'[q] = [pc |-> "done"]  BY <1>7, <1>11
  <2> QED  BY <2>1 DEF CallHolds, Reconciling
<1>12. Steady  BY <1>4 DEF Steady
<1> QED  BY <1>4, <1>6, <1>8, <1>9, <1>10, <1>11, <1>12, StepHolds

\* A receipt that is written says what its call knows to be true.
LEMMA WrittenReceipt ==
    ASSUME ReviewInv, NEW r \in Roots, NEW k,
           calls[r].pc \in {"admit", "receipt"},
           receipts' = receipts \/ receipts' = AfterWrite(calls[r].command, calls[r].write),
           Go(r, k), CallHolds(k),
           UNCHANGED <<session, frozen, work, envelopes, journal, before>>
    PROVE  ReviewInv'
<1>1. PICK c, w : c = calls[r].command /\ w = calls[r].write  OBVIOUS
<1>2. c \in DOMAIN envelopes /\ c \in Roots \X Tasks
  BY <1>1, AtStep DEF Reconciling
<1>3. w.to # Nil => True(c, w.to.state)
  BY <1>1 DEF ReviewInv, CallsHold, CallHolds
<1>4. receipts' = receipts \/ (w.to # Nil /\ receipts' = [receipts EXCEPT ![c] = w.to])
  BY <1>1 DEF AfterWrite
<1>5. receipts' = [b \in Roots \X Tasks |-> receipts'[b]]
      /\ \A b \in Roots \X Tasks : \/ receipts'[b] = receipts[b]
                                   \/ b = c /\ w.to # Nil /\ receipts'[b] = w.to
  BY <1>2, <1>4 DEF ReviewInv, TablesTyped
<1>6. calls' = [q \in Roots |-> IF q = r THEN k ELSE calls[q]]
  BY DEF Go, ReviewInv, TablesTyped
<1>7. TablesTyped'  BY <1>5, <1>6 DEF ReviewInv, TablesTyped
<1>8. FrozenTyped'  BY DEF ReviewInv, FrozenTyped, FrozenTasks
<1>9. FrozenIsPast'  BY DEF ReviewInv, FrozenIsPast, FrozenTasks, FrozenRow
<1>10. EnvelopesHold'  BY DEF ReviewInv, EnvelopesHold, Expecting, FrozenTasks, FrozenRow
<1>11. Onwards /\ Steady  BY DEF Onwards, Steady
<1>12. CallHolds(k)'  BY <1>11, CallStays DEF ReviewInv
<1>13. ASSUME NEW q \in Roots, calls'[q] # calls[q]
       PROVE  CallHolds(calls[q])'
  <2>1. calls'[q] = k  BY <1>6, <1>13
  <2> QED  BY <2>1, <1>12 DEF CallHolds, Expecting, True, FrozenTasks, FrozenRow
<1>14. ASSUME NEW b \in Roots \X Tasks, receipts'[b] # receipts[b]
       PROVE  True(b, receipts[b].state)'
  <2>1. b = c /\ w.to # Nil /\ receipts'[b] = w.to  BY <1>5, <1>14
  <2> QED  BY <1>3, <2>1 DEF True
<1> QED  BY <1>7, <1>8, <1>9, <1>10, <1>11, <1>13, <1>14, StepHolds

LEMMA CommittedAdmission ==
    ASSUME ReviewInv, NEW r \in Roots, CommitAdmission(r)
    PROVE  ReviewInv'
<1>1. PICK c, d : c = calls[r].command /\ d = calls[r].decision  OBVIOUS
<1>2. c \in DOMAIN envelopes  BY <1>1, AtStep DEF CommitAdmission, Reconciling
<1>3. calls[r].pc = "admit" /\ UNCHANGED <<session, frozen, work, envelopes, journal, before>>
  BY DEF CommitAdmission, Jam, planVars, batchVars
<1>4. PICK k : Go(r, k) /\ \/ k = [pc |-> "admitted", command |-> c, decision |-> d]
                           \/ k = [pc |-> "done"]
  BY <1>1 DEF CommitAdmission, Finish
<1>5. CallHolds(k)  BY <1>2, <1>4, CarriesHolds, OverHolds
<1>6. receipts' = receipts \/ receipts' = AfterWrite(calls[r].command, calls[r].write)
  BY DEF CommitAdmission
<1> QED  BY <1>3, <1>4, <1>5, <1>6, WrittenReceipt

LEMMA CommittedReceipt ==
    ASSUME ReviewInv, NEW r \in Roots, CommitReceipt(r)
    PROVE  ReviewInv'
<1>1. calls[r].pc = "receipt" /\ UNCHANGED <<session, frozen, work, envelopes, journal, before>>
  BY DEF CommitReceipt, Jam, planVars, batchVars
<1>2. receipts' = receipts \/ receipts' = AfterWrite(calls[r].command, calls[r].write)
  BY DEF CommitReceipt
<1> QED  BY <1>1, <1>2, OverHolds, WrittenReceipt DEF CommitReceipt, Finish

LEMMA ReviewSteps ==
    ASSUME ReviewInv, [ReviewNext]_reviewVars
    PROVE  ReviewInv'
<1>1. CASE PlanStep  BY <1>1, PlanSteps
<1>2. CASE \E w \in Tasks \cup {Level2}, f \in {"title", "status"} : \E v : EditTask(w, f, v)
  BY <1>2, EditedTask
<1>3. CASE \E c \in Roots \X Tasks : Recover(c)  BY <1>3, Recovered
<1>4. ASSUME NEW r \in Roots, ReviewStep(r)  PROVE ReviewInv'
  <2>1. \/ \E S \in SUBSET Tasks : \E marks \in [S -> Marks], v \in {"valid", "invalid"} :
               CompileReview(r, marks, v)
        \/ CommitReview(r) \/ JamReview(r)
    BY <1>4 DEF ReviewStep
  <2> QED  BY <2>1, CompiledReview, CommittedReview, QuietSteps
<1>5. ASSUME NEW r \in Roots, ReconcileStep(r)  PROVE ReviewInv'
  <2>1. CASE \E c \in Roots \X Tasks, wish \in {"observe", "abandon", "replay"} :
               CompileAdmission(r, c, wish)
    BY <2>1, CompiledAdmission
  <2>2. CASE CommitAdmission(r)  BY <2>2, CommittedAdmission
  <2>3. CASE \/ ReadReceipt(r) \/ ReplayTransition(r) \/ TimeOut(r)
             \/ LoseRequest(r) \/ SendAgain(r)
    BY <2>3, QuietSteps
  <2>4. CASE QueryOriginal(r)  BY <2>4, QueriedOriginal
  <2>5. CASE CompileTransition(r)  BY <2>5, CompiledTransition
  <2>6. CASE CommitTransition(r) \/ FinalizeTransition(r)
    BY <2>6, CommittedTransition, FinalizedTransition
  <2>7. CASE CompileReceipt(r)  BY <2>7, CompiledReceipt
  <2>8. CASE CommitReceipt(r)  BY <2>8, CommittedReceipt
  <2> QED  BY <1>5, <2>1, <2>2, <2>3, <2>4, <2>5, <2>6, <2>7, <2>8 DEF ReconcileStep
<1>6. CASE UNCHANGED reviewVars  BY <1>6, Unfrozen DEF reviewVars, batchVars
<1>7. ReviewNext => \/ PlanStep
                    \/ \E w \in Tasks \cup {Level2}, f \in {"title", "status"} : \E v : EditTask(w, f, v)
                    \/ \E c \in Roots \X Tasks : Recover(c)
                    \/ \E r \in Roots : ReviewStep(r) \/ ReconcileStep(r)
  BY DEF ReviewNext
<1> QED  BY <1>1, <1>2, <1>3, <1>4, <1>5, <1>6, <1>7

LEMMA ReviewStart ==
    ASSUME ReviewInit
    PROVE  ReviewInv
<1>1. \A i \in Tasks : TaskRow(work[i])
  <2>1. TaskRow(NewItem)  BY DEF TaskRow, NewItem
  <2> QED  BY <2>1 DEF ReviewInit
<1>2. SessionRow(session)
  <2>1. PICK o, e, x, n : session = [own |-> o, ended |-> e, validity |-> x, version |-> n]
                          /\ e \in BOOLEAN
    BY DEF ReviewInit
  <2> QED  BY <2>1 DEF SessionRow
<1>3. TablesTyped  BY <1>1, <1>2 DEF ReviewInit, TablesTyped
<1>4. PICK t, s, q : /\ frozen = [title |-> t, status |-> s, structure |-> q]
                     /\ q = Nil \/ \E S \in SUBSET Tasks : q = Structure(S)
  BY DEF ReviewInit, Context
<1>5. frozen.structure = q /\ frozen = [title |-> frozen.title, status |-> frozen.status, structure |-> q]
  BY <1>4
<1>6. /\ FrozenTasks \subseteq Tasks
      /\ q # Nil => q = [level2 |-> q.level2, tasks |-> q.tasks]
                    /\ q.tasks = [i \in DOMAIN q.tasks |-> q.tasks[i]]
      /\ \A i \in FrozenTasks : FrozenRow(i) = work[i]
  BY <1>4, <1>5 DEF Structure, FrozenTasks, FrozenRow
<1>7. FrozenTyped  BY <1>5, <1>6 DEF FrozenTyped
<1>8. FrozenIsPast
  <2>1. ASSUME NEW i \in FrozenTasks
        PROVE  TaskRow(FrozenRow(i)) /\ FrozenRow(i).version <= work[i].version
    <3>1. FrozenRow(i) = work[i] /\ TaskRow(work[i])  BY <1>1, <1>6, <2>1
    <3>2. work[i].version \in Nat  BY <3>1 DEF TaskRow
    <3> QED  BY <3>1, <3>2
  <2> QED  BY <1>6, <2>1 DEF FrozenIsPast
<1>9. EnvelopesHold  BY DEF ReviewInit, EnvelopesHold, Expecting
<1>10. CallsHold
  <2>1. \A r \in Roots : calls[r] = [pc |-> "none"]  BY DEF ReviewInit
  <2> QED  BY <2>1 DEF CallsHold, CallHolds, Reconciling
<1>11. ReceiptsHold  BY DEF ReviewInit, ReceiptsHold
<1>12. BeforeHolds  BY DEF ReviewInit, BeforeHolds
<1> QED  BY <1>3, <1>7, <1>8, <1>9, <1>10, <1>11, <1>12 DEF ReviewInv

\* The frozen structure of a session stays a past of its tasks, also where a
\* recovery puts a row back (`restore_before'); envelopes expect what is frozen;
\* and what requests and receipts say of a command is in its journal: a success
\* of a batch that was finalized or aborted, the states that `query_original'
\* and `_resume_or_return' answer from, and a refusal of a command that was
\* rejected and never had a batch that writes.
THEOREM ReviewInvariance == ReviewSpec => []ReviewInv
<1>1. ReviewInit => ReviewInv  BY ReviewStart
<1>2. ReviewInv /\ [ReviewNext]_reviewVars => ReviewInv'  BY ReviewSteps
<1> QED  BY <1>1, <1>2, PTL DEF ReviewSpec

\* Whatever requests are lost, late or overtaken, and whichever batches are
\* aborted, taken back or stay staged, a receipt claims no failure of a command
\* that took effect, and a success only where the journal answers with one.
THEOREM ReceiptsTrue == ReviewSpec => []ReceiptsAreTrue
<1>1. ReviewInv => ReceiptsAreTrue
  <2> SUFFICES ASSUME ReviewInv, NEW c \in DOMAIN envelopes, IsTerminal(receipts[c])
               PROVE  CASE receipts[c].state = "succeeded" -> journal[c] \in Answered
                        [] receipts[c].state \in Refused -> journal[c] = receipts[c].state
                        [] OTHER -> TRUE
    BY DEF ReceiptsAreTrue
  <2>1. c \in Roots \X Tasks  BY DEF ReviewInv, EnvelopesHold, Expecting
  <2>2. True(c, receipts[c].state)  BY <2>1 DEF ReviewInv, ReceiptsHold, IsTerminal
  <2> QED  BY <2>2 DEF True, Refused
<1> QED  BY <1>1, ReviewInvariance, PTL

\* Rows are written where a batch is carried on: at its transition or a recovery.
LEMMA CarriedWhere ==
    ASSUME ReviewInv, ReviewNext, NEW c \in DOMAIN envelopes,
           journal[c] # "committed", journal'[c] = "committed"
    PROVE  Carry(c)
<1>0. c \in Roots \X Tasks  BY DEF ReviewInv, EnvelopesHold, Expecting
<1>1. journal' # journal  OBVIOUS
<1>2. PlanStep => UNCHANGED journal
  BY DEF PlanStep, AddPlan, RemovePlan, SetCurrent, EndSession, PushPlan, PushOutcome, Replanned,
     batchVars
<1>3. \A w, f, v : EditTask(w, f, v) => UNCHANGED journal  BY DEF EditTask, batchVars
<1>4. \A r : ReviewStep(r) => UNCHANGED journal
  BY DEF ReviewStep, CompileReview, CommitReview, JamReview, Jam, batchVars
<1>5. ASSUME NEW r \in Roots, ReconcileStep(r)
      PROVE  \/ UNCHANGED journal
             \/ CompileTransition(r) \/ CommitTransition(r) \/ FinalizeTransition(r)
  BY <1>5 DEF ReconcileStep, CompileAdmission, CommitAdmission, ReadReceipt, QueryOriginal,
     ReplayTransition, TimeOut, CompileReceipt, CommitReceipt, LoseRequest, SendAgain, Jam, batchVars
<1>6. \A b, x : b \in Roots \X Tasks /\ journal' = [journal EXCEPT ![b] = x] => b = c /\ x = "committed"
  BY <1>0 DEF ReviewInv, TablesTyped
<1>7. ASSUME NEW b \in Roots \X Tasks, BatchStep(b)  PROVE Carry(c)
  BY <1>1, <1>6, <1>7 DEF BatchStep, Carry, JamCommand, Jam, TakeBack, Settle
<1>8. ASSUME NEW r \in Roots, CommitTransition(r) \/ FinalizeTransition(r)  PROVE Carry(c)
  <2>1. calls[r].command \in Roots \X Tasks
    BY <1>8, AtStep DEF CommitTransition, FinalizeTransition, Reconciling
  <2> QED  BY <1>7, <1>8, <2>1 DEF CommitTransition, FinalizeTransition, BatchStep
<1>9. ASSUME NEW r \in Roots, CompileTransition(r)  PROVE FALSE
  <2>1. PICK b, x : journal' = [journal EXCEPT ![b] = x] /\ x \in {"failed", "conflict", "running"}
                    /\ b = calls[r].command
    BY <1>9 DEF CompileTransition
  <2>2. b \in Roots \X Tasks  BY <1>9, <2>1, AtStep DEF CompileTransition, Reconciling
  <2> QED  BY <1>6, <2>1, <2>2
<1>10. ASSUME NEW b \in Roots \X Tasks, Recover(b)  PROVE Carry(c)
  BY <1>7, <1>10 DEF Recover, BatchStep
<1>11. \/ PlanStep
       \/ \E w, f, v : EditTask(w, f, v)
       \/ \E b \in Roots \X Tasks : Recover(b)
       \/ \E r \in Roots : ReviewStep(r) \/ ReconcileStep(r)
  BY DEF ReviewNext
<1> QED  BY <1>1, <1>2, <1>3, <1>4, <1>5, <1>8, <1>9, <1>10, <1>11

\* A command takes effect on its work item as the session froze it
\* (`_require_transition_fence', and the versions its commit compares again),
\* however the plan, the reviews, the replays and the recoveries interleave.
THEOREM ActsOnFrozen == ReviewSpec => CommandsActOnFrozenTasks
<1> DEFINE A == \A c \in DOMAIN envelopes :
                  /\ journal[c] # "committed" /\ journal'[c] = "committed"
                  /\ envelopes[c].task \in FrozenTasks
                  => work[envelopes[c].task] = frozen.structure.tasks[envelopes[c].task]
<1>1. ASSUME ReviewInv, [ReviewNext]_reviewVars  PROVE [A]_reviewVars
  <2>1. CASE UNCHANGED reviewVars  BY <2>1
  <2>2. ASSUME ReviewNext, NEW c \in DOMAIN envelopes,
               journal[c] # "committed", journal'[c] = "committed", envelopes[c].task \in FrozenTasks
        PROVE  work[envelopes[c].task] = frozen.structure.tasks[envelopes[c].task]
    BY <1>1, <2>2, CarriedWhere, ExpectedIsFrozen DEF Carry, StillExpected
  <2> QED  BY <1>1, <2>1, <2>2
<1> QED  BY <1>1, ReviewInvariance, PTL DEF ReviewSpec, CommandsActOnFrozenTasks
=============================================================================
