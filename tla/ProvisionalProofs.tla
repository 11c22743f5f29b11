------------------------- MODULE ProvisionalProofs --------------------------
(***************************************************************************)
(* Proofs about ProvisionalSession for any pages, tasks, sessions, Spaces, *)
(* plans, revisions and faults.                                            *)
(*                                                                         *)
(* The fence of a Space lets one task at a time change what belongs to its *)
(* sessions, so that what a task has found under the fence is still true   *)
(* at its next step (Tasks); only the claim reaches across the Spaces, and *)
(* it looks at all operations of the device (OneBlocking).  Sound says of  *)
(* one session how its row, its rows in the outbox, its operation and what *)
(* the server has of it go together.                                       *)
(***************************************************************************)
EXTENDS ProvisionalSession, FiniteSetTheorems, FunctionTheorems, WellFoundedInduction, TLAPS

Clocked   == {"retire", "mark", "persist", "settle", "activate", "absorb", "resolve"}
Syncing   == {"evidence", "admit", "bind", "push", "apply"}
Answering == {"pending", "activating", "conflict", "awaiting_s4", "transport_ready"}
Past      == {"awaiting_s4", "transport_ready", "transport_resolved"}

Kinds == {"none", "start", "activate", "recover", "sync"} \cup Edits

JobsTyped == job \in [Procs -> [kind : Kinds, on : Sessions \cup Spaces \cup {"none"},
                                todo : SUBSET Sessions]]

\* What a task works on at its label,
Shape(p) ==
    /\ pc[p] = "wait" => job[p].kind \in Edits \cup {"recover"}
    /\ pc[p] \in Clocked => job[p].kind # "sync"
    /\ pc[p] \in Clocked \cup {"wait"} => job[p].on \in Sessions
    /\ pc[p] \in Syncing => job[p].kind = "sync" /\ job[p].on \in Spaces

\* and what it knows of the session while it holds the fence.
Knows(p) ==
    /\ pc[p] \in {"mark", "persist"} => ses[job[p].on] = NoSession
    /\ pc[p] \in {"persist", "activate", "absorb"} => prov[job[p].on] = "activating"
    /\ pc[p] \in {"activate", "absorb"} => ses[job[p].on].mine # "none"
    /\ pc[p] = "retire" => ses[job[p].on].ended
    /\ pc[p] = "resolve" => ses[job[p].on].mine = "authoritative"

Tasks  == \A p \in Procs : Shape(p) /\ Knows(p)
Fenced == \A p, q \in Inside : SpaceAt(p) = SpaceAt(q) => p = q

OneBlocking ==
    \A o, x \in Sessions : prov[o] \in Blocking /\ prov[x] \in Blocking => o = x

Local(o) == ses[o].mine = "local"

\* Rows, results and receipts belong to a session that was written.
Born(o) ==
    /\ ses[o].mine = "none" => ses[o] = NoSession
    /\ RowsOf(o) # {} \/ Committed(o) => Local(o)
    /\ o \in receipts => ses[o].mine = "authoritative"
    /\ Local(o) => ses[o].rev > 0
    /\ Live(o) => prov[o] \in Blocking
    /\ IsFiniteSet(plan[o])

\* The operation stands for what there is to import.
Authorised(o) ==
    /\ Compound(o) # {} => prov[o] \in Answering
    /\ Admitted(o) => prov[o] \in Past /\ \A r \in RowsOf(o) : r.state = "ready"
    /\ Committed(o) => Compound(o) = {}

\* Which rows there are, and that the compound has one that no edit replaces.
Listed(o) ==
    /\ \A r \in RowsOf(o) :
          /\ r.root = "alone" => r.ent = "session" /\ r.act = "update"
          /\ r.ent = "session" => r.rev > 0 /\ r.rev <= ses[o].rev
          /\ r.ent = "session" /\ r.act = "create" => r.rev = 1 /\ r.root = "compound"
    /\ Local(o) /\ ~Committed(o) => \E r \in Compound(o) : r.ent = "context"

\* A session whose create row was replaced by a late note is never admitted.
Late(o) == Overwritten(o) => ~Admitted(o) /\ \A r \in OnSession(o) : r.act = "update"

\* What NothingIsMissing says, row by row.
Unserved(o) == IF Committed(o) THEN imported[o] + 1 ELSE 2
Single(o)   == {r \in RowsOf(o) : r.root = "alone"}

Created(o) ==
    /\ \A e \in Keys(o) : \E r \in Compound(o) : r.ent = e
    /\ \A r \in Compound(o) : r.ent \in Keys(o) /\ r.act = "create" /\ r.exp = 0
    /\ \A r, x \in Compound(o) : r.ent = x.ent => r = x

Chained(o) ==
    /\ imported[o] <= ses[o].rev
    /\ \A r \in Single(o) : r.rev \in Unserved(o)..ses[o].rev /\ r.exp = r.rev - 1
    /\ \A n \in Unserved(o)..ses[o].rev : \E r \in Single(o) : r.rev = n
    /\ \A r, x \in Single(o) : r.rev = x.rev => r = x

Whole(o) == Local(o) /\ ~Overwritten(o) => (Committed(o) \/ Created(o)) /\ Chained(o)

Sound(o) == Born(o) /\ Authorised(o) /\ Listed(o) /\ Late(o) /\ Whole(o)

Typed   == TypeOK /\ JobsTyped
ProvInv == Typed /\ Tasks /\ Fenced /\ OneBlocking /\ \A o \in Sessions : Sound(o)

----------------------------------------------------------------------------
(* What a step leaves alone *)

\* A session nothing of which changes stays sound.
Untouched(x) ==
    /\ prov'[x] = prov[x] /\ ses'[x] = ses[x] /\ plan'[x] = plan[x]
    /\ imported'[x] = imported[x] /\ (x \in receipts' <=> x \in receipts)
    /\ RowsOf(x)' = RowsOf(x)

LEMMA UntouchedIsSound ==
    ASSUME NEW x \in Sessions, Sound(x), Untouched(x)
    PROVE  Sound(x)'
<1> USE DEF Untouched
<1>1. Compound(x)' = Compound(x) /\ OnSession(x)' = OnSession(x) /\ Single(x)' = Single(x)
  BY DEF Compound, OnSession, Single
<1>2. /\ Local(x)' <=> Local(x)
      /\ Live(x)' <=> Live(x)
      /\ Committed(x)' <=> Committed(x)
      /\ Keys(x)' = Keys(x)
  BY DEF Local, Live, Committed, Keys
<1>3. /\ Admitted(x)' <=> Admitted(x)
      /\ Overwritten(x)' <=> Overwritten(x)
      /\ Unserved(x)' = Unserved(x)
  BY <1>1, <1>2 DEF Admitted, Overwritten, Unserved
<1>4. Born(x)' BY <1>2 DEF Sound, Born
<1>5. Authorised(x)' BY <1>1, <1>2, <1>3 DEF Sound, Authorised
<1>6. Listed(x)' BY <1>1, <1>2 DEF Sound, Listed
<1>7. Late(x)' BY <1>1, <1>3 DEF Sound, Late
<1>8. Whole(x)'
  <2>1. (Created(x)' <=> Created(x)) /\ (Chained(x)' <=> Chained(x))
    BY <1>1, <1>2, <1>3 DEF Created, Chained
  <2> QED BY <1>2, <1>3, <2>1 DEF Sound, Whole
<1> QED BY <1>4, <1>5, <1>6, <1>7, <1>8 DEF Sound

\* So does one whose operation moves to a state that fits it.
LEMMA MovedIsSound ==
    ASSUME NEW x \in Sessions, Sound(x),
           ses'[x] = ses[x], plan'[x] = plan[x], imported'[x] = imported[x],
           receipts' = receipts, outbox' = outbox,
           Live(x) => prov'[x] \in Blocking,
           Compound(x) # {} => prov'[x] \in Answering,
           Admitted(x) => prov'[x] \in Past
    PROVE  Sound(x)'
<1>0. RowsOf(x)' = RowsOf(x)
  BY DEF RowsOf
<1>1. Compound(x)' = Compound(x) /\ OnSession(x)' = OnSession(x) /\ Single(x)' = Single(x)
  BY <1>0 DEF Compound, OnSession, Single
<1>2. /\ Local(x)' <=> Local(x)
      /\ Live(x)' <=> Live(x)
      /\ Committed(x)' <=> Committed(x)
      /\ Keys(x)' = Keys(x)
  BY DEF Local, Live, Committed, Keys
<1>3. /\ Admitted(x)' <=> Admitted(x)
      /\ Overwritten(x)' <=> Overwritten(x)
      /\ Unserved(x)' = Unserved(x)
  BY <1>0, <1>1, <1>2 DEF Admitted, Overwritten, Unserved
<1>4. Born(x)' BY <1>0, <1>2 DEF Sound, Born
<1>5. Authorised(x)' BY <1>0, <1>1, <1>2, <1>3 DEF Sound, Authorised
<1>6. Listed(x)' BY <1>0, <1>1, <1>2 DEF Sound, Listed
<1>7. Late(x)' BY <1>1, <1>3 DEF Sound, Late
<1>8. Whole(x)'
  <2>1. (Created(x)' <=> Created(x)) /\ (Chained(x)' <=> Chained(x))
    BY <1>1, <1>2, <1>3 DEF Created, Chained
  <2> QED BY <1>2, <1>3, <2>1 DEF Sound, Whole
<1> QED BY <1>4, <1>5, <1>6, <1>7, <1>8 DEF Sound

----------------------------------------------------------------------------
(* The fence *)

\* p, alone in s, changes what belongs to the sessions of s; of the others,
\* it takes none out of an activation.
ByHolder(p, s) ==
    /\ \A q \in Inside \ {p} : SpaceAt(q) # s
    /\ \A o \in Sessions : SpaceOf[o] # s =>
          (prov[o] = "activating" => prov'[o] = "activating") /\ ses'[o] = ses[o]
    /\ \A q \in Procs \ {p} : pc'[q] = pc[q] /\ job'[q] = job[q]

LEMMA HolderStep ==
    ASSUME Tasks, Fenced, NEW p \in Procs, NEW s, ByHolder(p, s), Shape(p)', Knows(p)',
           p \in Inside' => SpaceAt(p)' = s
    PROVE  Tasks' /\ Fenced'
<1>1. ASSUME NEW q \in Procs, q # p PROVE Shape(q)'
  BY <1>1 DEF Tasks, Shape, ByHolder
<1>2. ASSUME NEW q \in Procs, q # p PROVE Knows(q)'
  <2>1. CASE q \in Inside
    <3>1. SpaceAt(q) # s /\ Shape(q) /\ Knows(q) /\ pc'[q] = pc[q] /\ job'[q] = job[q]
      BY <1>2, <2>1 DEF ByHolder, Tasks
    <3>2. CASE pc[q] \in Clocked
      <4>1. job[q].on \in Sessions /\ SpaceOf[job[q].on] # s
        BY <3>1, <3>2 DEF Shape, SpaceAt
      <4>2. /\ prov[job[q].on] = "activating" => prov'[job[q].on] = "activating"
            /\ ses'[job[q].on] = ses[job[q].on]
        BY <4>1 DEF ByHolder
      <4> QED BY <3>1, <4>2 DEF Knows
    <3>3. CASE pc[q] \notin Clocked
      BY <3>1, <3>3 DEF Knows, Clocked
    <3> QED BY <3>2, <3>3
  <2>2. CASE q \notin Inside
    BY <1>2, <2>2 DEF ByHolder, Knows, Inside
  <2> QED BY <2>1, <2>2
<1>3. Tasks'
  BY <1>1, <1>2 DEF Tasks
<1>4. Fenced'
  <2>1. ASSUME NEW q \in Procs, q # p
        PROVE  (q \in Inside' <=> q \in Inside) /\ SpaceAt(q)' = SpaceAt(q)
    BY <2>1 DEF ByHolder, Inside, SpaceAt
  <2>2. ASSUME NEW q \in Inside', NEW r \in Inside', SpaceAt(q)' = SpaceAt(r)'
        PROVE  q = r
    <3>0. q \in Procs /\ r \in Procs BY <2>2 DEF Inside
    <3>1. CASE q # p /\ r # p
      BY <2>1, <2>2, <3>0, <3>1 DEF Fenced
    <3>2. CASE q = p /\ r # p
      BY <2>1, <2>2, <3>0, <3>2 DEF ByHolder
    <3>3. CASE q # p /\ r = p
      BY <2>1, <2>2, <3>0, <3>3 DEF ByHolder
    <3> QED BY <3>1, <3>2, <3>3
  <2> QED BY <2>2 DEF Fenced
<1> QED BY <1>3, <1>4

\* A task that does not hold a fence changes nothing.
LEMMA OutsideStep ==
    ASSUME Tasks, Fenced, NEW p \in Procs, prov' = prov, ses' = ses, Shape(p)', Knows(p)',
           p \notin Inside',
           \A q \in Procs \ {p} : pc'[q] = pc[q] /\ job'[q] = job[q]
    PROVE  Tasks' /\ Fenced'
<1>1. ASSUME NEW q \in Procs, q # p PROVE Shape(q)' /\ Knows(q)'
  BY <1>1 DEF Tasks, Shape, Knows
<1>2. ASSUME NEW q \in Inside' PROVE q \in Inside /\ SpaceAt(q)' = SpaceAt(q)
  <2>1. q \in Procs /\ q # p
    BY <1>2 DEF Inside
  <2> QED BY <1>2, <2>1 DEF Inside, SpaceAt
<1> QED BY <1>1, <1>2 DEF Tasks, Fenced

\* Who has the fence of a Space has it alone.
LEMMA HolderIsAlone ==
    ASSUME Fenced, NEW p \in Inside
    PROVE  \A q \in Inside \ {p} : SpaceAt(q) # SpaceAt(p)
BY DEF Fenced

LEMMA FreeIsEmpty ==
    ASSUME NEW s, Free(s)
    PROVE  \A q \in Inside : SpaceAt(q) # s
BY DEF Free

\* No step but the claim makes an operation block the others.
LEMMA BlockingStays ==
    ASSUME OneBlocking, \A x \in Sessions : prov'[x] \in Blocking => prov[x] \in Blocking
    PROVE  OneBlocking'
BY DEF OneBlocking

----------------------------------------------------------------------------
(* Tasks: types, and where a step takes its task *)

Labels == {"idle", "wait", "mark", "persist", "settle", "retire", "activate",
           "absorb", "resolve", "evidence", "admit", "bind", "push", "apply"}

TasksTyped == pc \in [Procs -> Labels] /\ JobsTyped

\* A task ends,
LEMMA ExitTask ==
    ASSUME TasksTyped, NEW p \in Procs, Exit(p)
    PROVE  /\ TasksTyped' /\ Shape(p)' /\ Knows(p)' /\ p \notin Inside'
           /\ \A q \in Procs \ {p} : pc'[q] = pc[q] /\ job'[q] = job[q]
<1>1. pc' \in [Procs -> Labels] /\ pc'[p] = "idle"
  BY DEF TasksTyped, Exit, Goto, Labels
<1>2. JobsTyped'
  <2>1. NoJob \in [kind : Kinds, on : Sessions \cup Spaces \cup {"none"}, todo : SUBSET Sessions]
    BY DEF NoJob, Kinds
  <2> QED BY <2>1 DEF TasksTyped, JobsTyped, Exit
<1>3. Shape(p)' /\ Knows(p)' /\ p \notin Inside'
  BY <1>1 DEF Shape, Knows, Inside, Clocked, Syncing
<1>4. \A q \in Procs \ {p} : pc'[q] = pc[q] /\ job'[q] = job[q]
  BY DEF TasksTyped, JobsTyped, Exit, Goto
<1> QED BY <1>1, <1>2, <1>3, <1>4 DEF TasksTyped

\* goes on with its job,
LEMMA GotoTask ==
    ASSUME TasksTyped, NEW p \in Procs, NEW here \in Labels, Goto(p, here), job' = job
    PROVE  /\ TasksTyped' /\ pc'[p] = here
           /\ \A q \in Procs \ {p} : pc'[q] = pc[q] /\ job'[q] = job[q]
BY DEF TasksTyped, JobsTyped, Goto

\* or begins.
LEMMA RunTask ==
    ASSUME TasksTyped, NEW p \in Procs, NEW here \in Labels, NEW kind \in Kinds,
           NEW x \in Sessions \cup Spaces, Run(p, here, kind, x)
    PROVE  /\ TasksTyped' /\ pc'[p] = here /\ job'[p].kind = kind /\ job'[p].on = x
           /\ \A q \in Procs \ {p} : pc'[q] = pc[q] /\ job'[q] = job[q]
<1>1. pc' \in [Procs -> Labels] /\ pc'[p] = here
  BY DEF TasksTyped, Run, Goto
<1> DEFINE j == [NoJob EXCEPT !.kind = kind, !.on = x]
<1>2. j = [kind |-> kind, on |-> x, todo |-> {}]
  <2>1. [NoJob EXCEPT !.kind = kind] = [kind |-> kind, on |-> "none", todo |-> {}]
    BY DEF NoJob
  <2>2. j = [[NoJob EXCEPT !.kind = kind] EXCEPT !.on = x]
    OBVIOUS
  <2> DEFINE k == [kind |-> kind, on |-> "none", todo |-> {}]
  <2>3. [k EXCEPT !.on = x] = [kind |-> kind, on |-> x, todo |-> {}]
    OBVIOUS
  <2> QED BY <2>1, <2>2, <2>3
<1>3. j \in [kind : Kinds, on : Sessions \cup Spaces \cup {"none"}, todo : SUBSET Sessions]
  BY <1>2
<1>4. job' = [job EXCEPT ![p] = j]
  BY DEF Run
<1>5. JobsTyped' /\ job'[p] = j
  BY <1>3, <1>4 DEF TasksTyped, JobsTyped
<1>6. \A q \in Procs \ {p} : pc'[q] = pc[q] /\ job'[q] = job[q]
  BY <1>4 DEF TasksTyped, JobsTyped, Run, Goto
<1> QED BY <1>1, <1>2, <1>5, <1>6 DEF TasksTyped

\* What TypeOK says of the rest.
DataTyped ==
    /\ prov \in [Sessions -> States] /\ owner \in [Sessions -> Tabs \cup {"none"}]
    /\ ses \in [Sessions -> [rev : Nat, clock : {"none", "running", "paused", "ended"},
                             ended : BOOLEAN, mine : {"none", "local", "authoritative"}]]
    /\ plan \in [Sessions -> SUBSET Items]
    /\ outbox \subseteq RowSet
    /\ marker \in [Spaces -> [state : {"none", "failed", "meta_pending", "ready"},
                              rows : SUBSET RowSet]]
    /\ imported \in [Sessions -> Nat]
    /\ served \in [Sessions -> {"none", "authoritative", "activation_conflict"}]
    /\ receipts \subseteq Sessions
    /\ faults \in Nat

LEMMA TypedParts == Typed <=> DataTyped /\ TasksTyped
BY DEF Typed, TypeOK, DataTyped, TasksTyped, Labels

----------------------------------------------------------------------------
(* Steps that move an operation *)

Rest == <<ses, plan, outbox, receipts, imported>>

\* The operation of o moves to a state that fits what o has.
LEMMA OperationStep ==
    ASSUME DataTyped, OneBlocking, \A x \in Sessions : Sound(x),
           NEW o \in Sessions, NEW st, prov' = [prov EXCEPT ![o] = st], UNCHANGED Rest,
           st \in Blocking => prov[o] \in Blocking,
           Live(o) => st \in Blocking,
           Compound(o) # {} => st \in Answering,
           Admitted(o) => st \in Past
    PROVE  OneBlocking' /\ \A x \in Sessions : Sound(x)'
<1>1. prov'[o] = st /\ \A x \in Sessions \ {o} : prov'[x] = prov[x]
  BY DEF DataTyped
<1>2. OneBlocking'
  BY <1>1, BlockingStays
<1>3. Sound(o)'
  BY <1>1, MovedIsSound DEF Rest
<1>4. ASSUME NEW x \in Sessions \ {o} PROVE Sound(x)'
  <2>1. Untouched(x)
    BY <1>1 DEF Untouched, Rest, RowsOf
  <2> QED BY <2>1, UntouchedIsSound
<1> QED BY <1>2, <1>3, <1>4

\* Nothing the sessions have changes.
LEMMA NothingMoves ==
    ASSUME OneBlocking, \A x \in Sessions : Sound(x), prov' = prov, UNCHANGED Rest
    PROVE  OneBlocking' /\ \A x \in Sessions : Sound(x)'
<1>1. \A x \in Sessions : Untouched(x)
  BY DEF Untouched, Rest, RowsOf
<1> QED BY <1>1, UntouchedIsSound, BlockingStays

\* The operations of a session and of the others.
LEMMA OthersKeep ==
    ASSUME DataTyped, NEW p \in Procs, NEW o \in Sessions, NEW st,
           prov' = [prov EXCEPT ![o] = st], ses' = ses,
           \A q \in Inside \ {p} : SpaceAt(q) # SpaceOf[o],
           \A q \in Procs \ {p} : pc'[q] = pc[q] /\ job'[q] = job[q]
    PROVE  ByHolder(p, SpaceOf[o])
BY DEF DataTyped, ByHolder

LEMMA OthersKeepAll ==
    ASSUME NEW p \in Procs, NEW s, prov' = prov, ses' = ses,
           \A q \in Inside \ {p} : SpaceAt(q) # s,
           \A q \in Procs \ {p} : pc'[q] = pc[q] /\ job'[q] = job[q]
    PROVE  ByHolder(p, s)
BY DEF ByHolder

\* What holds of a task that works on a session under the fence.
LEMMA AtClock ==
    ASSUME Tasks, Fenced, NEW p \in Procs, pc[p] \in Clocked
    PROVE  /\ job[p].on \in Sessions /\ SpaceAt(p) = SpaceOf[job[p].on] /\ p \in Inside
           /\ \A q \in Inside \ {p} : SpaceAt(q) # SpaceOf[job[p].on]
           /\ Shape(p) /\ Knows(p)
<1>1. Shape(p) /\ Knows(p) /\ p \in Inside
  BY DEF Tasks, Inside, Clocked
<1>2. job[p].on \in Sessions /\ SpaceAt(p) = SpaceOf[job[p].on]
  BY <1>1 DEF Shape, SpaceAt
<1> QED BY <1>1, <1>2, HolderIsAlone

\* An operation that blocks was not admitted, and a session that was never
\* written has nothing.
LEMMA BlockingIsOpen ==
    ASSUME NEW o \in Sessions, Sound(o), prov[o] \in Blocking
    PROVE  ~Admitted(o) /\ ~Committed(o)
BY DEF Sound, Authorised, Admitted, Blocking, Past

LEMMA UnwrittenIsEmpty ==
    ASSUME NEW o \in Sessions, Sound(o), ses[o] = NoSession
    PROVE  RowsOf(o) = {} /\ ~Committed(o) /\ ~Live(o) /\ ~Local(o) /\ o \notin receipts
BY DEF Sound, Born, NoSession, Live, Local

\* The invariant, part by part.
LEMMA InvParts ==
    ProvInv <=> /\ DataTyped /\ TasksTyped /\ Tasks /\ Fenced /\ OneBlocking
                /\ \A x \in Sessions : Sound(x)
BY TypedParts DEF ProvInv

LEMMA InvNext ==
    ASSUME DataTyped', TasksTyped', Tasks', Fenced', OneBlocking', \A x \in Sessions : Sound(x)'
    PROVE  ProvInv'
BY DEF ProvInv, Typed, TypeOK, DataTyped, TasksTyped, Labels

----------------------------------------------------------------------------
(* Start *)

LEMMA ClaimStep ==
    ASSUME ProvInv, NEW p \in Procs, NEW o \in Sessions, Claim(p, o)
    PROVE  ProvInv'
<1> USE InvParts DEF Claim
<1>1. DataTyped'
  BY DEF DataTyped, space, States, Tabs
<1>2. /\ TasksTyped' /\ pc'[p] = "mark" /\ job'[p].kind = "start" /\ job'[p].on = o
      /\ \A q \in Procs \ {p} : pc'[q] = pc[q] /\ job'[q] = job[q]
  BY RunTask DEF Labels, Kinds
<1>3. /\ prov'[o] = "pending" /\ ses'[o] = NoSession
      /\ \A x \in Sessions \ {o} : prov'[x] = prov[x] /\ prov[x] \notin Blocking
  BY DEF DataTyped, NoneOnDevice, space
<1>4. OneBlocking'
  BY <1>3 DEF OneBlocking
<1>5. \A x \in Sessions : Sound(x)'
  <2>1. Sound(o)'
    <3>1. ~Live(o) /\ Compound(o) = {} /\ ~Admitted(o)
      BY UnwrittenIsEmpty DEF Compound, Admitted
    <3> QED BY <3>1, MovedIsSound DEF space
  <2>2. ASSUME NEW x \in Sessions \ {o} PROVE Untouched(x)
    BY <1>3 DEF Untouched, RowsOf, space
  <2> QED BY <2>1, <2>2, UntouchedIsSound
<1>6. Shape(p)' /\ Knows(p)' /\ SpaceAt(p)' = SpaceOf[o]
  BY <1>2, <1>3 DEF Shape, Knows, SpaceAt, Clocked, Syncing
<1>7. ByHolder(p, SpaceOf[o])
  BY <1>2, FreeIsEmpty, OthersKeep DEF space
<1>8. Tasks' /\ Fenced'
  BY <1>6, <1>7, HolderStep
<1> QED BY <1>1, <1>2, <1>4, <1>5, <1>8, InvNext

LEMMA ResumeStartStep ==
    ASSUME ProvInv, NEW p \in Procs, NEW o \in Sessions, ResumeStart(p, o)
    PROVE  ProvInv'
<1> USE InvParts DEF ResumeStart
<1>1. DataTyped'
  BY DEF DataTyped, space, meta
<1>2. /\ TasksTyped' /\ pc'[p] = "mark" /\ job'[p].kind = "start" /\ job'[p].on = o
      /\ \A q \in Procs \ {p} : pc'[q] = pc[q] /\ job'[q] = job[q]
  BY RunTask DEF Labels, Kinds
<1>3. OneBlocking' /\ \A x \in Sessions : Sound(x)'
  BY NothingMoves DEF Rest, meta, space
<1>4. Shape(p)' /\ Knows(p)' /\ SpaceAt(p)' = SpaceOf[o]
  BY <1>2 DEF Shape, Knows, SpaceAt, Clocked, Syncing, space
<1>5. ByHolder(p, SpaceOf[o])
  BY <1>2, FreeIsEmpty, OthersKeepAll DEF space, meta
<1>6. Tasks' /\ Fenced'
  BY <1>4, <1>5, HolderStep
<1> QED BY <1>1, <1>2, <1>3, <1>6, InvNext

LEMMA MarkActivatingStep ==
    ASSUME ProvInv, NEW p \in Procs, MarkActivating(p)
    PROVE  ProvInv'
<1> USE InvParts DEF MarkActivating
<1> DEFINE o == job[p].on
<1>1. /\ o \in Sessions /\ SpaceAt(p) = SpaceOf[o] /\ p \in Inside /\ Shape(p) /\ Knows(p)
      /\ \A q \in Inside \ {p} : SpaceAt(q) # SpaceOf[o]
  BY AtClock DEF Clocked
<1>2. prov[o] = "pending" /\ prov' = [prov EXCEPT ![o] = "activating"]
  BY DEF Move
<1>3. /\ TasksTyped' /\ pc'[p] = "persist"
      /\ \A q \in Procs \ {p} : pc'[q] = pc[q] /\ job'[q] = job[q]
  BY GotoTask DEF Labels
<1>4. DataTyped'
  BY <1>1, <1>2 DEF DataTyped, space, States
<1>5. OneBlocking' /\ \A x \in Sessions : Sound(x)'
  BY <1>1, <1>2, OperationStep, BlockingIsOpen DEF Rest, space, Blocking, Answering
<1>6. Shape(p)' /\ Knows(p)' /\ SpaceAt(p)' = SpaceOf[o]
  BY <1>1, <1>2, <1>3 DEF Shape, Knows, SpaceAt, Clocked, Syncing, space, DataTyped
<1>7. ByHolder(p, SpaceOf[o])
  BY <1>1, <1>2, <1>3, OthersKeep DEF space
<1>8. Tasks' /\ Fenced'
  BY <1>6, <1>7, HolderStep
<1> QED BY <1>3, <1>4, <1>5, <1>8, InvNext

LEMMA SettleStartStep ==
    ASSUME ProvInv, NEW p \in Procs, SettleStart(p)
    PROVE  ProvInv'
<1> USE InvParts DEF SettleStart
<1> DEFINE o == job[p].on
<1>1. /\ o \in Sessions /\ SpaceAt(p) = SpaceOf[o]
      /\ \A q \in Inside \ {p} : SpaceAt(q) # SpaceOf[o]
  BY AtClock DEF Clocked
<1>2. prov[o] = "activating" /\ prov' = [prov EXCEPT ![o] = "pending"]
  BY DEF Move
<1>3. /\ TasksTyped' /\ Shape(p)' /\ Knows(p)' /\ p \notin Inside'
      /\ \A q \in Procs \ {p} : pc'[q] = pc[q] /\ job'[q] = job[q]
  BY ExitTask
<1>4. DataTyped'
  BY <1>1, <1>2 DEF DataTyped, space, States
<1>5. OneBlocking' /\ \A x \in Sessions : Sound(x)'
  BY <1>1, <1>2, OperationStep, BlockingIsOpen DEF Rest, space, Blocking, Answering
<1>6. ByHolder(p, SpaceOf[o])
  BY <1>1, <1>2, <1>3, OthersKeep DEF space
<1>7. Tasks' /\ Fenced'
  BY <1>3, <1>6, HolderStep
<1> QED BY <1>3, <1>4, <1>5, <1>7, InvNext

----------------------------------------------------------------------------
(* Steps that leave the sessions as they are *)

\* A task that holds no fence changes its label.
LEMMA WaitingStep ==
    ASSUME ProvInv, NEW p \in Procs, TasksTyped', Shape(p)', Knows(p)', p \notin Inside',
           \A q \in Procs \ {p} : pc'[q] = pc[q] /\ job'[q] = job[q],
           UNCHANGED <<meta, space, imported, served, faults>>
    PROVE  ProvInv'
<1>1. DataTyped'
  BY InvParts DEF DataTyped, space, meta
<1>2. OneBlocking' /\ \A x \in Sessions : Sound(x)'
  BY InvParts, NothingMoves DEF Rest, meta, space
<1>3. Tasks' /\ Fenced'
  BY InvParts, OutsideStep DEF meta, space
<1> QED BY <1>1, <1>2, <1>3, InvNext

LEMMA EditBegins ==
    ASSUME ProvInv, NEW p \in Procs, NEW o \in Sessions, NEW kind \in Edits, Edit(p, o, kind)
    PROVE  ProvInv'
<1>1. /\ TasksTyped' /\ pc'[p] = "wait" /\ job'[p].kind = kind /\ job'[p].on = o
      /\ \A q \in Procs \ {p} : pc'[q] = pc[q] /\ job'[q] = job[q]
  BY InvParts, RunTask DEF Edit, Labels, Kinds
<1>2. Shape(p)' /\ Knows(p)' /\ p \notin Inside'
  BY <1>1 DEF Shape, Knows, Inside, Clocked, Syncing
<1> QED BY <1>1, <1>2, WaitingStep DEF Edit

LEMMA ListStartsStep ==
    ASSUME ProvInv, NEW p \in Procs, NEW o \in Sessions, ListStarts(p, o)
    PROVE  ProvInv'
<1>1. /\ TasksTyped' /\ pc'[p] = "wait" /\ job'[p].kind = "recover" /\ job'[p].on = o
      /\ \A q \in Procs \ {p} : pc'[q] = pc[q] /\ job'[q] = job[q]
  BY InvParts, RunTask DEF ListStarts, Labels, Kinds
<1>2. Shape(p)' /\ Knows(p)' /\ p \notin Inside'
  BY <1>1 DEF Shape, Knows, Inside, Clocked, Syncing
<1> QED BY <1>1, <1>2, WaitingStep DEF ListStarts

LEMMA DisownedStep ==
    ASSUME ProvInv, NEW p \in Procs, Disowned(p)
    PROVE  ProvInv'
BY InvParts, ExitTask, WaitingStep DEF Disowned

LEMMA EndSyncStep ==
    ASSUME ProvInv, NEW p \in Procs, EndSync(p)
    PROVE  ProvInv'
BY InvParts, ExitTask, WaitingStep DEF EndSync

\* A task that a sync cycle runs, under the fence of its Space.
LEMMA AtSync ==
    ASSUME Tasks, Fenced, NEW p \in Procs, pc[p] \in Syncing
    PROVE  /\ job[p].on \in Spaces /\ SpaceAt(p) = job[p].on /\ p \in Inside
           /\ \A q \in Inside \ {p} : SpaceAt(q) # job[p].on
           /\ job[p].kind = "sync"
<1>1. Shape(p) /\ p \in Inside
  BY DEF Tasks, Inside, Syncing
<1>2. job[p].on \in Spaces /\ SpaceAt(p) = job[p].on /\ job[p].kind = "sync"
  BY <1>1 DEF Shape, SpaceAt
<1> QED BY <1>1, <1>2, HolderIsAlone

\* It goes on, with the same Space.
LEMMA SyncGoesOn ==
    ASSUME Tasks, Fenced, TasksTyped, NEW p \in Procs, NEW s, job'[p].kind = "sync",
           job'[p].on = s, s \in Spaces, pc'[p] \in Syncing, ByHolder(p, s)
    PROVE  Tasks' /\ Fenced'
<1>1. Shape(p)' /\ Knows(p)' /\ SpaceAt(p)' = s
  BY DEF Shape, Knows, SpaceAt, Clocked, Syncing
<1> QED BY <1>1, HolderStep

LEMMA StartSyncStep ==
    ASSUME ProvInv, NEW p \in Procs, NEW s \in Spaces, StartSync(p, s)
    PROVE  ProvInv'
<1> USE InvParts DEF StartSync
<1>1. DataTyped'
  BY DEF DataTyped, space, meta
<1>2. /\ TasksTyped' /\ pc'[p] = "evidence" /\ job'[p].kind = "sync" /\ job'[p].on = s
      /\ \A q \in Procs \ {p} : pc'[q] = pc[q] /\ job'[q] = job[q]
  BY RunTask DEF Labels, Kinds
<1>3. OneBlocking' /\ \A x \in Sessions : Sound(x)'
  BY NothingMoves DEF Rest, meta, space
<1>4. ByHolder(p, s)
  BY <1>2, FreeIsEmpty, OthersKeepAll DEF space, meta
<1>5. Tasks' /\ Fenced'
  BY <1>2, <1>4, SyncGoesOn DEF Syncing
<1> QED BY <1>1, <1>2, <1>3, <1>5, InvNext

LEMMA ServeActivationStep ==
    ASSUME ProvInv, NEW p \in Procs, ServeActivation(p)
    PROVE  ProvInv'
<1> USE InvParts DEF ServeActivation
<1> DEFINE o == job[p].on
<1>1. /\ o \in Sessions /\ SpaceAt(p) = SpaceOf[o] /\ p \in Inside /\ Shape(p) /\ Knows(p)
      /\ \A q \in Inside \ {p} : SpaceAt(q) # SpaceOf[o]
  BY AtClock DEF Clocked
<1>2. DataTyped'
  <2>1. served' \in [Sessions -> {"none", "authoritative", "activation_conflict"}]
    BY <1>1 DEF DataTyped
  <2> QED BY <2>1 DEF DataTyped, space, meta
<1>3. /\ TasksTyped' /\ pc'[p] = "absorb"
      /\ \A q \in Procs \ {p} : pc'[q] = pc[q] /\ job'[q] = job[q]
  BY GotoTask DEF Labels
<1>4. OneBlocking' /\ \A x \in Sessions : Sound(x)'
  BY NothingMoves DEF Rest, meta, space
<1>5. Shape(p)' /\ Knows(p)' /\ SpaceAt(p)' = SpaceOf[o]
  BY <1>1, <1>3 DEF Shape, Knows, SpaceAt, Clocked, Syncing, space, meta
<1>6. ByHolder(p, SpaceOf[o])
  BY <1>1, <1>3, OthersKeepAll DEF space, meta
<1>7. Tasks' /\ Fenced'
  BY <1>5, <1>6, HolderStep
<1> QED BY <1>2, <1>3, <1>4, <1>7, InvNext

LEMMA MarkerTyped ==
    ASSUME DataTyped, NEW s \in Spaces,
           marker' = marker \/ marker' = [marker EXCEPT ![s].state = "ready"]
    PROVE  marker' \in [Spaces -> [state : {"none", "failed", "meta_pending", "ready"},
                                   rows : SUBSET RowSet]]
<1> DEFINE Marks == [state : {"none", "failed", "meta_pending", "ready"},
                     rows : SUBSET RowSet]
<1>1. marker \in [Spaces -> Marks]
  BY DEF DataTyped
<1>2. [marker[s] EXCEPT !.state = "ready"] \in Marks
  <2>1. marker[s] \in Marks
    BY <1>1
  <2> QED BY <2>1
<1> HIDE DEF Marks
<1>3. [marker EXCEPT ![s].state = "ready"] \in [Spaces -> Marks]
  BY <1>1, <1>2
<1>4. marker' \in [Spaces -> Marks]
  BY <1>1, <1>3
<1> QED BY <1>4 DEF Marks

LEMMA ConfirmAdmissionStep ==
    ASSUME ProvInv, NEW p \in Procs, ConfirmAdmission(p)
    PROVE  ProvInv'
<1> USE InvParts DEF ConfirmAdmission
<1> DEFINE s == job[p].on
<1>1. /\ s \in Spaces /\ SpaceAt(p) = s /\ job[p].kind = "sync"
      /\ \A q \in Inside \ {p} : SpaceAt(q) # s
  BY AtSync DEF Syncing
<1>2. DataTyped'
  <2>1. marker' = marker \/ marker' = [marker EXCEPT ![s].state = "ready"]
    OBVIOUS
  <2>2. marker' \in [Spaces -> [state : {"none", "failed", "meta_pending", "ready"},
                                rows : SUBSET RowSet]]
    BY <1>1, <2>1, MarkerTyped
  <2> QED BY <2>2 DEF DataTyped, meta
<1>3. OneBlocking' /\ \A x \in Sessions : Sound(x)'
  BY NothingMoves DEF Rest, meta
<1>4. CASE Goto(p, "push") /\ job' = job
  <2>1. /\ TasksTyped' /\ pc'[p] = "push"
        /\ \A q \in Procs \ {p} : pc'[q] = pc[q] /\ job'[q] = job[q]
    BY <1>4, GotoTask DEF Labels
  <2>2. ByHolder(p, s)
    BY <1>1, <2>1, OthersKeepAll DEF meta
  <2>3. Tasks' /\ Fenced'
    BY <1>1, <1>4, <2>1, <2>2, SyncGoesOn DEF Syncing
  <2> QED BY <1>2, <1>3, <2>1, <2>3, InvNext
<1>5. CASE Exit(p)
  <2>1. /\ TasksTyped' /\ Shape(p)' /\ Knows(p)' /\ p \notin Inside'
        /\ \A q \in Procs \ {p} : pc'[q] = pc[q] /\ job'[q] = job[q]
    BY <1>5, ExitTask
  <2>2. Tasks' /\ Fenced'
    BY <2>1, OutsideStep DEF meta
  <2> QED BY <1>2, <1>3, <2>1, <2>2, InvNext
<1> QED BY <1>4, <1>5

LEMMA PageDiesStep ==
    ASSUME ProvInv, NEW t \in Tabs, PageDies(t)
    PROVE  ProvInv'
<1> USE InvParts DEF PageDies
<1>1. DataTyped'
  BY DEF DataTyped, space, meta
<1>2. TasksTyped'
  <2>1. pc' \in [Procs -> Labels]
    BY DEF TasksTyped, Labels
  <2>2. NoJob \in [kind : Kinds, on : Sessions \cup Spaces \cup {"none"}, todo : SUBSET Sessions]
    BY DEF NoJob, Kinds
  <2>3. JobsTyped'
    BY <2>2 DEF TasksTyped, JobsTyped
  <2> QED BY <2>1, <2>3 DEF TasksTyped
<1>3. OneBlocking' /\ \A x \in Sessions : Sound(x)'
  BY NothingMoves DEF Rest, meta, space
<1>4. ASSUME NEW p \in Procs PROVE (pc'[p] = pc[p] /\ job'[p] = job[p]) \/ pc'[p] = "idle"
  OBVIOUS
<1>5. Tasks'
  <2>1. ASSUME NEW p \in Procs, pc'[p] = "idle" PROVE Shape(p)' /\ Knows(p)'
    BY <2>1 DEF Shape, Knows, Clocked, Syncing
  <2>2. ASSUME NEW p \in Procs, pc'[p] = pc[p], job'[p] = job[p] PROVE Shape(p)' /\ Knows(p)'
    BY <2>2 DEF Tasks, Shape, Knows, meta, space
  <2> QED BY <1>4, <2>1, <2>2 DEF Tasks
<1>6. Fenced'
  <2>1. ASSUME NEW p \in Inside' PROVE p \in Inside /\ SpaceAt(p)' = SpaceAt(p)
    BY <1>4, <2>1 DEF Inside, SpaceAt
  <2> QED BY <2>1 DEF Fenced
<1> QED BY <1>1, <1>2, <1>3, <1>5, <1>6, InvNext

----------------------------------------------------------------------------
(* Steps that move operations *)

\* A task that works on a session under the fence moves its operation and ends.
LEMMA ClosingStep ==
    ASSUME ProvInv, NEW p \in Procs, NEW o \in Sessions, NEW st \in States,
           \A q \in Inside \ {p} : SpaceAt(q) # SpaceOf[o],
           prov' = [prov EXCEPT ![o] = st], Exit(p),
           UNCHANGED <<owner, space, imported, served>>, faults' \in Nat,
           st \in Blocking => prov[o] \in Blocking,
           Live(o) => st \in Blocking,
           Compound(o) # {} => st \in Answering,
           Admitted(o) => st \in Past
    PROVE  ProvInv'
<1> USE InvParts
<1>1. /\ TasksTyped' /\ Shape(p)' /\ Knows(p)' /\ p \notin Inside'
      /\ \A q \in Procs \ {p} : pc'[q] = pc[q] /\ job'[q] = job[q]
  BY ExitTask
<1>2. DataTyped'
  BY DEF DataTyped, space
<1>3. OneBlocking' /\ \A x \in Sessions : Sound(x)'
  BY OperationStep DEF Rest, space
<1>4. ByHolder(p, SpaceOf[o])
  BY <1>1, OthersKeep DEF space
<1>5. Tasks' /\ Fenced'
  BY <1>1, <1>4, HolderStep
<1> QED BY <1>1, <1>2, <1>3, <1>5, InvNext

LEMMA RetireStep ==
    ASSUME ProvInv, NEW p \in Procs, RetireOperation(p)
    PROVE  ProvInv'
<1> USE InvParts DEF RetireOperation
<1> DEFINE o == job[p].on
<1>1. /\ o \in Sessions /\ Knows(p)
      /\ \A q \in Inside \ {p} : SpaceAt(q) # SpaceOf[o]
  BY AtClock DEF Clocked
<1>2. prov[o] \in Blocking /\ prov' = [prov EXCEPT ![o] = "awaiting_s4"]
  BY DEF Move, Blocking
<1>3. ~Live(o)
  BY <1>1 DEF Knows, Live
<1>4. "awaiting_s4" \in States /\ "awaiting_s4" \in Answering /\ "awaiting_s4" \in Past
  BY DEF States, Answering, Past
<1>5. faults' \in Nat
  BY DEF DataTyped
<1> QED BY <1>1, <1>2, <1>3, <1>4, <1>5, ClosingStep

LEMMA ResolveActivationStep ==
    ASSUME ProvInv, NEW p \in Procs, ResolveActivation(p)
    PROVE  ProvInv'
<1> USE InvParts DEF ResolveActivation
<1> DEFINE o == job[p].on
<1>1. /\ o \in Sessions /\ Knows(p)
      /\ \A q \in Inside \ {p} : SpaceAt(q) # SpaceOf[o]
  BY AtClock DEF Clocked
<1>2. prov[o] = "activating" /\ prov' = [prov EXCEPT ![o] = "activation_resolved"]
  BY DEF Move
<1>3. ~Local(o) /\ ~Live(o)
  BY <1>1 DEF Knows, Live, Local
<1>4. RowsOf(o) = {} /\ ~Committed(o)
  BY <1>1, <1>3 DEF Sound, Born
<1>5. Compound(o) = {} /\ ~Admitted(o)
  BY <1>4 DEF Compound, Admitted
<1>6. "activation_resolved" \in States /\ "activation_resolved" \notin Blocking
  BY DEF States, Blocking
<1>7. faults' \in Nat
  BY DEF DataTyped
<1> QED BY <1>1, <1>2, <1>3, <1>5, <1>6, <1>7, ClosingStep

LEMMA RecoverStartStep ==
    ASSUME ProvInv, NEW p \in Procs, RecoverStart(p)
    PROVE  ProvInv'
<1> USE InvParts DEF RecoverStart
<1> DEFINE o == job[p].on
<1>1. o \in Sessions /\ \A q \in Inside \ {p} : SpaceAt(q) # SpaceOf[o]
  <2>1. o \in Sessions
    BY DEF Entered, Tasks, Shape
  <2> QED BY <2>1, FreeIsEmpty DEF Entered
<1>2. faults' \in Nat
  BY DEF DataTyped
<1>3. CASE Unwritten(o) /\ prov[o] \in {"pending", "activating"}
  <2>1. Compound(o) = {} /\ ~Admitted(o) /\ ~Live(o)
    BY <1>1, <1>3, UnwrittenIsEmpty DEF Compound, Admitted, Unwritten
  <2>2. "none" \in States /\ "none" \notin Blocking
    BY DEF States, Blocking
  <2>3. prov' = [prov EXCEPT ![o] = "none"]
    BY <1>3
  <2> QED BY <1>1, <1>2, <2>1, <2>2, <2>3, ClosingStep
<1>4. CASE ~(Unwritten(o) /\ prov[o] \in {"pending", "activating"})
  <2>1. prov' = [prov EXCEPT ![o] = prov[o]] /\ prov[o] \in States
    BY <1>1, <1>4 DEF DataTyped
  <2>2. /\ Live(o) => prov[o] \in Blocking
        /\ Compound(o) # {} => prov[o] \in Answering
        /\ Admitted(o) => prov[o] \in Past
    BY <1>1 DEF Sound, Born, Authorised
  <2> QED BY <1>1, <1>2, <2>1, <2>2, ClosingStep
<1> QED BY <1>3, <1>4

LEMMA ThrowStep ==
    ASSUME ProvInv, NEW p \in Procs, Throw(p)
    PROVE  ProvInv'
<1> USE InvParts DEF Throw
<1> DEFINE o == job[p].on
<1>2. faults' \in Nat
  BY DEF DataTyped
<1>3. CASE pc[p] \in Caught /\ prov[o] = "activating"
  <2>1. o \in Sessions /\ \A q \in Inside \ {p} : SpaceAt(q) # SpaceOf[o]
    BY <1>3, AtClock DEF Caught, Clocked
  <2>2. ~Admitted(o) /\ prov[o] \in Blocking
    BY <1>3, <2>1, BlockingIsOpen DEF Blocking
  <2>3. "pending" \in States /\ "pending" \in Blocking /\ "pending" \in Answering
    BY DEF States, Blocking, Answering
  <2>4. prov' = [prov EXCEPT ![o] = "pending"]
    BY <1>3
  <2> QED BY <1>2, <2>1, <2>2, <2>3, <2>4, ClosingStep
<1>4. CASE ~(pc[p] \in Caught /\ prov[o] = "activating")
  <2>1. /\ TasksTyped' /\ Shape(p)' /\ Knows(p)' /\ p \notin Inside'
        /\ \A q \in Procs \ {p} : pc'[q] = pc[q] /\ job'[q] = job[q]
    BY ExitTask
  <2>2. prov' = prov
    BY <1>4
  <2>3. DataTyped'
    BY <1>2, <2>2 DEF DataTyped, space
  <2>4. OneBlocking' /\ \A x \in Sessions : Sound(x)'
    BY <2>2, NothingMoves DEF Rest, space
  <2>5. Tasks' /\ Fenced'
    BY <2>1, <2>2, OutsideStep DEF space
  <2> QED BY <2>1, <2>3, <2>4, <2>5, InvNext
<1> QED BY <1>3, <1>4

LEMMA ReconcileStep ==
    ASSUME ProvInv, NEW p \in Procs, NEW o \in Sessions, Reconcile(p, o)
    PROVE  ProvInv'
<1> USE InvParts DEF Reconcile
<1>1. \A q \in Inside : SpaceAt(q) # SpaceOf[o]
  BY FreeIsEmpty
<1>2. CASE /\ ses[o].ended
           /\ Move(o, {"pending", "activating"}, "awaiting_s4")
           /\ UNCHANGED <<pc, job>>
  <2>1. prov[o] \in Blocking /\ prov' = [prov EXCEPT ![o] = "awaiting_s4"]
    BY <1>2 DEF Move, Blocking
  <2>2. ~Live(o)
    BY <1>2 DEF Live
  <2>3. "awaiting_s4" \in States /\ "awaiting_s4" \in Answering /\ "awaiting_s4" \in Past
    BY DEF States, Answering, Past
  <2>4. DataTyped' /\ TasksTyped'
    BY <1>2, <2>1, <2>3 DEF DataTyped, space, TasksTyped, JobsTyped
  <2>5. OneBlocking' /\ \A x \in Sessions : Sound(x)'
    BY <2>1, <2>2, <2>3, OperationStep DEF Rest, space
  <2>6. ByHolder(p, SpaceOf[o])
    BY <1>1, <1>2, <2>1, OthersKeep DEF space
  <2>7. Shape(p)' /\ Knows(p)' /\ p \notin Inside'
    BY <1>2 DEF Shape, Knows, Inside, Clocked, Syncing
  <2>8. Tasks' /\ Fenced'
    BY <2>6, <2>7, HolderStep
  <2> QED BY <2>4, <2>5, <2>8, InvNext
<1>3. CASE /\ ~ses[o].ended
           /\ Move(o, {"pending"}, "activating")
           /\ Run(p, "activate", "activate", o)
  <2>1. prov[o] = "pending" /\ prov' = [prov EXCEPT ![o] = "activating"]
    BY <1>3 DEF Move
  <2>2. /\ TasksTyped' /\ pc'[p] = "activate" /\ job'[p].kind = "activate" /\ job'[p].on = o
        /\ \A q \in Procs \ {p} : pc'[q] = pc[q] /\ job'[q] = job[q]
    BY <1>3, RunTask DEF Labels, Kinds
  <2>3. DataTyped'
    BY <2>1 DEF DataTyped, space, States
  <2>4. OneBlocking' /\ \A x \in Sessions : Sound(x)'
    BY <2>1, OperationStep, BlockingIsOpen DEF Rest, space, Blocking, Answering
  <2>5. prov'[o] = "activating" /\ ses'[o].mine # "none"
    BY <2>1 DEF DataTyped, Sound, Born, space
  <2>6. Shape(p)' /\ Knows(p)' /\ SpaceAt(p)' = SpaceOf[o]
    BY <2>2, <2>5 DEF Shape, Knows, SpaceAt, Clocked, Syncing
  <2>7. ByHolder(p, SpaceOf[o])
    BY <1>1, <2>1, <2>2, OthersKeep DEF space
  <2>8. Tasks' /\ Fenced'
    BY <2>6, <2>7, HolderStep
  <2> QED BY <2>2, <2>3, <2>4, <2>8, InvNext
<1> QED BY <1>2, <1>3

LEMMA ReconcileEvidenceStep ==
    ASSUME ProvInv, NEW p \in Procs, ReconcileEvidence(p)
    PROVE  ProvInv'
<1> USE InvParts DEF ReconcileEvidence
<1> DEFINE s == job[p].on
<1>1. /\ s \in Spaces /\ SpaceAt(p) = s /\ job[p].kind = "sync"
      /\ \A q \in Inside \ {p} : SpaceAt(q) # s
  BY AtSync DEF Syncing
<1>2. ASSUME NEW x \in Sessions
      PROVE  \/ prov'[x] = prov[x]
             \/ /\ SpaceOf[x] = s /\ Committed(x)
                /\ prov[x] = "transport_ready" /\ prov'[x] = "transport_resolved"
  BY DEF ResolveTransport, Here
<1>3. DataTyped'
  <2>1. prov' \in [Sessions -> States]
    BY DEF ResolveTransport, DataTyped, States
  <2> QED BY <2>1 DEF DataTyped, space
<1>4. /\ TasksTyped' /\ pc'[p] \in {"admit", "push"}
      /\ \A q \in Procs \ {p} : pc'[q] = pc[q] /\ job'[q] = job[q]
  <2>1. (IF pc[p] = "evidence" THEN "admit" ELSE "push") \in {"admit", "push"}
    OBVIOUS
  <2> QED BY <2>1, GotoTask DEF Labels
<1>5. OneBlocking'
  BY <1>2, BlockingStays DEF Blocking
<1>6. ASSUME NEW x \in Sessions PROVE Sound(x)'
  <2>1. CASE prov'[x] = prov[x]
    <3>1. Untouched(x)
      BY <2>1 DEF Untouched, RowsOf, space
    <3> QED BY <3>1, UntouchedIsSound
  <2>2. CASE Committed(x) /\ prov[x] = "transport_ready" /\ prov'[x] = "transport_resolved"
    <3>1. Compound(x) = {} /\ ~Live(x)
      BY <2>2 DEF Sound, Authorised, Born, Blocking
    <3>2. prov'[x] \in Past
      BY <2>2 DEF Past
    <3> QED BY <3>1, <3>2, MovedIsSound DEF space
  <2> QED BY <1>2, <2>1, <2>2
<1>7. ByHolder(p, s)
  BY <1>1, <1>2, <1>4 DEF ByHolder, space
<1>8. Tasks' /\ Fenced'
  BY <1>1, <1>4, <1>7, SyncGoesOn DEF Syncing
<1> QED BY <1>3, <1>4, <1>5, <1>6, <1>8, InvNext

LEMMA BindRootStep ==
    ASSUME ProvInv, NEW p \in Procs, NEW o \in Sessions, BindRoot(p, o)
    PROVE  ProvInv'
<1> USE InvParts DEF BindRoot
<1> DEFINE s == job[p].on
<1>1. /\ s \in Spaces /\ SpaceAt(p) = s /\ job[p].kind = "sync"
      /\ \A q \in Inside \ {p} : SpaceAt(q) # s
  BY AtSync DEF Syncing
<1>2. CASE prov[o] \in {"awaiting_s4", "transport_ready"}
  <2>1. prov' = [prov EXCEPT ![o] = "transport_ready"] /\ pc' = pc
        /\ job' = [job EXCEPT ![p].todo = @ \ {o}]
    BY <1>2
  <2>2. TasksTyped' /\ job'[p].kind = "sync" /\ job'[p].on = s /\ pc'[p] = "bind"
        /\ \A q \in Procs \ {p} : pc'[q] = pc[q] /\ job'[q] = job[q]
    BY <1>1, <2>1 DEF TasksTyped, JobsTyped
  <2>3. DataTyped'
    BY <2>1 DEF DataTyped, space, States
  <2>4. "transport_ready" \in Answering /\ "transport_ready" \in Past
        /\ "transport_ready" \notin Blocking /\ ~Live(o)
    BY <1>2 DEF Answering, Past, Blocking, Sound, Born
  <2>5. OneBlocking' /\ \A x \in Sessions : Sound(x)'
    BY <2>1, <2>4, OperationStep DEF Rest, space
  <2>6. ByHolder(p, s)
    BY <1>1, <1>2, <2>1, <2>2 DEF ByHolder, space, DataTyped
  <2>7. Tasks' /\ Fenced'
    BY <1>1, <2>2, <2>6, SyncGoesOn DEF Syncing
  <2> QED BY <2>2, <2>3, <2>5, <2>7, InvNext
<1>3. CASE prov[o] \notin {"awaiting_s4", "transport_ready"}
  BY <1>3, ExitTask, WaitingStep DEF meta
<1> QED BY <1>2, <1>3

----------------------------------------------------------------------------
(* Steps that write sessions *)

\* What one session has changes, that of the others does not.
OnlyOf(o) == \A x \in Sessions \ {o} : Untouched(x)

LEMMA OneSessionStep ==
    ASSUME \A x \in Sessions : Sound(x), NEW o \in Sessions, OnlyOf(o), Sound(o)'
    PROVE  \A x \in Sessions : Sound(x)'
BY UntouchedIsSound DEF OnlyOf

\* A row that is added belongs to its session.
LEMMA AddedRows ==
    ASSUME NEW R, \A r \in R : r.of \in Sessions, outbox' = outbox \cup R, NEW x
    PROVE  RowsOf(x)' = RowsOf(x) \cup {r \in R : r.of = x}
BY DEF RowsOf

LEMMA RowFields ==
    ASSUME NEW o \in Sessions, NEW ent \in Initial(0, Items), NEW rev \in Nat
    PROVE  /\ Create(o, ent, rev) \in RowSet
           /\ Create(o, ent, rev).of = o /\ Create(o, ent, rev).ent = ent
           /\ Create(o, ent, rev).act = "create" /\ Create(o, ent, rev).exp = 0
           /\ Create(o, ent, rev).rev = rev /\ Create(o, ent, rev).root = "compound"
           /\ Create(o, ent, rev).state = "awaiting_s4"
BY DEF Create, Row, RowSet

LEMMA ClockFields ==
    ASSUME NEW o \in Sessions, NEW rev \in Nat \ {0}
    PROVE  /\ Clock(o, rev) \in RowSet
           /\ Clock(o, rev).of = o /\ Clock(o, rev).ent = "session"
           /\ Clock(o, rev).act = "update" /\ Clock(o, rev).exp = rev - 1
           /\ Clock(o, rev).rev = rev /\ Clock(o, rev).root = "alone"
           /\ Clock(o, rev).state = "awaiting_s4"
BY DEF Clock, Row, RowSet, Initial

LEMMA RowsTyped ==
    ASSUME DataTyped, NEW o \in Sessions
    PROVE  \A r \in RowsOf(o) :
              /\ r \in RowSet /\ r \in outbox /\ r.of = o
              /\ r.rev \in Nat /\ r.exp \in Nat
              /\ r.root \in {"compound", "alone"} /\ r.act \in {"create", "update"}
              /\ r.state \in {"awaiting_s4", "ready"}
BY DEF DataTyped, RowsOf, RowSet

LEMMA PersistStartStep ==
    ASSUME ProvInv, NEW p \in Procs, PersistStart(p)
    PROVE  ProvInv'
<1> USE InvParts DEF PersistStart
<1> DEFINE o == job[p].on
           R == {Create(o, ent, 1) : ent \in Initial(o, Planned)}
<1>1. /\ o \in Sessions /\ SpaceAt(p) = SpaceOf[o] /\ Shape(p) /\ Knows(p)
      /\ \A q \in Inside \ {p} : SpaceAt(q) # SpaceOf[o]
  BY AtClock DEF Clocked
<1>2. ses[o] = NoSession /\ prov[o] = "activating"
  BY <1>1 DEF Knows
<1>3. RowsOf(o) = {} /\ ~Committed(o) /\ o \notin receipts
  BY <1>1, <1>2, UnwrittenIsEmpty
<1>4. /\ ses'[o] = [rev |-> 1, clock |-> "running", ended |-> FALSE, mine |-> "local"]
      /\ plan'[o] = Planned
      /\ outbox' = outbox \cup R /\ Initial(o, Planned) \subseteq Initial(0, Items)
      /\ \A x \in Sessions \ {o} : ses'[x] = ses[x] /\ plan'[x] = plan[x]
  BY <1>1 DEF DataTyped, Initial, Items
<1>5. \A r \in R : /\ r \in RowSet /\ r.of = o /\ r.ent \in Initial(o, Planned)
                   /\ r = Create(o, r.ent, 1)
                   /\ r.act = "create" /\ r.exp = 0 /\ r.rev = 1 /\ r.root = "compound"
                   /\ r.state = "awaiting_s4"
  BY <1>1, <1>4, RowFields
<1>6. /\ RowsOf(o)' = R
      /\ \A x \in Sessions \ {o} : RowsOf(x)' = RowsOf(x)
  <2>1. \A r \in R : r.of \in Sessions
    BY <1>1, <1>5
  <2>2. RowsOf(o)' = RowsOf(o) \cup {r \in R : r.of = o}
    BY <1>4, <2>1, AddedRows
  <2>3. ASSUME NEW x \in Sessions \ {o} PROVE RowsOf(x)' = RowsOf(x) \cup {r \in R : r.of = x}
    BY <1>4, <2>1, AddedRows
  <2> HIDE DEF R, o
  <2>4. {r \in R : r.of = o} = R
    BY <1>5
  <2>5. ASSUME NEW x \in Sessions \ {o} PROVE {r \in R : r.of = x} = {}
    BY <1>5
  <2>6. RowsOf(o)' = R
    BY <1>3, <2>2, <2>4
  <2>7. ASSUME NEW x \in Sessions \ {o} PROVE RowsOf(x)' = RowsOf(x)
    BY <2>3, <2>5
  <2> QED BY <2>6, <2>7
<1>7. DataTyped'
  <2>1. ses' \in [Sessions -> [rev : Nat, clock : {"none", "running", "paused", "ended"},
                               ended : BOOLEAN, mine : {"none", "local", "authoritative"}]]
    BY <1>1 DEF DataTyped
  <2>2. plan' \in [Sessions -> SUBSET Items]
    BY <1>1 DEF DataTyped, Items
  <2>3. outbox' \subseteq RowSet
    <3> HIDE DEF R
    <3> QED BY <1>4, <1>5 DEF DataTyped
  <2> QED BY <2>1, <2>2, <2>3 DEF DataTyped, meta
<1>8. Sound(o)'
  <2> HIDE DEF R
  <2>1. /\ Compound(o)' = R /\ Single(o)' = {}
        /\ Local(o)' /\ ~Committed(o)' /\ Keys(o)' = Initial(o, Planned)
        /\ prov'[o] = "activating" /\ ses'[o].rev = 1
    BY <1>2, <1>3, <1>4, <1>5, <1>6 DEF Compound, Single, Local, Committed, Keys, meta
  <2>2. ~Admitted(o)' /\ ~Overwritten(o)'
    BY <1>5, <1>6, <2>1 DEF Admitted, Overwritten, OnSession
  <2>3. \A e \in Initial(o, Planned) : \E r \in R : r.ent = e
    <3>1. ASSUME NEW e \in Initial(o, Planned)
          PROVE Create(o, e, 1) \in R /\ Create(o, e, 1).ent = e
      BY <1>1, <1>4, <3>1, RowFields DEF R
    <3> QED BY <3>1
  <2>4. Born(o)'
    BY <1>3, <1>4, <2>1, DeviceAssumption DEF Born, Blocking, meta
  <2>5. Authorised(o)'
    BY <2>1, <2>2 DEF Authorised, Answering
  <2>6. Listed(o)'
    <3>1. "context" \in Initial(o, Planned)
      BY DEF Initial
    <3> QED BY <1>5, <1>6, <2>1, <2>3, <3>1 DEF Listed
  <2>7. Late(o)'
    BY <2>2 DEF Late
  <2>8. Created(o)'
    BY <1>5, <2>1, <2>3 DEF Created
  <2>9. Chained(o)'
    <3>1. imported'[o] = 0
      BY <1>1, <1>3 DEF DataTyped, Committed
    <3>2. Unserved(o)' = 2
      BY <2>1 DEF Unserved
    <3> QED BY <2>1, <3>1, <3>2 DEF Chained
  <2> QED BY <2>4, <2>5, <2>6, <2>7, <2>8, <2>9 DEF Sound, Whole
<1>9. \A x \in Sessions : Sound(x)'
  <2>1. OnlyOf(o)
    BY <1>4, <1>6 DEF OnlyOf, Untouched, meta
  <2> QED BY <1>1, <1>8, <2>1, OneSessionStep
<1>10. OneBlocking'
  BY BlockingStays DEF meta
<1>11. /\ TasksTyped' /\ pc'[p] = "settle"
       /\ \A q \in Procs \ {p} : pc'[q] = pc[q] /\ job'[q] = job[q]
  BY GotoTask DEF Labels
<1>12. Shape(p)' /\ Knows(p)' /\ SpaceAt(p)' = SpaceOf[o]
  BY <1>1, <1>11 DEF Shape, Knows, SpaceAt, Clocked, Syncing
<1>13. ByHolder(p, SpaceOf[o])
  BY <1>1, <1>4, <1>11 DEF ByHolder, meta
<1>14. Tasks' /\ Fenced'
  BY <1>12, <1>13, HolderStep
<1> QED BY <1>7, <1>9, <1>10, <1>11, <1>14, InvNext
\* Nothing is ready of a session whose operation blocks.
LEMMA OpenRows ==
    ASSUME NEW o \in Sessions, Sound(o), prov[o] \in Blocking
    PROVE  ~Committed(o) /\ \A r \in RowsOf(o) : r.state # "ready"
BY BlockingIsOpen DEF Admitted

SessionRow == [rev : Nat, clock : {"none", "running", "paused", "ended"},
               ended : BOOLEAN, mine : {"none", "local", "authoritative"}]

\* A clock row is added at the next revision.
LEMMA ClockMoved ==
    ASSUME DataTyped, NEW o \in Sessions, Sound(o), Local(o), prov[o] = "pending",
           NEW n, n = ses[o].rev + 1, NEW c, c \in RowSet, c.ent = "session", c.act = "update",
           c.exp = n - 1, c.rev = n, c.root = "alone", c.state = "awaiting_s4",
           RowsOf(o)' = RowsOf(o) \cup {c}, ses'[o].rev = n, ses'[o].mine = "local",
           prov' = prov, plan' = plan, imported' = imported, receipts' = receipts
    PROVE  Sound(o)'
<1>1. ses[o].rev \in Nat /\ ses[o].rev > 0 /\ n \in Nat \ {0} /\ imported[o] \in Nat
  BY DEF DataTyped, Sound, Born
<1>2. ~Committed(o) /\ \A r \in RowsOf(o) : r.state # "ready"
  BY OpenRows DEF Blocking
<1>3. /\ Compound(o)' = Compound(o) /\ Single(o)' = Single(o) \cup {c}
      /\ OnSession(o)' = OnSession(o) \cup {c}
  BY DEF Compound, Single, OnSession
<1>4. Local(o)' /\ ~Committed(o)' /\ Keys(o)' = Keys(o)
  BY <1>2 DEF Local, Committed, Keys
<1>5. ~Admitted(o)'
  BY <1>2, <1>4 DEF Admitted
<1>6. Overwritten(o)' <=> Overwritten(o)
  BY <1>1, <1>3 DEF Overwritten
<1>7. Born(o)'
  BY <1>1, <1>4 DEF Sound, Born, Local, Blocking
<1>8. Authorised(o)'
  BY <1>4, <1>5 DEF Authorised, Answering
<1>9. Listed(o)'
  <2>1. \A r \in RowsOf(o) : r.rev \in Nat
    BY RowsTyped
  <2> QED BY <1>1, <1>2, <1>3, <1>4, <2>1 DEF Sound, Listed
<1>10. Late(o)'
  BY <1>3, <1>5, <1>6 DEF Sound, Late
<1>11. Whole(o)'
  <2>1. SUFFICES ASSUME ~Overwritten(o) PROVE Created(o)' /\ Chained(o)'
    BY <1>4, <1>6 DEF Whole
  <2>2. Created(o) /\ Chained(o)
    BY <1>2, <2>1 DEF Sound, Whole
  <2>3. Created(o)'
    BY <1>3, <1>4, <2>2 DEF Created
  <2>4. Unserved(o) = 2 /\ Unserved(o)' = 2
    BY <1>2, <1>4 DEF Unserved
  <2>5. \A r \in Single(o) : r.rev \in Nat /\ r.rev \in 2..ses[o].rev /\ r.exp = r.rev - 1
    BY <2>2, <2>4, RowsTyped DEF Chained, Single
  <2>6. \A r \in Single(o)' : r.rev \in 2..n /\ r.exp = r.rev - 1
    BY <1>1, <1>3, <2>5
  <2>7. \A m \in 2..n : \E r \in Single(o)' : r.rev = m
    <3>1. ASSUME NEW m \in 2..n PROVE \E r \in Single(o) \cup {c} : r.rev = m
      <4>1. CASE m = n BY <4>1
      <4>2. CASE m # n
        <5>1. m \in 2..ses[o].rev BY <1>1, <4>2
        <5> QED BY <2>2, <2>4, <5>1 DEF Chained
      <4> QED BY <4>1, <4>2
    <3> QED BY <1>3, <3>1
  <2>8. \A r, x \in Single(o)' : r.rev = x.rev => r = x
    <3>1. \A r \in Single(o) : r.rev # n
      BY <1>1, <2>5
    <3> QED BY <1>3, <2>2, <3>1 DEF Chained
  <2>9. imported'[o] <= ses'[o].rev
    BY <1>1, <2>2 DEF Chained
  <2> QED BY <2>3, <2>4, <2>6, <2>7, <2>8, <2>9 DEF Chained
<1> QED BY <1>7, <1>8, <1>9, <1>10, <1>11 DEF Sound

\* What a change of the clock makes of the session's row.
LEMMA AfterFields ==
    ASSUME NEW t \in SessionRow, NEW kind \in Edits
    PROVE  /\ After(t, kind) \in SessionRow
           /\ After(t, kind).rev = t.rev + 1 /\ After(t, kind).mine = t.mine
           /\ kind = "end" => After(t, kind).ended
<1> DEFINE u == [t EXCEPT !.rev = @ + 1]
<1>1. u \in SessionRow /\ u.rev = t.rev + 1 /\ u.mine = t.mine
  BY DEF SessionRow
<1>2. CASE kind = "pause"
  <2> DEFINE v == [u EXCEPT !.clock = "paused"]
  <2>1. After(t, kind) = v
    BY <1>2 DEF After
  <2> HIDE DEF u
  <2>2. v \in SessionRow /\ v.rev = u.rev /\ v.mine = u.mine
    BY <1>1 DEF SessionRow
  <2> QED BY <1>1, <1>2, <2>1, <2>2
<1>3. CASE kind = "resume"
  <2> DEFINE v == [u EXCEPT !.clock = "running"]
  <2>1. After(t, kind) = v
    BY <1>3 DEF After
  <2> HIDE DEF u
  <2>2. v \in SessionRow /\ v.rev = u.rev /\ v.mine = u.mine
    BY <1>1 DEF SessionRow
  <2> QED BY <1>1, <1>3, <2>1, <2>2
<1>4. CASE kind = "end"
  <2> DEFINE v == [u EXCEPT !.clock = "ended"]
             w == [v EXCEPT !.ended = TRUE]
  <2>1. After(t, kind) = w
    BY <1>4 DEF After
  <2> HIDE DEF u
  <2>2. v \in SessionRow /\ v.rev = u.rev /\ v.mine = u.mine
    BY <1>1 DEF SessionRow
  <2> HIDE DEF v
  <2>3. w \in SessionRow /\ w.rev = v.rev /\ w.mine = v.mine /\ w.ended
    BY <2>2 DEF SessionRow
  <2> QED BY <1>1, <2>1, <2>2, <2>3
<1> QED BY <1>2, <1>3, <1>4 DEF Edits
\* A row is added to the outbox of one session.
LEMMA OneRowMore ==
    ASSUME NEW o, NEW c, c.of = o, outbox' = outbox \cup {c}
    PROVE  /\ RowsOf(o)' = RowsOf(o) \cup {c}
           /\ \A x \in Sessions \ {o} : RowsOf(x)' = RowsOf(x)
BY DEF RowsOf

LEMMA MoveClockStep ==
    ASSUME ProvInv, NEW p \in Procs, MoveClock(p)
    PROVE  ProvInv'
<1>1. PICK o \in Sessions, kind \in Edits : o = job[p].on /\ kind = job[p].kind
  BY InvParts DEF MoveClock, Entered, Tasks, Shape, Edits
<1>2. /\ Shape(p) /\ \A q \in Inside : SpaceAt(q) # SpaceOf[o]
  BY <1>1, InvParts, FreeIsEmpty DEF MoveClock, Entered, Tasks
<1>3. PICK n : n = ses[o].rev + 1
  OBVIOUS
<1>4. PICK c : c = Clock(o, n)
  OBVIOUS
<1>5. Local(o) /\ prov[o] = "pending" /\ Sound(o)
  BY <1>1, InvParts DEF MoveClock, OwnedBy, Local
<1>6. ses[o] \in SessionRow /\ n \in Nat \ {0}
  BY <1>3, InvParts DEF DataTyped, SessionRow
<1>7. /\ ses' = [ses EXCEPT ![o] = After(ses[o], kind)] /\ outbox' = outbox \cup {c}
      /\ IF kind = "end" THEN Goto(p, "retire") /\ UNCHANGED job ELSE Exit(p)
      /\ UNCHANGED <<meta, plan, marker, receipts, imported, served, faults>>
  BY <1>1, <1>3, <1>4 DEF MoveClock, AppendClock
<1>8. /\ c \in RowSet /\ c.of = o /\ c.ent = "session" /\ c.act = "update" /\ c.exp = n - 1
      /\ c.rev = n /\ c.root = "alone" /\ c.state = "awaiting_s4"
  BY <1>6, <1>4, ClockFields
<1>9. /\ After(ses[o], kind) \in SessionRow
      /\ After(ses[o], kind).rev = n /\ After(ses[o], kind).mine = "local"
      /\ kind = "end" => After(ses[o], kind).ended
  BY <1>5, <1>6, <1>3, AfterFields DEF Local
<1>10. /\ ses'[o].rev = n /\ ses'[o].mine = "local" /\ (kind = "end" => ses'[o].ended)
      /\ \A x \in Sessions \ {o} : ses'[x] = ses[x]
  BY <1>2, <1>7, <1>9, InvParts DEF DataTyped
<1>11. DataTyped'
  <2>1. ses' \in [Sessions -> SessionRow]
    BY <1>7, <1>9, InvParts DEF DataTyped, SessionRow
  <2>2. outbox' \subseteq RowSet
    BY <1>7, <1>8, InvParts DEF DataTyped
  <2> QED BY <1>7, <2>1, <2>2, InvParts DEF DataTyped, meta, SessionRow
<1>12. /\ RowsOf(o)' = RowsOf(o) \cup {c}
      /\ \A x \in Sessions \ {o} : RowsOf(x)' = RowsOf(x)
  BY <1>7, <1>8, OneRowMore
<1>13. Sound(o)'
  BY <1>5, <1>7, <1>8, <1>10, <1>12, <1>3, ClockMoved, InvParts DEF meta
<1>14. \A x \in Sessions : Sound(x)'
  <2>1. OnlyOf(o)
    BY <1>7, <1>10, <1>12 DEF OnlyOf, Untouched, meta
  <2> QED BY <1>2, <1>13, <2>1, OneSessionStep, InvParts
<1>15. OneBlocking'
  BY <1>7, BlockingStays, InvParts DEF meta
<1>16. \A q \in Procs \ {p} : pc'[q] = pc[q] /\ job'[q] = job[q]
  BY <1>7, GotoTask, ExitTask, InvParts DEF Labels
<1>17. ByHolder(p, SpaceOf[o])
  BY <1>2, <1>7, <1>10, <1>16 DEF ByHolder, meta
<1>18. CASE kind = "end"
  <2>1. TasksTyped' /\ pc'[p] = "retire" /\ job' = job
    BY <1>7, <1>18, GotoTask, InvParts DEF Labels
  <2>2. Shape(p)' /\ Knows(p)' /\ SpaceAt(p)' = SpaceOf[o]
    BY <1>1, <1>2, <1>10, <1>18, <2>1 DEF Shape, Knows, SpaceAt, Clocked, Syncing
  <2>3. Tasks' /\ Fenced'
    BY <1>17, <2>2, HolderStep, InvParts
  <2> QED BY <1>11, <1>14, <1>15, <2>1, <2>3, InvNext
<1>19. CASE kind # "end"
  <2>1. TasksTyped' /\ Shape(p)' /\ Knows(p)' /\ p \notin Inside'
    BY <1>7, <1>19, ExitTask, InvParts
  <2>2. Tasks' /\ Fenced'
    BY <1>17, <2>1, HolderStep, InvParts
  <2> QED BY <1>11, <1>14, <1>15, <2>1, <2>2, InvNext
<1> QED BY <1>18, <1>19
\* A task that waits for nothing edits a session under its fence.
LEMMA EditStep ==
    ASSUME ProvInv, NEW o \in Sessions, outbox' \subseteq RowSet,
           plan' \in [Sessions -> SUBSET Items],
           UNCHANGED <<meta, ses, marker, receipts, imported, served, pc, job, faults>>,
           OnlyOf(o), Sound(o)'
    PROVE  ProvInv'
<1>1. DataTyped' /\ TasksTyped'
  BY InvParts DEF DataTyped, TasksTyped, JobsTyped, meta
<1>2. Tasks' /\ Fenced'
  <2>1. \A q \in Procs : Shape(q)' /\ Knows(q)'
    BY InvParts DEF Tasks, Shape, Knows, meta
  <2>2. Inside' = Inside /\ \A q \in Inside : SpaceAt(q)' = SpaceAt(q)
    BY DEF Inside, SpaceAt
  <2>3. Fenced'
    BY <2>2, InvParts DEF Fenced
  <2> QED BY <2>1, <2>3 DEF Tasks
<1>3. OneBlocking'
  BY InvParts, BlockingStays DEF meta
<1>4. \A x \in Sessions : Sound(x)'
  BY InvParts, OneSessionStep
<1> QED BY <1>1, <1>2, <1>3, <1>4, InvNext

\* A plan item is added with its create row.
LEMMA PlanItemAdded ==
    ASSUME DataTyped, NEW o \in Sessions, Sound(o), Local(o), prov[o] = "pending",
           NEW i, i \in Extra, i \notin plan[o], NEW c, c \in RowSet, c.of = o, c.ent = i,
           c.act = "create", c.exp = 0, c.root = "compound", c.state = "awaiting_s4",
           RowsOf(o)' = RowsOf(o) \cup {c}, plan'[o] = plan[o] \cup {i},
           prov' = prov, ses' = ses, imported' = imported, receipts' = receipts
    PROVE  Sound(o)'
<1>1. i \notin {"session", "context", "attribution"}
  BY DeviceAssumption
<1>2. ~Committed(o) /\ \A r \in RowsOf(o) : r.state # "ready"
  BY OpenRows DEF Blocking
<1>3. /\ Compound(o)' = Compound(o) \cup {c} /\ Single(o)' = Single(o)
      /\ OnSession(o)' = OnSession(o)
  BY <1>1 DEF Compound, Single, OnSession
<1>4. Local(o)' /\ ~Committed(o)' /\ Keys(o)' = Keys(o) \cup {i} /\ i \notin Keys(o)
  BY <1>1, <1>2 DEF Local, Committed, Keys, Initial
<1>5. ~Admitted(o)'
  BY <1>2, <1>4 DEF Admitted
<1>6. Overwritten(o)' <=> Overwritten(o)
  BY <1>3 DEF Overwritten
<1>7. Born(o)'
  <2>1. IsFiniteSet(plan'[o])
    BY FS_AddElement DEF Sound, Born
  <2> QED BY <1>4, <2>1 DEF Sound, Born, Local, Live, Blocking
<1>8. Authorised(o)'
  BY <1>4, <1>5 DEF Authorised, Answering
<1>9. Listed(o)'
  BY <1>1, <1>2, <1>3, <1>4 DEF Sound, Listed
<1>10. Late(o)'
  BY <1>3, <1>5, <1>6 DEF Sound, Late
<1>11. Whole(o)'
  <2>1. SUFFICES ASSUME ~Overwritten(o) PROVE Created(o)' /\ Chained(o)'
    BY <1>4, <1>6 DEF Whole
  <2>2. Created(o) /\ Chained(o)
    BY <1>2, <2>1 DEF Sound, Whole
  <2>3. Created(o)'
    BY <1>3, <1>4, <2>2 DEF Created
  <2>4. Unserved(o)' = Unserved(o)
    BY <1>2, <1>4 DEF Unserved
  <2> QED BY <1>3, <2>2, <2>3, <2>4 DEF Chained
<1> QED BY <1>7, <1>8, <1>9, <1>10, <1>11 DEF Sound

LEMMA AddPlanItemStep ==
    ASSUME ProvInv, NEW p \in Procs, NEW o \in Sessions, NEW i \in Extra, AddPlanItem(p, o, i)
    PROVE  ProvInv'
<1>1. Local(o) /\ prov[o] = "pending" /\ Sound(o) /\ DataTyped
  BY InvParts DEF AddPlanItem, Editable, OwnedBy, Local
<1>2. PICK c : c = Create(o, i, 0)
  OBVIOUS
<1>3. /\ c \in RowSet /\ c.of = o /\ c.ent = i /\ c.act = "create" /\ c.exp = 0
      /\ c.root = "compound" /\ c.state = "awaiting_s4"
  <2>1. i \in Initial(0, Items)
    BY DEF Initial, Items
  <2> QED BY <1>2, <2>1, RowFields
<1>4. /\ outbox' = outbox \cup {c} /\ i \notin plan[o]
      /\ plan' = [plan EXCEPT ![o] = @ \cup {i}]
      /\ UNCHANGED <<meta, ses, marker, receipts, imported, served, pc, job, faults>>
  BY <1>2 DEF AddPlanItem
<1>5. /\ plan' \in [Sessions -> SUBSET Items] /\ plan'[o] = plan[o] \cup {i}
      /\ \A x \in Sessions \ {o} : plan'[x] = plan[x]
  BY <1>1, <1>4 DEF DataTyped, Items
<1>6. /\ RowsOf(o)' = RowsOf(o) \cup {c}
      /\ \A x \in Sessions \ {o} : RowsOf(x)' = RowsOf(x)
  BY <1>3, <1>4, OneRowMore
<1>7. Sound(o)'
  BY <1>1, <1>3, <1>4, <1>5, <1>6, PlanItemAdded DEF meta
<1>8. OnlyOf(o) /\ outbox' \subseteq RowSet
  BY <1>1, <1>3, <1>4, <1>5, <1>6 DEF OnlyOf, Untouched, meta, DataTyped
<1> QED BY <1>4, <1>5, <1>7, <1>8, EditStep

----------------------------------------------------------------------------
(* The row an edited note is merged into *)

Less == {ss \in Nat \X Nat : ss[1] < ss[2]}

\* A set of naturals has a smallest element,
LEMMA Smallest ==
    ASSUME NEW S \in SUBSET Nat, S # {}
    PROVE  \E x \in S : \A y \in S : x <= y
<1>1. IsWellFoundedOn(Less, Nat)
  BY NatLessThanWellFounded DEF OpToRel, Less
<1>2. PICK x \in S : \A y \in S : ~(<<y, x>> \in Less)
  BY <1>1, WFMin
<1>3. \A a, b \in Nat : <<b, a>> \in Less <=> b < a
  BY DEF Less
<1>4. ASSUME NEW y \in S PROVE x <= y
  <2>1. x \in Nat /\ y \in Nat /\ ~(y < x)
    BY <1>2, <1>3
  <2> QED BY <2>1
<1> QED BY <1>4

\* and a bounded one a largest.
LEMMA Largest ==
    ASSUME NEW S, NEW n \in Nat, S \subseteq 0..n, S # {}
    PROVE  \E x \in S : \A y \in S : y <= x
<1> DEFINE T == {n - y : y \in S}
<1>1. T \in SUBSET Nat /\ T # {}
  <2>1. \A y \in S : n - y \in Nat
    OBVIOUS
  <2> QED BY <2>1
<1>2. PICK t \in T : \A u \in T : t <= u
  BY <1>1, Smallest
<1>3. PICK x \in S : t = n - x
  OBVIOUS
<1>4. \A y \in S : n - x <= n - y
  BY <1>2, <1>3
<1> QED BY <1>4

\* The latest row of a session, and the one that is found first.
LEMMA LatestRow ==
    ASSUME DataTyped, NEW o \in Sessions, Sound(o), OnSession(o) # {}
    PROVE  /\ Latest(OnSession(o)) \in OnSession(o) /\ First(OnSession(o)) \in OnSession(o)
           /\ \A r \in OnSession(o) : r.rev <= Latest(OnSession(o)).rev
           /\ (\E r \in OnSession(o) : r.act = "create") => First(OnSession(o)).act = "create"
<1> DEFINE S == OnSession(o)
<1>1. ses[o].rev \in Nat
  BY DEF DataTyped
<1>2. \A r \in S : r.rev \in 0..ses[o].rev
  BY <1>1, RowsTyped DEF Sound, Listed, OnSession
<1> HIDE DEF S
<1> DEFINE V == {r.rev : r \in S}
<1>3. V \subseteq 0..ses[o].rev /\ V # {}
  BY <1>2 DEF S
<1>4. PICK v \in V : \A w \in V : w <= v
  <2> HIDE DEF V
  <2> QED BY <1>1, <1>3, Largest
<1>5. \E r \in S : \A x \in S : x.rev <= r.rev
  BY <1>4
<1>6. Latest(S) \in S /\ \A r \in S : r.rev <= Latest(S).rev
  BY <1>5 DEF Latest
<1>7. First(S) \in S /\ ((\E r \in S : r.act = "create") => First(S).act = "create")
  BY <1>6 DEF First
<1> QED BY <1>6, <1>7 DEF S
\* The row that a note leaves: it is the only one of the session, and unless it
\* is the create row itself it has lost what it was based on.
LEMMA MergedRow ==
    ASSUME DataTyped, NEW o \in Sessions, Sound(o), prov[o] = "pending", Local(o),
           OnSession(o) # {}
    PROVE  \E c \in RowSet :
              /\ MergeNote(o) = (outbox \ OnSession(o)) \cup {c}
              /\ c.of = o /\ c.ent = "session" /\ c.exp = 0 /\ c.state = "awaiting_s4"
              /\ c.rev > 0 /\ c.rev <= ses[o].rev
              /\ c.act = "update" \/ OnSession(o) = {c}
<1> DEFINE S == OnSession(o)
<1>1. PICK L \in S, F \in S :
         /\ L = Latest(S) /\ F = First(S) /\ \A r \in S : r.rev <= L.rev
         /\ (\E r \in S : r.act = "create") => F.act = "create"
  BY LatestRow
<1>2. \A r \in S : /\ r \in RowSet /\ r.of = o /\ r.ent = "session" /\ r \in RowsOf(o)
                   /\ r.rev \in Nat /\ r.rev > 0 /\ r.rev <= ses[o].rev
                   /\ r.state = "awaiting_s4" /\ r.root \in {"compound", "alone"}
                   /\ r.act \in {"create", "update"}
  BY RowsTyped, OpenRows DEF OnSession, Sound, Listed, Blocking
<1>3. PICK d : d = [L EXCEPT !.exp = 0]
  OBVIOUS
<1>4. /\ d \in RowSet /\ d.of = o /\ d.ent = "session" /\ d.exp = 0 /\ d.act = L.act
      /\ d.rev = L.rev /\ d.state = "awaiting_s4"
  BY <1>1, <1>2, <1>3 DEF RowSet
<1>5. PICK c : c = [d EXCEPT !.root = F.root]
  OBVIOUS
<1>6. /\ c \in RowSet /\ c.of = o /\ c.ent = "session" /\ c.exp = 0 /\ c.act = L.act
      /\ c.rev = L.rev /\ c.state = "awaiting_s4" /\ c.root = F.root
  BY <1>1, <1>2, <1>4, <1>5 DEF RowSet
<1>7. MergeNote(o) = (outbox \ S) \cup {c}
  <2>1. c = [L EXCEPT !.exp = 0, !.root = F.root]
    BY <1>3, <1>5
  <2> QED BY <1>1, <2>1 DEF MergeNote
<1>8. CASE L.act = "update"
  BY <1>1, <1>2, <1>6, <1>7, <1>8
<1>9. CASE L.act = "create"
  <2>1. L.rev = 1 /\ L.root = "compound" /\ L \in Compound(o)
    BY <1>1, <1>2, <1>9 DEF Sound, Listed, Compound
  <2>2. ~Overwritten(o) /\ ~Committed(o)
    BY <1>1, <1>9, OpenRows DEF Sound, Late, Blocking
  <2>3. Created(o) /\ Chained(o) /\ Unserved(o) = 2
    BY <2>2 DEF Sound, Whole, Unserved
  <2>4. ASSUME NEW r \in S PROVE r = L
    <3>1. r.rev <= 1 /\ r \in RowsOf(o) /\ r.rev \in Nat
      BY <1>1, <1>2, <2>1
    <3>2. CASE r.root = "alone"
      <4>1. r \in Single(o)
        BY <3>1, <3>2 DEF Single
      <4>2. r.rev \in 2..ses[o].rev
        BY <2>3, <4>1 DEF Chained
      <4>3. ses[o].rev \in Nat
        BY DEF DataTyped
      <4> QED BY <3>1, <4>2, <4>3
    <3>3. CASE r.root = "compound"
      <4>1. r \in Compound(o)
        BY <3>1, <3>3 DEF Compound
      <4> QED BY <1>1, <1>2, <2>1, <2>3, <4>1 DEF Created
    <3> QED BY <1>2, <3>2, <3>3
  <2>5. F = L /\ L.exp = 0 /\ L \in RowSet
    BY <1>1, <1>2, <2>1, <2>3, <2>4 DEF Created
  <2>6. d = L
    BY <1>3, <2>5 DEF RowSet
  <2>7. c = L
    BY <1>5, <2>5, <2>6 DEF RowSet
  <2>8. S = {c}
    BY <1>1, <2>4, <2>7
  <2> QED BY <1>1, <1>2, <1>6, <1>7, <2>8
<1> QED BY <1>1, <1>2, <1>8, <1>9

\* The session of a late note is one that is never admitted.
LEMMA NoteMerged ==
    ASSUME DataTyped, NEW o \in Sessions, Sound(o), Local(o), prov[o] = "pending",
           NEW c, c \in RowSet, c.of = o, c.ent = "session", c.act = "update", c.exp = 0,
           c.state = "awaiting_s4", c.rev > 0, c.rev <= ses[o].rev,
           RowsOf(o)' = (RowsOf(o) \ OnSession(o)) \cup {c},
           prov' = prov, ses' = ses, imported' = imported, receipts' = receipts, plan' = plan
    PROVE  Sound(o)'
<1>1. ~Committed(o) /\ \A r \in RowsOf(o) : r.state # "ready"
  BY OpenRows DEF Blocking
<1>2. OnSession(o)' = {c}
  BY DEF OnSession
<1>3. Local(o)' /\ ~Committed(o)'
  BY <1>1 DEF Local, Committed
<1>4. ~Admitted(o)'
  BY <1>1, <1>3 DEF Admitted
<1>5. Overwritten(o)'
  BY <1>2 DEF Overwritten
<1>6. Born(o)'
  BY <1>3 DEF Sound, Born, Local, Live, Blocking
<1>7. Authorised(o)'
  BY <1>3, <1>4 DEF Authorised, Answering
<1>8. Listed(o)'
  <2>1. PICK r \in Compound(o) : r.ent = "context"
    BY <1>1 DEF Sound, Listed
  <2>2. r \in Compound(o)'
    BY <2>1 DEF Compound, OnSession
  <2>3. \A x \in RowsOf(o)' : x = c \/ x \in RowsOf(o)
    OBVIOUS
  <2> QED BY <2>1, <2>2, <2>3 DEF Sound, Listed
<1>9. Late(o)'
  BY <1>2, <1>4 DEF Late
<1>10. Whole(o)'
  BY <1>5 DEF Whole
<1> QED BY <1>6, <1>7, <1>8, <1>9, <1>10 DEF Sound

LEMMA EditNoteStep ==
    ASSUME ProvInv, NEW p \in Procs, NEW o \in Sessions, EditNote(p, o)
    PROVE  ProvInv'
<1>1. Local(o) /\ prov[o] = "pending" /\ Sound(o) /\ DataTyped /\ OnSession(o) # {}
  BY InvParts DEF EditNote, Editable, OwnedBy, Local
<1>2. /\ outbox' = MergeNote(o)
      /\ UNCHANGED <<meta, ses, plan, marker, receipts, imported, served, pc, job, faults>>
  BY DEF EditNote
<1>3. PICK c \in RowSet :
         /\ outbox' = (outbox \ OnSession(o)) \cup {c}
         /\ c.of = o /\ c.ent = "session" /\ c.exp = 0 /\ c.state = "awaiting_s4"
         /\ c.rev > 0 /\ c.rev <= ses[o].rev
         /\ c.act = "update" \/ OnSession(o) = {c}
  BY <1>1, <1>2, MergedRow
<1>4. outbox' \subseteq RowSet /\ plan' \in [Sessions -> SUBSET Items]
  BY <1>1, <1>2, <1>3 DEF DataTyped
<1>5. CASE OnSession(o) = {c}
  <2>1. outbox' = outbox
    BY <1>3, <1>5 DEF OnSession, RowsOf
  <2>2. \A x \in Sessions : Untouched(x)
    BY <1>2, <2>1 DEF Untouched, RowsOf, meta
  <2>3. OnlyOf(o) /\ Sound(o)'
    BY <1>1, <2>2, UntouchedIsSound DEF OnlyOf
  <2> QED BY <1>2, <1>4, <2>3, EditStep
<1>6. CASE c.act = "update"
  <2>1. RowsOf(o)' = (RowsOf(o) \ OnSession(o)) \cup {c}
    BY <1>3 DEF RowsOf, OnSession
  <2>2. ASSUME NEW x \in Sessions \ {o} PROVE RowsOf(x)' = RowsOf(x)
    BY <1>3 DEF RowsOf, OnSession
  <2>3. Sound(o)'
    BY <1>1, <1>2, <1>3, <1>6, <2>1, NoteMerged DEF meta
  <2>4. OnlyOf(o)
    BY <1>2, <2>2 DEF OnlyOf, Untouched, meta
  <2> QED BY <1>2, <1>4, <2>3, <2>4, EditStep
<1> QED BY <1>3, <1>5, <1>6

----------------------------------------------------------------------------
(* The answer to an activation *)

LEMMA AbsorbStep ==
    ASSUME ProvInv, NEW p \in Procs, Absorb(p)
    PROVE  ProvInv'
<1>0. PICK o \in Sessions : o = job[p].on
  BY InvParts, AtClock DEF Absorb, Clocked
<1>1. /\ SpaceAt(p) = SpaceOf[o] /\ Shape(p) /\ Knows(p)
      /\ \A q \in Inside \ {p} : SpaceAt(q) # SpaceOf[o]
  BY <1>0, InvParts, AtClock DEF Absorb, Clocked
<1>2. prov[o] = "activating" /\ ses[o].mine # "none" /\ Sound(o) /\ DataTyped
  BY <1>0, <1>1, InvParts DEF Absorb, Knows
<1>3. ~Admitted(o) /\ ~Committed(o)
  BY <1>2, BlockingIsOpen DEF Blocking
<1>4. CASE /\ ses' = [ses EXCEPT ![o].mine = "authoritative"]
           /\ outbox' = outbox \ RowsOf(o)
           /\ receipts' = receipts \cup {o}
           /\ Goto(p, "resolve") /\ UNCHANGED <<prov, job>>
  <2>1. /\ ses'[o] \in SessionRow /\ ses'[o].mine = "authoritative"
        /\ \A x \in Sessions \ {o} : ses'[x] = ses[x]
        /\ ses' \in [Sessions -> SessionRow]
    BY <1>2, <1>4 DEF DataTyped, SessionRow
  <2>2. RowsOf(o)' = {} /\ \A x \in Sessions \ {o} : RowsOf(x)' = RowsOf(x)
    BY <1>4 DEF RowsOf
  <2>3. UNCHANGED <<owner, plan, marker, imported, served, faults>>
    BY DEF Absorb
  <2>4. DataTyped'
    <3>1. outbox' \subseteq RowSet /\ receipts' \subseteq Sessions
      BY <1>2, <1>4 DEF DataTyped
    <3> QED BY <1>2, <1>4, <2>1, <2>3, <3>1 DEF DataTyped, SessionRow
  <2>5. Sound(o)'
    <3>1. /\ Compound(o)' = {} /\ OnSession(o)' = {} /\ ~Local(o)' /\ ~Live(o)'
          /\ ~Committed(o)'
      BY <1>3, <2>1, <2>2, <2>3 DEF Compound, OnSession, Local, Live, Committed
    <3>2. ~Admitted(o)' /\ ~Overwritten(o)'
      BY <2>2, <3>1 DEF Admitted, Overwritten
    <3> QED BY <1>2, <2>1, <2>2, <2>3, <3>1, <3>2
            DEF Sound, Born, Authorised, Listed, Late, Whole
  <2>6. \A x \in Sessions : Sound(x)'
    <3>1. OnlyOf(o)
      BY <1>4, <2>1, <2>2, <2>3 DEF OnlyOf, Untouched
    <3> QED BY <2>5, <3>1, OneSessionStep, InvParts
  <2>7. OneBlocking'
    BY <1>4, BlockingStays, InvParts
  <2>8. /\ TasksTyped' /\ pc'[p] = "resolve" /\ job' = job
        /\ \A q \in Procs \ {p} : pc'[q] = pc[q] /\ job'[q] = job[q]
    BY <1>4, GotoTask, InvParts DEF Labels
  <2>9. Shape(p)' /\ Knows(p)' /\ SpaceAt(p)' = SpaceOf[o]
    BY <1>0, <1>1, <2>1, <2>8 DEF Absorb, Shape, Knows, SpaceAt, Clocked, Syncing
  <2>10. ByHolder(p, SpaceOf[o])
    BY <1>1, <1>4, <2>1, <2>8 DEF ByHolder
  <2>11. Tasks' /\ Fenced'
    BY <2>9, <2>10, HolderStep, InvParts
  <2> QED BY <2>4, <2>6, <2>7, <2>8, <2>11, InvNext
<1>5. ASSUME NEW st \in {"pending", "conflict"}, Move(o, {"activating"}, st),
             Exit(p), UNCHANGED <<ses, outbox, receipts>>
      PROVE  ProvInv'
  <2>1. prov' = [prov EXCEPT ![o] = st] /\ prov[o] \in Blocking
    BY <1>2, <1>5 DEF Move, Blocking
  <2>2. st \in States /\ st \in Blocking /\ st \in Answering
    BY <1>5 DEF States, Blocking, Answering
  <2>3. UNCHANGED <<owner, space, imported, served>> /\ faults' \in Nat
    BY <1>2, <1>5 DEF Absorb, space, DataTyped
  <2> QED BY <1>1, <1>3, <1>5, <2>1, <2>2, <2>3, ClosingStep
<1> QED BY <1>0, <1>4, <1>5 DEF Absorb

----------------------------------------------------------------------------
(* The import *)

\* A step of a sync cycle that goes on.
LEMMA CycleStep ==
    ASSUME ProvInv, NEW p \in Procs, pc[p] \in Syncing, NEW here \in Syncing,
           NEW R \in SUBSET Sessions, Goto(p, here),
           job' = job \/ job' = [job EXCEPT ![p].todo = R],
           UNCHANGED <<meta, ses, plan, receipts, served, faults>>,
           outbox' \subseteq RowSet, imported' \in [Sessions -> Nat],
           marker' \in [Spaces -> [state : {"none", "failed", "meta_pending", "ready"},
                                   rows : SUBSET RowSet]],
           \A x \in Sessions : Sound(x)'
    PROVE  ProvInv'
<1>0. PICK s \in Spaces : s = job[p].on
  BY InvParts, AtSync
<1>1. /\ SpaceAt(p) = s /\ job[p].kind = "sync"
      /\ \A q \in Inside \ {p} : SpaceAt(q) # s
  BY <1>0, InvParts, AtSync
<1>2. here \in Labels
  BY DEF Syncing, Labels
<1>3. /\ TasksTyped' /\ pc'[p] = here /\ job'[p].kind = "sync" /\ job'[p].on = s
      /\ \A q \in Procs \ {p} : pc'[q] = pc[q] /\ job'[q] = job[q]
  BY <1>0, <1>1, <1>2, InvParts DEF TasksTyped, JobsTyped, Goto
<1>4. DataTyped'
  BY InvParts DEF DataTyped, meta
<1>5. OneBlocking'
  BY InvParts, BlockingStays DEF meta
<1>6. ByHolder(p, s)
  BY <1>1, <1>3, OthersKeepAll DEF meta
<1>7. Tasks' /\ Fenced'
  BY <1>3, <1>6, SyncGoesOn, InvParts
<1> QED BY <1>3, <1>4, <1>5, <1>7, InvNext

AsReady(r) == [r EXCEPT !.state = "ready"]

LEMMA ReadyFields ==
    ASSUME NEW r \in RowSet
    PROVE  /\ AsReady(r) \in RowSet /\ AsReady(r).of = r.of /\ AsReady(r).ent = r.ent
           /\ AsReady(r).act = r.act /\ AsReady(r).rev = r.rev /\ AsReady(r).exp = r.exp
           /\ AsReady(r).root = r.root /\ AsReady(r).state = "ready"
BY DEF AsReady, RowSet

\* All rows of a session are admitted together.
LEMMA SessionAdmitted ==
    ASSUME DataTyped, NEW o \in Sessions, Sound(o), RowsOf(o) # {},
           Compound(o) # {} => Held(o) /\ Expected(o),
           RowsOf(o)' = {AsReady(r) : r \in RowsOf(o)},
           UNCHANGED <<prov, ses, plan, imported, receipts>>
    PROVE  Sound(o)'
<1>1. /\ Local(o)' /\ Local(o) /\ (Committed(o)' <=> Committed(o)) /\ Keys(o)' = Keys(o)
      /\ (Live(o)' <=> Live(o)) /\ Unserved(o)' = Unserved(o)
  BY DEF Sound, Born, Local, Committed, Keys, Live, Unserved
<1>2. \A r \in RowsOf(o) : r \in RowSet
  BY RowsTyped
<1>3. ASSUME NEW t \in RowsOf(o)'
      PROVE  \E r \in RowsOf(o) : /\ t = AsReady(r) /\ t.ent = r.ent /\ t.act = r.act
                                  /\ t.rev = r.rev /\ t.exp = r.exp /\ t.root = r.root
                                  /\ t.state = "ready"
  BY <1>2, <1>3, ReadyFields
<1>4. ASSUME NEW r \in RowsOf(o)
      PROVE  /\ AsReady(r) \in RowsOf(o)' /\ AsReady(r).ent = r.ent
             /\ AsReady(r).root = r.root /\ AsReady(r).rev = r.rev
  BY <1>2, <1>4, ReadyFields
<1>5. prov[o] \in Past
  <2>1. CASE Committed(o)
    BY <2>1 DEF Sound, Authorised, Admitted
  <2>2. CASE ~Committed(o)
    <3>1. Expected(o)
      BY <1>1, <2>2 DEF Sound, Listed
    <3> QED BY <3>1 DEF Expected, Past
  <2> QED BY <2>1, <2>2
<1>6. ~Overwritten(o)
  <2>1. CASE Committed(o)
    BY <2>1 DEF Sound, Late, Admitted
  <2>2. CASE ~Committed(o)
    <3>1. Held(o)
      BY <1>1, <2>2 DEF Sound, Listed
    <3>2. PICK r \in Compound(o) : r.ent = "session"
      BY <3>1 DEF Held
    <3>3. r \in OnSession(o) /\ r.act = "create"
      BY <3>1, <3>2 DEF Held, Compound, OnSession
    <3> QED BY <3>3 DEF Sound, Late
  <2> QED BY <2>1, <2>2
<1>7. ~Overwritten(o)'
  <2>1. ASSUME NEW t \in RowsOf(o)', t.ent = "session", t.act = "update", t.exp = 0
        PROVE  FALSE
    <3>1. PICK r \in RowsOf(o) : r.ent = "session" /\ r.act = "update" /\ r.exp = 0
      BY <1>3, <2>1
    <3> QED BY <1>6, <3>1 DEF Overwritten, OnSession
  <2> QED BY <2>1 DEF Overwritten, OnSession
<1>8. Born(o)'
  BY <1>1 DEF Sound, Born
<1>9. Authorised(o)'
  <2>1. Compound(o)' # {} => Compound(o) # {}
    BY <1>3 DEF Compound
  <2>2. Compound(o)' # {} => prov'[o] \in Answering
    BY <2>1 DEF Sound, Authorised
  <2>3. \A r \in RowsOf(o)' : r.state = "ready"
    BY <1>3
  <2>4. Committed(o)' => Compound(o)' = {}
    BY <1>1, <2>1 DEF Sound, Authorised
  <2> QED BY <1>5, <2>2, <2>3, <2>4 DEF Authorised
<1>10. Listed(o)'
  <2>1. ASSUME NEW t \in RowsOf(o)'
        PROVE  /\ t.root = "alone" => t.ent = "session" /\ t.act = "update"
               /\ t.ent = "session" => t.rev > 0 /\ t.rev <= ses'[o].rev
               /\ t.ent = "session" /\ t.act = "create" => t.rev = 1 /\ t.root = "compound"
    <3>1. PICK r \in RowsOf(o) : /\ t.ent = r.ent /\ t.act = r.act
                                 /\ t.rev = r.rev /\ t.root = r.root
      BY <1>3
    <3> QED BY <3>1 DEF Sound, Listed
  <2>2. ASSUME ~Committed(o) PROVE \E r \in Compound(o)' : r.ent = "context"
    <3>1. PICK r \in Compound(o) : r.ent = "context"
      BY <1>1, <2>2 DEF Sound, Listed
    <3> QED BY <1>4, <3>1 DEF Compound
  <2> QED BY <1>1, <2>1, <2>2 DEF Listed
<1>11. Late(o)'
  BY <1>7 DEF Late
<1>12. Whole(o)'
  <2>1. Chained(o) /\ (Committed(o) \/ Created(o))
    BY <1>1, <1>6 DEF Sound, Whole
  <2>2. ASSUME Created(o) PROVE Created(o)'
    <3>1. \A e \in Keys(o) : \E t \in Compound(o)' : t.ent = e
      BY <1>4, <2>2 DEF Created, Compound
    <3>2. ASSUME NEW t \in Compound(o)'
          PROVE  \E r \in Compound(o) : t = AsReady(r) /\ t.ent = r.ent /\ t.act = r.act /\ t.exp = r.exp
      BY <1>3 DEF Compound
    <3>3. \A t \in Compound(o)' : t.ent \in Keys(o) /\ t.act = "create" /\ t.exp = 0
      BY <2>2, <3>2 DEF Created
    <3>4. \A t, u \in Compound(o)' : t.ent = u.ent => t = u
      BY <2>2, <3>2 DEF Created
    <3> QED BY <1>1, <3>1, <3>3, <3>4 DEF Created
  <2>3. Chained(o)'
    <3>1. ASSUME NEW t \in Single(o)'
          PROVE  \E r \in Single(o) : t = AsReady(r) /\ t.rev = r.rev /\ t.exp = r.exp
      BY <1>3 DEF Single
    <3>2. \A t \in Single(o)' : t.rev \in Unserved(o)..ses[o].rev /\ t.exp = t.rev - 1
      BY <2>1, <3>1 DEF Chained
    <3>3. ASSUME NEW n \in Unserved(o)..ses[o].rev PROVE \E t \in Single(o)' : t.rev = n
      <4>1. PICK r \in Single(o) : r.rev = n
        BY <2>1 DEF Chained
      <4> QED BY <1>4, <4>1 DEF Single
    <3>4. \A t, u \in Single(o)' : t.rev = u.rev => t = u
      BY <2>1, <3>1 DEF Chained
    <3> QED BY <1>1, <2>1, <3>2, <3>3, <3>4 DEF Chained
  <2> QED BY <1>1, <2>1, <2>2, <2>3 DEF Whole
<1> QED BY <1>8, <1>9, <1>10, <1>11, <1>12 DEF Sound
\* The rows of a Space are admitted together.
LEMMA SpaceAdmitted ==
    ASSUME DataTyped, \A x \in Sessions : Sound(x), NEW s \in Spaces, Admissible(s),
           outbox' = (outbox \ InSpace(s)) \cup {AsReady(r) : r \in InSpace(s)},
           UNCHANGED <<prov, ses, plan, imported, receipts>>
    PROVE  \A x \in Sessions : Sound(x)'
<1>1. \A r \in InSpace(s) : r \in RowSet /\ AsReady(r).of = r.of
  BY ReadyFields DEF DataTyped, InSpace
<1>2. ASSUME NEW x \in Sessions, SpaceOf[x] # s PROVE Sound(x)'
  <2>1. RowsOf(x)' = RowsOf(x)
    BY <1>1, <1>2 DEF RowsOf, InSpace
  <2> QED BY <2>1, UntouchedIsSound DEF Untouched
<1>3. ASSUME NEW x \in Sessions, SpaceOf[x] = s PROVE Sound(x)'
  <2>1. RowsOf(x)' = {AsReady(r) : r \in RowsOf(x)}
    BY <1>1, <1>3 DEF RowsOf, InSpace
  <2>2. CASE RowsOf(x) = {}
    <3>1. RowsOf(x)' = RowsOf(x)
      BY <2>1, <2>2
    <3> QED BY <3>1, UntouchedIsSound DEF Untouched
  <2>3. CASE RowsOf(x) # {}
    <3>1. ASSUME Compound(x) # {} PROVE Held(x) /\ Expected(x)
      <4>1. x \in Roots(InSpace(s))
        BY <1>3, <3>1 DEF Roots, InSpace, Compound, RowsOf
      <4> QED BY <4>1 DEF Admissible
    <3> QED BY <2>1, <2>3, <3>1, SessionAdmitted
  <2> QED BY <2>2, <2>3
<1> QED BY <1>2, <1>3

LEMMA AdmitStep ==
    ASSUME ProvInv, NEW p \in Procs, Admit(p)
    PROVE  ProvInv'
<1>0. PICK s \in Spaces : s = job[p].on
  BY InvParts, AtSync DEF Admit, Syncing
<1>1. /\ pc[p] \in Syncing /\ DataTyped /\ \A x \in Sessions : Sound(x)
      /\ "bind" \in Syncing /\ "push" \in Syncing
      /\ UNCHANGED <<meta, ses, plan, receipts, imported, served, faults>>
  BY InvParts DEF Admit, Syncing
<1> DEFINE Markers == [Spaces -> [state : {"none", "failed", "meta_pending", "ready"},
                                  rows : SUBSET RowSet]]
<1>2. imported' \in [Sessions -> Nat] /\ outbox \subseteq RowSet /\ marker \in Markers
  BY <1>1 DEF DataTyped
<1>3. \A R \in SUBSET RowSet : Roots(R) \in SUBSET Sessions
  BY DEF Roots, RowSet
<1>4. ASSUME outbox' = outbox PROVE OneBlocking' /\ \A x \in Sessions : Sound(x)'
  BY <1>1, <1>4, InvParts, NothingMoves DEF Rest, meta
<1>5. ASSUME Exit(p), outbox' = outbox, marker' \in Markers PROVE ProvInv'
  <2>1. /\ TasksTyped' /\ Shape(p)' /\ Knows(p)' /\ p \notin Inside'
        /\ \A q \in Procs \ {p} : pc'[q] = pc[q] /\ job'[q] = job[q]
    BY <1>5, ExitTask, InvParts
  <2>2. DataTyped'
    BY <1>1, <1>2, <1>5 DEF DataTyped, meta
  <2>3. Tasks' /\ Fenced'
    BY <1>1, <2>1, OutsideStep, InvParts DEF meta
  <2> QED BY <1>4, <1>5, <2>1, <2>2, <2>3, InvNext
<1>6. CASE /\ marker[s].state = "meta_pending"
           /\ Goto(p, "bind")
           /\ job' = [job EXCEPT ![p].todo = Roots(marker[s].rows)]
           /\ UNCHANGED <<outbox, marker>>
  <2>1. PICK R \in SUBSET Sessions : R = Roots(marker[s].rows)
    BY <1>2, <1>3
  <2> QED BY <1>1, <1>2, <1>4, <1>6, <2>1, CycleStep
<1>7. CASE /\ IF Proven(s) THEN Goto(p, "push") /\ UNCHANGED job ELSE Exit(p)
           /\ UNCHANGED <<outbox, marker>>
  <2>1. CASE Proven(s)
    <3>1. {} \in SUBSET Sessions /\ Goto(p, "push") /\ job' = job
      BY <1>7, <2>1
    <3> QED BY <1>1, <1>2, <1>4, <1>7, <3>1, CycleStep
  <2>2. CASE ~Proven(s)
    BY <1>2, <1>5, <1>7, <2>2
  <2> QED BY <2>1, <2>2
<1>8. CASE /\ Admissible(s)
           /\ outbox' = (outbox \ InSpace(s)) \cup {AsReady(r) : r \in InSpace(s)}
           /\ marker' = [marker EXCEPT ![s] =
                           [state |-> "meta_pending", rows |-> {AsReady(r) : r \in InSpace(s)}]]
           /\ Goto(p, "bind")
           /\ job' = [job EXCEPT ![p].todo = Roots({AsReady(r) : r \in InSpace(s)})]
  <2>1. PICK A : A = {AsReady(r) : r \in InSpace(s)}
    OBVIOUS
  <2>2. A \subseteq RowSet
    BY <1>2, <2>1, ReadyFields DEF InSpace
  <2>3. PICK R \in SUBSET Sessions : R = Roots(A)
    BY <1>3, <2>2
  <2>4. outbox' \subseteq RowSet
    BY <1>2, <1>8, <2>1, <2>2
  <2>5. marker' \in Markers
    BY <1>2, <1>8, <2>1, <2>2
  <2>6. \A x \in Sessions : Sound(x)'
    BY <1>1, <1>8, SpaceAdmitted DEF meta
  <2> HIDE DEF Markers
  <2>7. job' = [job EXCEPT ![p].todo = R]
    BY <1>8, <2>1, <2>3
  <2> QED BY <1>1, <1>2, <1>8, <2>4, <2>5, <2>6, <2>7, CycleStep DEF Markers
<1>9. CASE /\ marker' = [marker EXCEPT ![s] = [state |-> "failed", rows |-> {}]]
           /\ Exit(p) /\ UNCHANGED outbox
  <2>1. marker' \in Markers
    BY <1>2, <1>9
  <2> QED BY <1>5, <1>9, <2>1
<1> HIDE DEF Markers
<1> QED BY <1>0, <1>6, <1>7, <1>8, <1>9 DEF Admit, AsReady

\* The server has the compound, and the clock rows are still to come.
LEMMA CompoundServed ==
    ASSUME DataTyped, NEW o \in Sessions, Sound(o), Compound(o) # {},
           \A r \in Compound(o) : r.state = "ready",
           RowsOf(o)' = RowsOf(o) \ Compound(o), imported'[o] = 1,
           UNCHANGED <<prov, ses, plan, receipts>>
    PROVE  Sound(o)'
<1>1. Admitted(o) /\ Local(o) /\ Local(o)' /\ ~Committed(o) /\ Committed(o)'
  BY DEF Admitted, Sound, Authorised, Born, Compound, Committed, Local
<1>2. ~Overwritten(o) /\ prov[o] \in Past /\ \A r \in RowsOf(o) : r.state = "ready"
  BY <1>1 DEF Sound, Late, Authorised
<1>3. ses[o].rev \in Nat /\ ses[o].rev > 0
  BY <1>1 DEF DataTyped, Sound, Born
<1>4. /\ Compound(o)' = {} /\ Single(o)' = Single(o)
      /\ \A r \in RowsOf(o)' : r \in RowsOf(o)
      /\ \A r \in OnSession(o)' : r \in OnSession(o)
  BY DEF Compound, Single, OnSession
<1>5. Born(o)'
  BY <1>1 DEF Sound, Born, Local, Live
<1>6. Authorised(o)'
  BY <1>2, <1>4 DEF Authorised
<1>7. Listed(o)'
  BY <1>1, <1>4 DEF Sound, Listed
<1>8. ~Overwritten(o)'
  BY <1>2, <1>4 DEF Overwritten
<1>9. Chained(o)'
  <2>1. Chained(o)
    BY <1>1, <1>2 DEF Sound, Whole
  <2>2. Unserved(o) = 2 /\ Unserved(o)' = 2
    BY <1>1 DEF Unserved
  <2> QED BY <1>3, <1>4, <2>1, <2>2 DEF Chained
<1> QED BY <1>1, <1>5, <1>6, <1>7, <1>8, <1>9 DEF Sound, Late, Whole

\* The server has the next clock row.
LEMMA ClockServed ==
    ASSUME DataTyped, NEW o \in Sessions, Sound(o), Compound(o) = {}, NEW r \in RowsOf(o),
           r.state = "ready", r.exp = imported[o],
           RowsOf(o)' = RowsOf(o) \ {r}, imported'[o] = r.rev,
           UNCHANGED <<prov, ses, plan, receipts>>
    PROVE  Sound(o)'
<1>1. Admitted(o) /\ Local(o) /\ Local(o)'
  BY DEF Admitted, Sound, Born, Local
<1>2. ~Overwritten(o) /\ prov[o] \in Past /\ \A x \in RowsOf(o) : x.state = "ready"
  BY <1>1 DEF Sound, Late, Authorised
<1>3. Committed(o)
  BY <1>1 DEF Sound, Listed
<1>4. Chained(o) /\ Unserved(o) = imported[o] + 1
  BY <1>1, <1>2, <1>3 DEF Sound, Whole, Unserved
<1>5. ses[o].rev \in Nat /\ imported[o] \in Nat
  BY DEF DataTyped
<1>6. \A x \in RowsOf(o) : x.rev \in Nat /\ x \in Single(o)
  BY RowsTyped DEF Single, Compound
<1>7. r.rev = imported[o] + 1 /\ r.rev <= ses[o].rev
  BY <1>4, <1>5, <1>6 DEF Chained
<1>8. Committed(o)' /\ Unserved(o)' = r.rev + 1
  BY <1>5, <1>7 DEF Committed, Unserved
<1>9. /\ Compound(o)' = {} /\ Single(o)' = Single(o) \ {r}
      /\ \A x \in RowsOf(o)' : x \in RowsOf(o)
      /\ \A x \in OnSession(o)' : x \in OnSession(o)
  BY DEF Compound, Single, OnSession
<1>10. Born(o)'
  BY <1>1 DEF Sound, Born, Local, Live
<1>11. Authorised(o)'
  BY <1>2, <1>9 DEF Authorised
<1>12. Listed(o)'
  BY <1>8, <1>9 DEF Sound, Listed
<1>13. ~Overwritten(o)'
  BY <1>2, <1>9 DEF Overwritten
<1>14. Chained(o)'
  <2>1. \A x \in Single(o)' : x.rev \in (r.rev + 1)..ses[o].rev /\ x.exp = x.rev - 1
    <3>1. ASSUME NEW x \in Single(o), x # r
          PROVE  x.rev \in (r.rev + 1)..ses[o].rev /\ x.exp = x.rev - 1
      <4>1. x.rev \in (imported[o] + 1)..ses[o].rev /\ x.exp = x.rev - 1 /\ x.rev # r.rev
        BY <1>4, <1>6, <3>1 DEF Chained
      <4> QED BY <1>5, <1>7, <4>1
    <3> QED BY <1>9, <3>1
  <2>2. ASSUME NEW n \in (r.rev + 1)..ses[o].rev PROVE \E x \in Single(o)' : x.rev = n
    <3>1. n \in (imported[o] + 1)..ses[o].rev /\ n # r.rev
      BY <1>5, <1>7, <2>2
    <3>2. PICK x \in Single(o) : x.rev = n
      BY <1>4, <3>1 DEF Chained
    <3> QED BY <1>9, <3>1, <3>2
  <2>3. \A x, y \in Single(o)' : x.rev = y.rev => x = y
    BY <1>4, <1>9 DEF Chained
  <2> QED BY <1>7, <1>8, <2>1, <2>2, <2>3 DEF Chained
<1> QED BY <1>1, <1>8, <1>10, <1>11, <1>12, <1>13, <1>14 DEF Sound, Late, Whole
LEMMA PushCompoundStep ==
    ASSUME ProvInv, NEW p \in Procs, NEW o \in Sessions, PushCompound(p, o)
    PROVE  ProvInv'
<1>1. /\ pc[p] \in Syncing /\ "apply" \in Syncing /\ Goto(p, "apply") /\ job' = job
      /\ imported' = [imported EXCEPT ![o] = 1] /\ outbox' = outbox \ Compound(o)
      /\ Compound(o) # {} /\ \A r \in Compound(o) : r.state = "ready"
      /\ UNCHANGED <<meta, ses, plan, marker, receipts, served, faults>>
  BY DEF PushCompound, Syncing
<1>2. /\ outbox' \subseteq RowSet /\ imported' \in [Sessions -> Nat] /\ imported'[o] = 1
      /\ \A x \in Sessions \ {o} : imported'[x] = imported[x]
      /\ marker' \in [Spaces -> [state : {"none", "failed", "meta_pending", "ready"},
                                 rows : SUBSET RowSet]]
  BY <1>1, InvParts DEF DataTyped
<1>3. /\ RowsOf(o)' = RowsOf(o) \ Compound(o)
      /\ \A x \in Sessions \ {o} : RowsOf(x)' = RowsOf(x)
  BY <1>1 DEF RowsOf, Compound
<1>4. Sound(o)'
  BY <1>1, <1>2, <1>3, CompoundServed, InvParts DEF meta
<1>5. \A x \in Sessions : Sound(x)'
  <2>1. OnlyOf(o)
    BY <1>1, <1>2, <1>3 DEF OnlyOf, Untouched, meta
  <2> QED BY <1>4, <2>1, OneSessionStep, InvParts
<1>6. {} \in SUBSET Sessions
  OBVIOUS
<1> QED BY <1>1, <1>2, <1>5, <1>6, CycleStep

LEMMA PushClockStep ==
    ASSUME ProvInv, NEW p \in Procs, NEW o \in Sessions, PushClock(p, o)
    PROVE  ProvInv'
<1>1. PICK r \in RowsOf(o) :
         /\ r.state = "ready" /\ r.exp = imported[o]
         /\ imported' = [imported EXCEPT ![o] = r.rev]
         /\ outbox' = outbox \ {r}
  BY DEF PushClock
<1>2. /\ pc[p] = "push" /\ "push" \in Syncing /\ Compound(o) = {}
      /\ UNCHANGED <<meta, ses, plan, marker, receipts, served, pc, job, faults>>
  BY DEF PushClock, Syncing
<1>3. Goto(p, "push") /\ pc[p] \in Syncing
  BY <1>2, InvParts DEF Goto, TasksTyped
<1>4. r.rev \in Nat
  BY RowsTyped, InvParts
<1>5. /\ outbox' \subseteq RowSet /\ imported' \in [Sessions -> Nat] /\ imported'[o] = r.rev
      /\ \A x \in Sessions \ {o} : imported'[x] = imported[x]
      /\ marker' \in [Spaces -> [state : {"none", "failed", "meta_pending", "ready"},
                                 rows : SUBSET RowSet]]
  BY <1>1, <1>2, <1>4, InvParts DEF DataTyped
<1>6. /\ RowsOf(o)' = RowsOf(o) \ {r}
      /\ \A x \in Sessions \ {o} : RowsOf(x)' = RowsOf(x)
  BY <1>1 DEF RowsOf
<1>7. Sound(o)'
  BY <1>1, <1>2, <1>5, <1>6, ClockServed, InvParts DEF meta
<1>8. \A x \in Sessions : Sound(x)'
  <2>1. OnlyOf(o)
    BY <1>2, <1>5, <1>6 DEF OnlyOf, Untouched, meta
  <2> QED BY <1>7, <2>1, OneSessionStep, InvParts
<1>9. {} \in SUBSET Sessions
  OBVIOUS
<1> QED BY <1>2, <1>3, <1>5, <1>8, <1>9, CycleStep

----------------------------------------------------------------------------
(* The invariant *)

LEMMA InitIsSound == Init => ProvInv
<1> SUFFICES ASSUME Init PROVE ProvInv
  OBVIOUS
<1> USE DEF Init
<1>1. DataTyped
  BY DEF DataTyped, States, NoSession
<1>2. TasksTyped
  <2>1. NoJob \in [kind : Kinds, on : Sessions \cup Spaces \cup {"none"}, todo : SUBSET Sessions]
    BY DEF NoJob, Kinds
  <2> QED BY <2>1 DEF TasksTyped, Labels, JobsTyped
<1>3. Tasks /\ Fenced
  BY DEF Tasks, Fenced, Shape, Knows, Clocked, Syncing, Inside
<1>4. OneBlocking
  BY DEF OneBlocking, Blocking
<1>5. ASSUME NEW x \in Sessions PROVE Sound(x)
  <2>1. /\ RowsOf(x) = {} /\ Compound(x) = {} /\ OnSession(x) = {} /\ ~Committed(x)
        /\ ses[x] = NoSession /\ NoSession.mine = "none"
    BY DEF RowsOf, Compound, OnSession, Committed, NoSession
  <2>2. ~Local(x) /\ ~Live(x) /\ ~Overwritten(x) /\ ~Admitted(x)
    BY <2>1 DEF Local, Live, Overwritten, Admitted
  <2>3. IsFiniteSet(plan[x])
    BY FS_EmptySet
  <2> QED BY <2>1, <2>2, <2>3 DEF Sound, Born, Authorised, Listed, Late, Whole
<1> QED BY <1>1, <1>2, <1>3, <1>4, <1>5, InvParts

LEMMA StutterStep ==
    ASSUME ProvInv, UNCHANGED vars
    PROVE  ProvInv'
<1>1. DataTyped' /\ TasksTyped'
  BY InvParts DEF DataTyped, TasksTyped, JobsTyped, vars, meta, space
<1>2. Tasks' /\ Fenced'
  <2>1. \A q \in Procs : Shape(q)' /\ Knows(q)'
    BY InvParts DEF Tasks, Shape, Knows, vars, meta, space
  <2>2. Inside' = Inside /\ \A q \in Inside : SpaceAt(q)' = SpaceAt(q)
    BY DEF Inside, SpaceAt, vars
  <2>3. Fenced'
    BY <2>2, InvParts DEF Fenced
  <2> QED BY <2>1, <2>3 DEF Tasks
<1>3. OneBlocking' /\ \A x \in Sessions : Sound(x)'
  BY InvParts, NothingMoves DEF vars, meta, space, Rest
<1> QED BY <1>1, <1>2, <1>3, InvNext

LEMMA NextIsSound == ProvInv /\ [Next]_vars => ProvInv'
<1> SUFFICES ASSUME ProvInv, [Next]_vars PROVE ProvInv'
  OBVIOUS
<1>1. ASSUME NEW p \in Procs, Step(p) PROVE ProvInv'
  BY <1>1, MarkActivatingStep, PersistStartStep, SettleStartStep, DisownedStep, MoveClockStep,
     RetireStep, ServeActivationStep, AbsorbStep, ResolveActivationStep, RecoverStartStep,
     ReconcileEvidenceStep, AdmitStep, ConfirmAdmissionStep, EndSyncStep, BindRootStep,
     PushCompoundStep, PushClockStep DEF Step
<1>2. ASSUME NEW p \in Procs, NEW o \in Sessions,
             SetCurrentPlanItem(p, o) \/ SetCompletionDraft(p, o) \/ RemovePlanItem(p, o)
      PROVE  ProvInv'
  BY <1>2, StutterStep DEF SetCurrentPlanItem, SetCompletionDraft, RemovePlanItem, Refused
<1>3. ASSUME NEW p \in Procs, NEW o \in Sessions,
             \/ Claim(p, o) \/ ResumeStart(p, o) \/ Reconcile(p, o)
             \/ ListStarts(p, o) \/ EditNote(p, o)
             \/ \E i \in Extra : AddPlanItem(p, o, i)
             \/ \E kind \in Edits : Edit(p, o, kind)
      PROVE  ProvInv'
  BY <1>3, ClaimStep, ResumeStartStep, ReconcileStep, ListStartsStep, EditNoteStep,
     AddPlanItemStep, EditBegins
<1> QED BY <1>1, <1>2, <1>3, ThrowStep, StartSyncStep, PageDiesStep, StutterStep DEF Next

\* The invariant holds of every behaviour of the device.
THEOREM ProvisionalInvariance == Spec => []ProvInv
<1>1. Init => ProvInv
  BY InitIsSound
<1>2. ProvInv /\ [Next]_vars => ProvInv'
  BY NextIsSound
<1> QED BY <1>1, <1>2, PTL DEF Spec

\* Every variable has its type.
THEOREM TypeCorrect == Spec => []TypeOK
<1>1. ProvInv => TypeOK
  BY DEF ProvInv, Typed
<1> QED BY <1>1, ProvisionalInvariance, PTL

\* A device runs one provisional session at a time, whatever its tabs do and
\* in whatever Spaces: claimProvisionalOperation looks at all operations.
THEOREM OneSession == Spec => []OneSessionRuns
<1>1. ProvInv => OneSessionRuns
  BY DEF ProvInv, OneBlocking, Sound, Born, OneSessionRuns
<1> QED BY <1>1, ProvisionalInvariance, PTL

\* Rows of an import have an operation that answers for them, and a session
\* that the server activated leaves none in the outbox.
THEOREM RowsAuthority == Spec => []RowsHaveAuthority
<1>1. ASSUME ProvInv PROVE RowsHaveAuthority
  <2>1. ASSUME NEW r \in outbox
        PROVE  /\ r.root = "compound" =>
                    prov[r.of] \in {"pending", "activating", "conflict", "awaiting_s4", "transport_ready"}
               /\ r.root = "compound" /\ r.state = "ready" =>
                    prov[r.of] \in {"awaiting_s4", "transport_ready"}
               /\ r.of \notin receipts
    <3>1. PICK o \in Sessions : o = r.of
      BY <1>1, InvParts DEF DataTyped, RowSet
    <3>2. r \in RowsOf(o) /\ Sound(o)
      BY <1>1, <3>1, InvParts DEF RowsOf
    <3>3. o \notin receipts
      BY <3>2 DEF Sound, Born, Local
    <3>4. r.root = "compound" => prov[o] \in Answering
      BY <3>2 DEF Sound, Authorised, Compound
    <3>5. r.state = "ready" => prov[o] \in Past
      BY <3>2 DEF Sound, Authorised, Admitted
    <3> QED BY <3>1, <3>3, <3>4, <3>5 DEF Answering, Past
  <2> QED BY <2>1 DEF RowsHaveAuthority
<1> QED BY <1>1, ProvisionalInvariance, PTL

----------------------------------------------------------------------------
(* How many rows there are *)

\* A key that tells the members of a set apart counts them.
LEMMA CountedByKey ==
    ASSUME NEW S, NEW T, IsFiniteSet(T), NEW f \in [S -> T],
           \A t \in T : \E x \in S : f[x] = t,
           \A x, y \in S : f[x] = f[y] => x = y
    PROVE  IsFiniteSet(S) /\ Cardinality(S) = Cardinality(T)
<1>1. f \in Bijection(S, T)
  BY Fun_IsBij
<1>2. ExistsBijection(T, S)
  BY <1>1, Fun_ExistsBijSymmetric DEF ExistsBijection
<1> QED BY <1>2, FS_Bijection

\* A row that was created but not sent is the clock row of its revision.
LEMMA UnsentClock ==
    ASSUME NEW r \in RowSet, r.root = "alone", r.ent = "session", r.act = "update",
           r.exp = r.rev - 1
    PROVE  [r EXCEPT !.state = "awaiting_s4"] = Clock(r.of, r.rev)
BY DEF RowSet, Clock, Row

\* Until the server has it, the outbox holds all of a provisional session:
\* persistProvisionalAggregateAndOutbox writes its rows together, every change
\* of the clock appends one, and nothing else is merged into them.
LEMMA NoRowIsMissing ==
    ASSUME DataTyped, NEW o \in Sessions, Sound(o), Local(o), ~Overwritten(o)
    PROVE  LET clocks == RowsOf(o) \ Compound(o)
               first  == IF Committed(o) THEN imported[o] + 1 ELSE 2
           IN  /\ IF Committed(o) THEN Compound(o) = {} ELSE WholeCompound(o)
               /\ {[r EXCEPT !.state = "awaiting_s4"] : r \in clocks} =
                    {Clock(o, rev) : rev \in first..ses[o].rev}
               /\ Cardinality(clocks) = ses[o].rev + 1 - first
<1> DEFINE first == Unserved(o)
           last  == ses[o].rev
<1>1. Chained(o) /\ (Committed(o) \/ Created(o))
  BY DEF Sound, Whole
<1>2. \A r \in RowsOf(o) : /\ r \in RowSet /\ r.of = o /\ r.rev \in Nat
                           /\ r.root \in {"compound", "alone"}
  BY RowsTyped
<1>3. RowsOf(o) \ Compound(o) = Single(o)
  BY <1>2 DEF Compound, Single
<1>4. last \in Nat /\ last > 0 /\ imported[o] \in Nat
  BY DEF DataTyped, Sound, Born
<1>5. first \in Nat /\ first <= last + 1
  BY <1>1, <1>4 DEF Unserved, Chained
<1>6. \A r \in Single(o) : /\ r \in RowSet /\ r.of = o /\ r.root = "alone" /\ r.ent = "session"
                           /\ r.act = "update" /\ r.exp = r.rev - 1 /\ r.rev \in first..last
  BY <1>1, <1>2 DEF Single, Sound, Listed, Chained
<1>7. IF Committed(o) THEN Compound(o) = {} ELSE WholeCompound(o)
  <2>1. CASE Committed(o)
    BY <2>1 DEF Sound, Authorised
  <2>2. CASE ~Committed(o)
    <3>1. Created(o)
      BY <1>1, <2>2
    <3>2. IsFiniteSet(Keys(o))
      <4>1. IsFiniteSet({"session", "context", "attribution"})
        <5>1. IsFiniteSet({"session"})
          BY FS_Singleton
        <5>2. IsFiniteSet({"session"} \cup {"context"})
          BY <5>1, FS_AddElement
        <5>3. IsFiniteSet(({"session"} \cup {"context"}) \cup {"attribution"})
          BY <5>2, FS_AddElement
        <5>4. ({"session"} \cup {"context"}) \cup {"attribution"} = {"session", "context", "attribution"}
          OBVIOUS
        <5> QED BY <5>3, <5>4
      <4>2. IsFiniteSet(plan[o])
        BY DEF Sound, Born
      <4> QED BY <4>1, <4>2, FS_Union DEF Keys, Initial
    <3>3. Cardinality(Compound(o)) = Cardinality(Keys(o))
      <4>1. PICK f : f = [r \in Compound(o) |-> r.ent]
        OBVIOUS
      <4>2. f \in [Compound(o) -> Keys(o)]
        BY <3>1, <4>1 DEF Created
      <4>3. \A e \in Keys(o) : \E r \in Compound(o) : f[r] = e
        BY <3>1, <4>1 DEF Created
      <4>4. \A r, x \in Compound(o) : f[r] = f[x] => r = x
        BY <3>1, <4>1 DEF Created
      <4> QED BY <3>2, <4>2, <4>3, <4>4, CountedByKey
    <3> QED BY <2>2, <3>1, <3>3 DEF Created, WholeCompound
  <2> QED BY <2>1, <2>2
<1>8. {[r EXCEPT !.state = "awaiting_s4"] : r \in Single(o)} = {Clock(o, rev) : rev \in first..last}
  <2>1. \A r \in Single(o) : [r EXCEPT !.state = "awaiting_s4"] = Clock(o, r.rev)
    BY <1>6, UnsentClock
  <2>2. \A n \in first..last : \E r \in Single(o) : r.rev = n
    BY <1>1 DEF Chained
  <2>3. ASSUME NEW r \in Single(o)
        PROVE  \E n \in first..last : [r EXCEPT !.state = "awaiting_s4"] = Clock(o, n)
    <3>1. r.rev \in first..last
      BY <1>6
    <3> HIDE DEF first, last
    <3> QED BY <2>1, <3>1
  <2>4. ASSUME NEW n \in first..last
        PROVE  \E r \in Single(o) : Clock(o, n) = [r EXCEPT !.state = "awaiting_s4"]
    <3>1. PICK r \in Single(o) : r.rev = n
      BY <2>2
    <3> QED BY <2>1, <3>1
  <2> HIDE DEF first, last
  <2> QED BY <2>3, <2>4
<1>9. Cardinality(Single(o)) = last + 1 - first
  <2>1. PICK f : f = [r \in Single(o) |-> r.rev]
    OBVIOUS
  <2>2. f \in [Single(o) -> first..last]
    BY <1>6, <2>1
  <2>3. \A n \in first..last : \E r \in Single(o) : f[r] = n
    BY <1>1, <2>1 DEF Chained
  <2>4. \A r, x \in Single(o) : f[r] = f[x] => r = x
    BY <1>1, <2>1 DEF Chained
  <2>5. first \in Int /\ last \in Int
    BY <1>4, <1>5
  <2>6. /\ IsFiniteSet(first..last)
        /\ Cardinality(first..last) = IF first > last THEN 0 ELSE last - first + 1
    BY <2>5, FS_Interval
  <2>7. Cardinality(Single(o)) = Cardinality(first..last)
    BY <2>2, <2>3, <2>4, <2>6, CountedByKey
  <2> QED BY <1>4, <1>5, <2>6, <2>7
<1> QED BY <1>3, <1>7, <1>8, <1>9 DEF Unserved

\* Until the server has it, the outbox holds all of a provisional session, its
\* parts and every change of its clock, whatever pages die or throw: what
\* persistProvisionalAggregateAndOutbox and persistProvisionalClock append no
\* later step takes away before the server has it.
THEOREM NothingMissing == Spec => []NothingIsMissing
<1>1. ProvInv => NothingIsMissing
  BY InvParts, NoRowIsMissing DEF NothingIsMissing, Local
<1> QED BY <1>1, ProvisionalInvariance, PTL

----------------------------------------------------------------------------
(* What is admitted does not change *)

Frozen(o) ==
    /\ ses'[o] = ses[o] /\ plan'[o] = plan[o]
    /\ \A r \in {x \in outbox' : x.of = o} : r \in outbox

LEMMA NothingAdded ==
    ASSUME NEW o \in Sessions, ses' = ses, plan' = plan, outbox' \subseteq outbox
    PROVE  Frozen(o)
BY DEF Frozen

\* Of the others only the session that a step is about changes, and its
\* operation blocks.
LEMMA OtherIsFrozen ==
    ASSUME ProvInv, NEW o \in Sessions, Admitted(o), NEW x \in Sessions, prov[x] \in Blocking,
           \A y \in Sessions \ {x} : ses'[y] = ses[y] /\ plan'[y] = plan[y],
           \A r \in outbox' : r.of # x => r \in outbox
    PROVE  Frozen(o)
<1>1. o # x
  BY BlockingIsOpen, InvParts
<1> QED BY <1>1 DEF Frozen

LEMMA SessionStepsFreeze ==
    ASSUME ProvInv, NEW o \in Sessions, Admitted(o), NEW p \in Procs,
           PersistStart(p) \/ MoveClock(p) \/ Absorb(p)
    PROVE  Frozen(o)
<1>1. PICK x \in Sessions : x = job[p].on
  <2>1. CASE MoveClock(p)
    BY <2>1, InvParts DEF MoveClock, Entered, Tasks, Shape
  <2>2. CASE PersistStart(p) \/ Absorb(p)
    BY <2>2, InvParts, AtClock DEF PersistStart, Absorb, Clocked
  <2> QED BY <2>1, <2>2
<1>2. CASE PersistStart(p)
  <2>1. prov[x] \in Blocking
    BY <1>1, <1>2, InvParts, AtClock DEF PersistStart, Clocked, Knows, Blocking
  <2>2. PICK R : R = {Create(x, ent, 1) : ent \in Initial(x, Planned)}
    OBVIOUS
  <2>3. \A r \in R : r.of = x
    BY <2>2 DEF Create, Row
  <2>4. outbox' = outbox \cup R
    BY <1>1, <1>2, <2>2 DEF PersistStart
  <2>5. \A y \in Sessions \ {x} : ses'[y] = ses[y] /\ plan'[y] = plan[y]
    BY <1>1, <1>2, InvParts DEF PersistStart, DataTyped
  <2> QED BY <2>1, <2>3, <2>4, <2>5, OtherIsFrozen
<1>3. CASE MoveClock(p)
  <2>1. prov[x] \in Blocking
    BY <1>1, <1>3 DEF MoveClock, OwnedBy, Blocking
  <2>2. PICK c : c = Clock(x, ses[x].rev + 1)
    OBVIOUS
  <2>3. c.of = x
    BY <2>2 DEF Clock, Row
  <2>4. outbox' = outbox \cup {c}
    BY <1>1, <1>3, <2>2 DEF MoveClock, AppendClock
  <2>5. \A y \in Sessions \ {x} : ses'[y] = ses[y] /\ plan'[y] = plan[y]
    BY <1>1, <1>3, InvParts DEF MoveClock, DataTyped
  <2> QED BY <2>1, <2>3, <2>4, <2>5, OtherIsFrozen
<1>4. CASE Absorb(p)
  <2>1. prov[x] \in Blocking
    BY <1>1, <1>4, InvParts, AtClock DEF Absorb, Clocked, Knows, Blocking
  <2>2. outbox' \subseteq outbox
    BY <1>4 DEF Absorb
  <2>3. \A y \in Sessions \ {x} : ses'[y] = ses[y] /\ plan'[y] = plan[y]
    BY <1>1, <1>4, InvParts DEF Absorb, DataTyped
  <2> QED BY <2>1, <2>2, <2>3, OtherIsFrozen
<1> QED BY <1>2, <1>3, <1>4

LEMMA EditsFreeze ==
    ASSUME ProvInv, NEW o \in Sessions, Admitted(o), NEW p \in Procs, NEW x \in Sessions,
           EditNote(p, x) \/ \E i \in Extra : AddPlanItem(p, x, i)
    PROVE  Frozen(o)
<1>1. prov[x] \in Blocking
  BY DEF EditNote, AddPlanItem, Editable, OwnedBy, Blocking
<1>2. CASE EditNote(p, x)
  <2>1. /\ Local(x) /\ prov[x] = "pending" /\ Sound(x) /\ DataTyped /\ OnSession(x) # {}
        /\ outbox' = MergeNote(x) /\ ses' = ses /\ plan' = plan
    BY <1>2, InvParts DEF EditNote, Editable, OwnedBy, Local
  <2>2. \A r \in outbox' : r.of # x => r \in outbox
    BY <2>1, MergedRow
  <2> QED BY <1>1, <2>1, <2>2, OtherIsFrozen
<1>3. CASE \E i \in Extra : AddPlanItem(p, x, i)
  <2>1. PICK i \in Extra : AddPlanItem(p, x, i)
    BY <1>3
  <2>2. PICK c : c = Create(x, i, 0)
    OBVIOUS
  <2>3. c.of = x
    BY <2>2 DEF Create, Row
  <2>4. /\ outbox' = outbox \cup {c} /\ ses' = ses
        /\ \A y \in Sessions \ {x} : plan'[y] = plan[y]
    BY <2>1, <2>2, InvParts DEF AddPlanItem, DataTyped
  <2> QED BY <1>1, <2>3, <2>4, OtherIsFrozen
<1> QED BY <1>2, <1>3

\* The rows of a session of which one is admitted are all ready, and ready
\* rows are admitted as they are.
LEMMA AdmitFreezes ==
    ASSUME ProvInv, NEW o \in Sessions, Admitted(o), NEW p \in Procs, Admit(p)
    PROVE  Frozen(o)
<1>1. ses' = ses /\ plan' = plan /\ outbox \subseteq RowSet
  BY InvParts DEF Admit, DataTyped
<1>2. CASE outbox' = outbox
  BY <1>1, <1>2, NothingAdded
<1>3. CASE outbox' # outbox
  <2>1. PICK s : outbox' = (outbox \ InSpace(s)) \cup {AsReady(r) : r \in InSpace(s)}
    BY <1>3 DEF Admit, AsReady
  <2>2. ASSUME NEW t \in outbox', t.of = o PROVE t \in outbox
    <3>1. CASE t \in outbox
      BY <3>1
    <3>2. CASE t \in {AsReady(r) : r \in InSpace(s)}
      <4>1. PICK r \in InSpace(s) : t = AsReady(r)
        BY <3>2
      <4>2. r \in RowSet /\ r \in outbox
        BY <1>1, <4>1 DEF InSpace
      <4>3. r \in RowsOf(o)
        BY <2>2, <4>1, <4>2, ReadyFields DEF RowsOf
      <4>4. r.state = "ready"
        BY <4>3, InvParts DEF Sound, Authorised
      <4>5. AsReady(r) = r
        BY <4>2, <4>4 DEF AsReady, RowSet
      <4> QED BY <4>1, <4>2, <4>5
    <3> QED BY <2>1, <2>2, <3>1, <3>2
  <2> QED BY <1>1, <2>2 DEF Frozen
<1> QED BY <1>2, <1>3

LEMMA StepsFreeze ==
    ASSUME ProvInv, [Next]_vars, NEW o \in Sessions, Admitted(o)
    PROVE  Frozen(o)
<1>1. CASE UNCHANGED vars
  BY <1>1, NothingAdded DEF vars, space
<1>2. ASSUME NEW p \in Procs,
             \/ MarkActivating(p) \/ SettleStart(p) \/ Disowned(p) \/ RetireOperation(p)
             \/ ServeActivation(p) \/ ResolveActivation(p) \/ RecoverStart(p)
             \/ ReconcileEvidence(p) \/ ConfirmAdmission(p) \/ EndSync(p) \/ Throw(p)
      PROVE  Frozen(o)
  <2>1. ses' = ses /\ plan' = plan /\ outbox' = outbox
    BY <1>2 DEF MarkActivating, SettleStart, Disowned, RetireOperation, ServeActivation,
       ResolveActivation, RecoverStart, ReconcileEvidence, ConfirmAdmission, EndSync, Throw, space
  <2> QED BY <2>1, NothingAdded
<1>3. ASSUME NEW p \in Procs, NEW x \in Sessions,
             \/ BindRoot(p, x) \/ PushCompound(p, x) \/ PushClock(p, x)
             \/ Claim(p, x) \/ ResumeStart(p, x) \/ Reconcile(p, x) \/ ListStarts(p, x)
             \/ SetCurrentPlanItem(p, x) \/ SetCompletionDraft(p, x) \/ RemovePlanItem(p, x)
             \/ \E kind \in Edits : Edit(p, x, kind)
      PROVE  Frozen(o)
  <2>1. ses' = ses /\ plan' = plan /\ outbox' \subseteq outbox
    BY <1>3 DEF BindRoot, PushCompound, PushClock, Claim, ResumeStart, Reconcile, ListStarts,
       SetCurrentPlanItem, SetCompletionDraft, RemovePlanItem, Refused, Edit, space, vars
  <2> QED BY <2>1, NothingAdded
<1>4. ASSUME NEW p \in Procs, NEW s \in Spaces, StartSync(p, s) PROVE Frozen(o)
  BY <1>4, NothingAdded DEF StartSync, space
<1>5. ASSUME NEW t \in Tabs, PageDies(t) PROVE Frozen(o)
  BY <1>5, NothingAdded DEF PageDies, space
<1>6. ASSUME NEW p \in Procs, Step(p) PROVE Frozen(o)
  BY <1>2, <1>3, <1>6, SessionStepsFreeze, AdmitFreezes DEF Step
<1> QED BY <1>1, <1>2, <1>3, <1>4, <1>5, <1>6, EditsFreeze DEF Next

\* From its admission on neither the session nor a row of it changes: every
\* edit is refused under the fence once the operation has been retired, and
\* an admission takes the rows that are ready as they are.
THEOREM AdmittedFrozen == Spec => AdmittedIsFrozen
<1>1. ASSUME ProvInv, [Next]_vars
      PROVE  [\A o \in Sessions : Admitted(o) =>
                /\ ses'[o] = ses[o] /\ plan'[o] = plan[o]
                /\ \A r \in {x \in outbox' : x.of = o} : r \in outbox]_vars
  BY <1>1, StepsFreeze DEF Frozen
<1> QED BY <1>1, ProvisionalInvariance, PTL DEF Spec, AdmittedIsFrozen
=============================================================================
