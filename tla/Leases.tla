------------------------------ MODULE Leases ------------------------------
(***************************************************************************)
(* How a lease is obtained and given back (runtime/leases.py).  A task     *)
(* climbs scope after scope, in ascending order: the process owner, the    *)
(* global scope, Spaces by identifier.  On each scope it passes the fair   *)
(* lock of its own process, then the turnstile file, then the data file,   *)
(* both shared with the other processes, then reads or moves the fence.    *)
(* It gives back in reverse order.  A task may give up at every await; an  *)
(* unlock may fail; a process may die, which frees its files and nothing   *)
(* else that is durable.                                                   *)
(***************************************************************************)
EXTENDS Naturals, Sequences, FiniteSets

CONSTANTS Procs,       \* operating-system processes
          Tasks,
          ProcOf,      \* task -> its process
          Spaces,      \* identifiers of Spaces, numbers above Global
          Asks,        \* task -> the acquisitions it may make
          MaxAsks,     \* bound: acquisitions per task
          MaxMishaps   \* bound: failed unlocks and dead processes

Owner == 0
Global == 1
Scopes == {Owner, Global} \cup Spaces

Shared == "shared"
Exclusive == "exclusive"
Modes == {Shared, Exclusive}

\* One scope of an acquisition.
Rungs == [scope : Scopes, mode : Modes]

\* acquire_process_owner, acquire_global and acquire_spaces: the scopes of one
\* call, in the order it takes them.
IsAcquisition(r) ==
    /\ r \in Seq(Rungs) /\ r # <<>>
    /\ \/ r = <<[scope |-> Owner, mode |-> Exclusive]>>
       \/ Len(r) = 1 /\ r[1].scope = Global
       \/ /\ \A i \in 1..Len(r) : r[i].scope \in Spaces /\ r[i].mode = r[1].mode
          /\ \A i \in 1..Len(r) - 1 : r[i].scope < r[i + 1].scope

ASSUME ScopeAssumption == Spaces \subseteq Nat \ {Owner, Global}
ASSUME TaskAssumption == ProcOf \in [Tasks -> Procs]
ASSUME AskAssumption ==
    /\ DOMAIN Asks = Tasks
    /\ \A t \in Tasks : \A r \in Asks[t] : IsAcquisition(r)
ASSUME BoundAssumption == MaxAsks \in Nat /\ MaxMishaps \in Nat

VARIABLES
    gates,    \* process -> scope -> its _FairRwLock
    fence,    \* scope -> the value in its fence file
    issued,   \* scope -> the fence of its newest EXCLUSIVE lease (history)
    pc,       \* task -> where its coroutine stands
    want,     \* task -> the scopes of its acquisition not yet taken
    got,      \* task -> the fences of those taken
    stages,   \* task -> what the acquisition or release in progress holds
    leases,   \* task -> its leases, outermost first
    asked,    \* task -> its acquisitions so far
    mishaps

vars == <<gates, fence, issued, pc, want, got, stages, leases, asked, mishaps>>

Labels == {"rest", "arrive", "parked", "woken", "turn", "data", "free", "fence",
           "drop", "stuck", "leaked"}

\* A stage of a release: the fair lock of a scope, or a handle on a file.
Stages == [kind : {"gate", "turn", "data"}, scope : Scopes, mode : Modes]

IdleGate == [readers |-> 0, writer |-> FALSE, waiting |-> 0]

Init ==
    /\ gates = [p \in Procs |-> [s \in Scopes |-> IdleGate]]
    /\ fence = [s \in Scopes |-> 0]
    /\ issued = [s \in Scopes |-> 0]
    /\ pc = [t \in Tasks |-> "rest"]
    /\ want = [t \in Tasks |-> <<>>]
    /\ got = [t \in Tasks |-> <<>>]
    /\ stages = [t \in Tasks |-> <<>>]
    /\ leases = [t \in Tasks |-> <<>>]
    /\ asked = [t \in Tasks |-> 0]
    /\ mishaps = 0

Last(s) == s[Len(s)]
Front(s) == SubSeq(s, 1, Len(s) - 1)

\* The scope task t works on.
Scope(t) == want[t][1].scope
Mode(t) == want[t][1].mode
Stage(t, kind) == [kind |-> kind, scope |-> Scope(t), mode |-> Mode(t)]

\* Everything t holds, in its leases and in progress.
Holds(t, stage) ==
    \/ \E i \in 1..Len(stages[t]) : stages[t][i] = stage
    \/ \E i \in 1..Len(leases[t]) : \E j \in 1..Len(leases[t][i].stages) :
           leases[t][i].stages[j] = stage

-----------------------------------------------------------------------------
(* The fair lock of one process. *)

Gate(t) == gates[ProcOf[t]][Scope(t)]

\* The predicate a coroutine waits for.  Readers yield to waiting writers.
Admits(gate, mode) ==
    /\ ~gate.writer
    /\ IF mode = Shared THEN gate.waiting = 0 ELSE gate.readers = 0

\* Coroutines of process p parked on the condition of scope s.
Parked(p, s) == {t \in Tasks : ProcOf[t] = p /\ pc[t] = "parked" /\ Scope(t) = s}

\* t goes to label l; with it the condition of its gate is notified or not.
Go(t, l) == pc' = [pc EXCEPT ![t] = l]
GoNotify(t, s, l) ==
    pc' = [u \in Tasks |-> IF u = t THEN l
                           ELSE IF u \in Parked(ProcOf[t], s) THEN "woken" ELSE pc[u]]

\* Where a task is that has to give back the stages st.
Unwind(st) == IF st = <<>> THEN "rest" ELSE "drop"

SetGate(t, s, gate) == gates' = [gates EXCEPT ![ProcOf[t]][s] = gate]

Entered(gate, mode) == IF mode = Shared THEN [gate EXCEPT !.readers = @ + 1]
                                        ELSE [gate EXCEPT !.writer = TRUE]
\* Faulty variant: every release counts as one of a reader.
LeftAsReader(gate, mode) == [gate EXCEPT !.readers = @ - 1]
Left(gate, mode) == IF mode = Shared THEN [gate EXCEPT !.readers = @ - 1]
                                     ELSE [gate EXCEPT !.writer = FALSE]

\* The coroutine passes: a writer leaves the queue in "finally" and notifies.
Pass(t, gate) ==
    /\ Admits(gate, Mode(t))
    /\ SetGate(t, Scope(t), Entered(gate, Mode(t)))
    /\ stages' = [stages EXCEPT ![t] = Append(@, Stage(t, "gate"))]
    /\ IF Mode(t) = Shared THEN Go(t, "turn") ELSE GoNotify(t, Scope(t), "turn")

Arrive(t) ==
    /\ pc[t] = "arrive"
    /\ \/ Pass(t, Gate(t))
       \/ /\ ~Admits(Gate(t), Mode(t))
          /\ Go(t, "parked")
          /\ SetGate(t, Scope(t), IF Mode(t) = Shared THEN Gate(t)
                                  ELSE [Gate(t) EXCEPT !.waiting = @ + 1])
          /\ UNCHANGED stages
    /\ UNCHANGED <<fence, issued, want, got, leases, asked, mishaps>>

\* The gate as it is once t no longer waits.
Unqueued(t) == IF Mode(t) = Shared THEN Gate(t)
               ELSE [Gate(t) EXCEPT !.waiting = @ - 1]

Wake(t) ==
    /\ pc[t] = "woken"
    /\ \/ Pass(t, Unqueued(t))
       \/ /\ ~Admits(Unqueued(t), Mode(t))
          /\ Go(t, "parked")
          /\ UNCHANGED <<gates, stages>>
    /\ UNCHANGED <<fence, issued, want, got, leases, asked, mishaps>>

\* Faulty variant: without notify_all in "finally".
LeaveQueueSilently(t) ==
    /\ IF Mode(t) = Exclusive THEN SetGate(t, Scope(t), Unqueued(t))
                              ELSE UNCHANGED gates
    /\ Go(t, Unwind(stages[t]))

\* Cancellation or timeout while it waits: "finally" counts the writer out
\* and wakes whom it held back.
LeaveQueue(t) ==
    IF Mode(t) = Exclusive
    THEN /\ SetGate(t, Scope(t), Unqueued(t))
         /\ GoNotify(t, Scope(t), Unwind(stages[t]))
    ELSE Go(t, Unwind(stages[t])) /\ UNCHANGED gates

-----------------------------------------------------------------------------
(* The files shared by the processes. *)

\* Faulty variant: only a writer stands in the way.
GrantsBesideReaders(t, kind) ==
    \A u \in Tasks :
        ~Holds(u, [kind |-> kind, scope |-> Scope(t), mode |-> Exclusive])

\* The operating system grants t a lock of its mode on a file of its scope.
\* Locks belong to open files: those of t itself and of its process count too.
Grants(t, kind) ==
    \A u \in Tasks, mode \in Modes :
        Holds(u, [kind |-> kind, scope |-> Scope(t), mode |-> mode])
            => mode = Shared /\ Mode(t) = Shared

LockTurn(t) ==
    /\ pc[t] = "turn"
    /\ Grants(t, "turn")
    /\ stages' = [stages EXCEPT ![t] = Append(@, Stage(t, "turn"))]
    /\ Go(t, "data")
    /\ UNCHANGED <<gates, fence, issued, want, got, leases, asked, mishaps>>

\* A reader leaves the turnstile as soon as it has the data file.
LockData(t) ==
    /\ pc[t] = "data"
    /\ Grants(t, "data")
    /\ stages' = [stages EXCEPT ![t] = Append(@, Stage(t, "data"))]
    /\ Go(t, IF Mode(t) = Shared THEN "free" ELSE "fence")
    /\ UNCHANGED <<gates, fence, issued, want, got, leases, asked, mishaps>>

FreeTurn(t) ==
    /\ pc[t] = "free"
    /\ stages' = [stages EXCEPT ![t] = Append(Front(Front(@)), Last(@))]
    /\ Go(t, "fence")
    /\ UNCHANGED <<gates, fence, issued, want, got, leases, asked, mishaps>>

-----------------------------------------------------------------------------
(* Acquisition and release. *)

Innermost(t) == IF leases[t] = <<>> THEN "none"
                ELSE IF Owner \in DOMAIN Last(leases[t]).fences THEN "owner"
                ELSE IF Global \in DOMAIN Last(leases[t]).fences THEN "global"
                ELSE "spaces"

\* The levels of _HELD_ORDER.
InOrder(t, scope) == IF scope = Owner THEN Innermost(t) = "none"
                     ELSE IF scope = Global THEN Innermost(t) \in {"none", "owner"}
                     ELSE Innermost(t) = "global"

Ask(t, rungs) ==
    /\ pc[t] = "rest"
    /\ asked[t] < MaxAsks
    /\ InOrder(t, rungs[1].scope)
    /\ want' = [want EXCEPT ![t] = rungs]
    /\ got' = [got EXCEPT ![t] = <<>>]
    /\ asked' = [asked EXCEPT ![t] = @ + 1]
    /\ Go(t, IF rungs[1].scope = Owner THEN "data" ELSE "arrive")
    /\ UNCHANGED <<gates, fence, issued, stages, leases, mishaps>>

\* Faulty variant: readers move the fence too.
FenceAfterAny(t) == [fence EXCEPT ![Scope(t)] = @ + 1]

\* Faulty variant: the fence is read, not moved, once a scope was issued.
FenceAfterKept(t) ==
    [fence EXCEPT ![Scope(t)] = IF Mode(t) = Exclusive /\ @ = 0 THEN 1 ELSE @]

\* next_fence moves the counter of a scope taken EXCLUSIVE.
FenceAfter(t) == [fence EXCEPT ![Scope(t)] = IF Mode(t) = Exclusive THEN @ + 1 ELSE @]

\* The last scope is taken: the stages become those of a lease.
Publish(t, fences) ==
    /\ leases' = [leases EXCEPT ![t] =
           Append(@, [mode |-> Mode(t), fences |-> fences, stages |-> stages[t]])]
    /\ stages' = [stages EXCEPT ![t] = <<>>]
    /\ want' = [want EXCEPT ![t] = <<>>]
    /\ got' = [got EXCEPT ![t] = <<>>]
    /\ issued' = [s \in Scopes |-> IF Mode(t) = Exclusive /\ s \in DOMAIN fences
                                   THEN fences[s] ELSE issued[s]]
    /\ Go(t, "rest")

TakeFence(t) ==
    LET fences == [s \in DOMAIN got[t] \cup {Scope(t)} |->
                       IF s = Scope(t) THEN FenceAfter(t)[s] ELSE got[t][s]]
    IN  /\ pc[t] = "fence"
        /\ fence' = FenceAfter(t)
        /\ IF Len(want[t]) = 1 THEN Publish(t, fences)
           ELSE /\ want' = [want EXCEPT ![t] = Tail(@)]
                /\ got' = [got EXCEPT ![t] = fences]
                /\ Go(t, "arrive")
                /\ UNCHANGED <<issued, stages, leases>>
        /\ UNCHANGED <<gates, asked, mishaps>>

\* The acquisition fails: timeout, cancellation, an unlock of the turnstile
\* that failed.  A fence may already have been moved (_release_acquired).
GiveUp(t) ==
    /\ \/ pc[t] \in {"parked", "woken"} /\ LeaveQueue(t) /\ UNCHANGED fence
       \/ /\ pc[t] \in {"turn", "data", "free"}
          /\ Go(t, Unwind(stages[t]))
          /\ UNCHANGED <<gates, fence>>
       \/ /\ pc[t] = "fence"
          /\ Go(t, "drop")
          /\ fence' = FenceAfter(t)
          /\ UNCHANGED gates
    /\ want' = [want EXCEPT ![t] = <<>>]
    /\ got' = [got EXCEPT ![t] = <<>>]
    /\ UNCHANGED <<issued, stages, leases, asked, mishaps>>

\* Lease.release, only of the innermost lease.
Release(t) ==
    /\ pc[t] = "rest" /\ leases[t] # <<>>
    /\ stages' = [stages EXCEPT ![t] = Last(leases[t]).stages]
    /\ leases' = [leases EXCEPT ![t] = Front(@)]
    /\ Go(t, "drop")
    /\ UNCHANGED <<gates, fence, issued, want, got, asked, mishaps>>

\* The next stage of a release: strictly from the last to the first.
Shed(t) ==
    LET top == Last(stages[t])
        rest == Front(stages[t])
    IN  /\ pc[t] = "drop"
        /\ stages' = [stages EXCEPT ![t] = rest]
        /\ IF top.kind = "gate"
           THEN /\ SetGate(t, top.scope, Left(gates[ProcOf[t]][top.scope], top.mode))
                /\ GoNotify(t, top.scope, Unwind(rest))
           ELSE Go(t, Unwind(rest)) /\ UNCHANGED gates
        /\ UNCHANGED <<fence, issued, want, got, leases, asked, mishaps>>

\* An unlock raises: the remaining stages, and every outer lease, stay held.
FailUnlock(t) ==
    /\ pc[t] = "drop" /\ Last(stages[t]).kind # "gate"
    /\ mishaps < MaxMishaps
    /\ mishaps' = mishaps + 1
    /\ Go(t, IF Last(stages[t]).scope = Owner THEN "leaked" ELSE "stuck")
    /\ UNCHANGED <<gates, fence, issued, want, got, stages, leases, asked>>

\* retry_pending_cleanups_for_current_task, which the owner's task calls.  An
\* outer lease whose release was refused meanwhile is registered after the
\* inner one, is tried first, and is refused again: the process has to exit.
Retry(t) ==
    /\ pc[t] = "stuck"
    /\ leases[t] # <<>> /\ Owner \in DOMAIN leases[t][1].fences
    /\ Go(t, IF Len(leases[t]) = 1 THEN "drop" ELSE "leaked")
    /\ UNCHANGED <<gates, fence, issued, want, got, stages, leases, asked, mishaps>>

\* The operating system frees the files of a dead process.
Die(p) ==
    LET ours == {t \in Tasks : ProcOf[t] = p}
        Reset(f, v) == [t \in Tasks |-> IF t \in ours THEN v ELSE f[t]]
    IN  /\ mishaps < MaxMishaps
        /\ mishaps' = mishaps + 1
        /\ gates' = [gates EXCEPT ![p] = [s \in Scopes |-> IdleGate]]
        /\ pc' = Reset(pc, "rest")
        /\ want' = Reset(want, <<>>) /\ got' = Reset(got, <<>>)
        /\ stages' = Reset(stages, <<>>) /\ leases' = Reset(leases, <<>>)
        /\ UNCHANGED <<fence, issued, asked>>

-----------------------------------------------------------------------------
\* What the event loop runs as soon as it can.
Step(t) == \/ Arrive(t) \/ Wake(t) \/ LockTurn(t) \/ LockData(t) \/ FreeTurn(t)
           \/ TakeFence(t) \/ Release(t) \/ Shed(t)

Next == \/ \E t \in Tasks : \/ Step(t)
                            \/ \E rungs \in Asks[t] : Ask(t, rungs)
                            \/ GiveUp(t) \/ FailUnlock(t) \/ Retry(t)
        \/ \E p \in Procs : Die(p)

Spec == Init /\ [][Next]_vars

\* Some coroutine that can run is run, some file that is free is granted to
\* one that polls for it, and bodies of leases end.  That is less than what
\* the event loops do.  Timeouts and cancellations may stay away for ever.
FairSpec == Spec /\ WF_vars(\E t \in Tasks : Step(t))

-----------------------------------------------------------------------------
(* Properties. *)

\* Every variable has its type.
TypeOK ==
    /\ gates \in [Procs -> [Scopes -> [readers : Nat, writer : BOOLEAN, waiting : Nat]]]
    /\ fence \in [Scopes -> Nat] /\ issued \in [Scopes -> Nat]
    /\ pc \in [Tasks -> Labels]
    /\ want \in [Tasks -> Seq(Rungs)]
    /\ stages \in [Tasks -> Seq(Stages)]
    /\ DOMAIN got = Tasks /\ DOMAIN leases = Tasks
    /\ \A t \in Tasks : DOMAIN got[t] \subseteq Scopes
    /\ asked \in [Tasks -> Nat] /\ mishaps \in Nat

\* The leases of a task as SpaceLease sees them.
HeldBy(t, lease) == {[task |-> t, scope |-> s, mode |-> lease.mode,
                      fence |-> lease.fences[s]] : s \in DOMAIN lease.fences}
Held == UNION {UNION {HeldBy(t, leases[t][i]) : i \in 1..Len(leases[t])} : t \in Tasks}

\* Two tasks, of one process or of two, never both hold a scope unless both
\* hold it SHARED (the OS locks are taken one file after the other and given
\* back one by one, also when the release fails half-way).
Exclusion ==
    \A a, b \in Held : a.scope = b.scope /\ a.task # b.task
                           => a.mode = Shared /\ b.mode = Shared

\* The fence a lease carries is the one in the file as long as the lease
\* lasts: FenceReceipt.assert_current never fails for a live lease, whatever
\* acquisitions fail meanwhile.
HeldFenceIsCurrent == \A h \in Held : h.fence = fence[h.scope]

\* Leases implement what their holders are promised.
SL == INSTANCE SpaceLease WITH held <- Held
ImplementsSpaceLease == SL!Spec

\* Without any timeout all acquisitions and leases come to their end: no
\* notification is lost, and no tasks wait for each other across the fair
\* locks, the turnstiles and the data files.  Only an unlock that failed may
\* block others, until they time out.
Quiet(t) == pc[t] = "rest" /\ leases[t] = <<>>
Drains == []<>((\A t \in Tasks : Quiet(t)) \/ (\E t \in Tasks : pc[t] \in {"stuck", "leaked"}))
=============================================================================
