---------------------------- MODULE LeaseProofs ----------------------------
(***************************************************************************)
(* Proofs about the leases, for any number of processes, tasks, Spaces and *)
(* acquisitions: no two tasks hold a scope unless both share it, and the   *)
(* fence of a lease stays the one in the file as long as the lease lasts.  *)
(*                                                                         *)
(* Both rest on the data files.  The argument speaks of slots: what a task *)
(* holds in an acquisition or release under way (stages), and what it      *)
(* holds in each of its leases.  Every scope of a lease, and every scope   *)
(* an acquisition has taken, has its data file in the slot (Current); of   *)
(* two slots that have the same data file both share it (Alone); and a     *)
(* fence is moved only by a slot that has the data file EXCLUSIVE (Shape). *)
(*                                                                         *)
(* The fair lock of a process is proved apart: it counts the places among  *)
(* the slots of its tasks where it is held SHARED, and the writers that    *)
(* wait (GateInv), so that no counter falls below zero.                    *)
(***************************************************************************)
EXTENDS Leases, FiniteSetTheorems, TLAPS

FenceMaps == UNION {[D -> Nat] : D \in SUBSET Scopes}
LeaseRecords == [mode : Modes, fences : FenceMaps, stages : Seq(Stages)]

\* The data files among stages q, with the mode each is locked in.
Data(q) == {x \in Scopes \X Modes : \E j \in 1..Len(q) :
                q[j] = [kind |-> "data", scope |-> x[1], mode |-> x[2]]}

Compatible(A, B) ==
    \A x \in A, y \in B : x[1] = y[1] => x[2] = Shared /\ y[2] = Shared

Climbing == {"arrive", "parked", "woken", "turn", "data", "free", "fence"}

Typed ==
    /\ fence \in [Scopes -> Nat] /\ issued \in [Scopes -> Nat]
    /\ pc \in [Tasks -> Labels]
    /\ want \in [Tasks -> Seq(Rungs)]
    /\ stages \in [Tasks -> Seq(Stages)]
    /\ got \in [Tasks -> FenceMaps]
    /\ leases \in [Tasks -> Seq(LeaseRecords)]

\* What a task has in hand where its coroutine stands.
Shape(t) ==
    /\ pc[t] \in Climbing =>
           /\ want[t] # <<>>
           /\ \A i \in 1..Len(want[t]) :
                  /\ want[t][i].mode = Mode(t)
                  /\ want[t][i].scope = Owner => want[t][i].mode = Exclusive
    /\ pc[t] \notin Climbing => DOMAIN got[t] = {}
    /\ pc[t] = "data" /\ Scope(t) # Owner =>
           stages[t] # <<>> /\ Last(stages[t]) = Stage(t, "turn")
    /\ pc[t] = "free" =>
           /\ Len(stages[t]) >= 2
           /\ stages[t][Len(stages[t]) - 1].kind = "turn"
           /\ Last(stages[t]) = Stage(t, "data")
    /\ pc[t] = "fence" => <<Scope(t), Mode(t)>> \in Data(stages[t])
    /\ pc[t] \in {"free", "fence"} /\ Mode(t) = Exclusive => Scope(t) \notin DOMAIN got[t]
    /\ pc[t] \in {"drop", "stuck"} => stages[t] # <<>>

\* The scopes taken have their data file in the slot, and their fence is the
\* one in the file.
CurrentGot(t) == \A s \in DOMAIN got[t] :
    <<s, Mode(t)>> \in Data(stages[t]) /\ got[t][s] = fence[s]

CurrentUnder(lease, file) ==
    /\ lease.stages # <<>>
    /\ \A s \in DOMAIN lease.fences :
           <<s, lease.mode>> \in Data(lease.stages) /\ lease.fences[s] = file[s]
CurrentLease(lease) == CurrentUnder(lease, fence)

Current(t) == CurrentGot(t) /\ \A i \in 1..Len(leases[t]) : CurrentLease(leases[t][i])

\* Two slots that have the same data file both share it.
AloneInHand == \A t, u \in Tasks :
    t # u => Compatible(Data(stages[t]), Data(stages[u]))
AloneBeside == \A t, u \in Tasks : \A l \in 1..Len(leases[u]) :
    Compatible(Data(stages[t]), Data(leases[u][l].stages))
AloneInLeases == \A t, u \in Tasks :
    \A k \in 1..Len(leases[t]), l \in 1..Len(leases[u]) :
        t # u \/ k # l =>
            Compatible(Data(leases[t][k].stages), Data(leases[u][l].stages))
Alone == AloneInHand /\ AloneBeside /\ AloneInLeases

LeaseInv == /\ Typed
            /\ \A t \in Tasks : Shape(t)
            /\ \A t \in Tasks : Current(t)
            /\ Alone

-----------------------------------------------------------------------------
(* Sequences of stages. *)

\* What remains of a non-empty sequence, and its last element.
LEMMA FrontLast ==
    ASSUME NEW S, NEW q \in Seq(S), q # <<>>
    PROVE  /\ Len(q) \in Nat \ {0}
           /\ Front(q) \in Seq(S) /\ Len(Front(q)) = Len(q) - 1
           /\ \A i \in 1..Len(q) - 1 : Front(q)[i] = q[i]
           /\ Last(q) \in S /\ Last(q) = q[Len(q)]
<1>1. /\ Len(q) \in Nat \ {0} /\ \A i \in 1..Len(q) : q[i] \in S
  OBVIOUS
<1>2. /\ SubSeq(q, 1, Len(q) - 1) \in Seq(S)
      /\ Len(SubSeq(q, 1, Len(q) - 1)) = Len(q) - 1
      /\ \A i \in 1..Len(q) - 1 : SubSeq(q, 1, Len(q) - 1)[i] = q[i]
  BY <1>1
<1> QED BY <1>1, <1>2 DEF Front, Last

LEMMA Appended ==
    ASSUME NEW S, NEW q \in Seq(S), NEW e \in S
    PROVE  /\ Append(q, e) \in Seq(S) /\ Append(q, e) # <<>>
           /\ Len(Append(q, e)) = Len(q) + 1
           /\ \A i \in 1..Len(q) : Append(q, e)[i] = q[i]
           /\ Append(q, e)[Len(q) + 1] = e
           /\ Last(Append(q, e)) = e
BY DEF Last

LEMMA NoData == Data(<<>>) = {}
BY DEF Data

\* A lock that is put on top adds its data file, if it is one.
LEMMA DataAppend ==
    ASSUME NEW q \in Seq(Stages), NEW e \in Stages
    PROVE  /\ Data(q) \subseteq Data(Append(q, e))
           /\ e.kind # "data" => Data(Append(q, e)) = Data(q)
           /\ e.kind = "data" =>
                  Data(Append(q, e)) = Data(q) \cup {<<e.scope, e.mode>>}
<1>1. /\ Len(Append(q, e)) = Len(q) + 1 /\ Len(q) \in Nat
      /\ \A i \in 1..Len(q) : Append(q, e)[i] = q[i]
      /\ Append(q, e)[Len(q) + 1] = e
  OBVIOUS
<1>2. ASSUME NEW x \in Scopes \X Modes
      PROVE  x \in Data(Append(q, e)) <=>
                 x \in Data(q) \/ e = [kind |-> "data", scope |-> x[1], mode |-> x[2]]
  BY <1>1 DEF Data
<1>3. /\ e.kind \in {"gate", "turn", "data"} /\ e.scope \in Scopes /\ e.mode \in Modes
      /\ e = [kind |-> e.kind, scope |-> e.scope, mode |-> e.mode]
  BY DEF Stages
<1>4. Data(Append(q, e)) \subseteq Scopes \X Modes /\ Data(q) \subseteq Scopes \X Modes
  BY DEF Data
<1>5. CASE e.kind = "data"
  <2>1. ASSUME NEW x \in Scopes \X Modes
        PROVE  e = [kind |-> "data", scope |-> x[1], mode |-> x[2]]
                   <=> x = <<e.scope, e.mode>>
    BY <1>3, <1>5
  <2> QED BY <1>2, <1>3, <1>4, <1>5, <2>1
<1>6. CASE e.kind # "data"
  <2>1. ASSUME NEW x \in Scopes \X Modes
        PROVE  e # [kind |-> "data", scope |-> x[1], mode |-> x[2]]
    BY <1>6
  <2> QED BY <1>2, <1>4, <1>6, <2>1
<1> QED BY <1>5, <1>6

LEMMA DataFront ==
    ASSUME NEW q \in Seq(Stages), q # <<>>
    PROVE  Data(Front(q)) \subseteq Data(q)
<1>1. /\ Len(q) \in Nat \ {0} /\ Len(Front(q)) = Len(q) - 1
      /\ \A i \in 1..Len(q) - 1 : Front(q)[i] = q[i]
  BY FrontLast
<1> QED BY <1>1 DEF Data

\* A reader that leaves the turnstile keeps its data files.
LEMMA DataFreeTurn ==
    ASSUME NEW q \in Seq(Stages), Len(q) >= 2, q[Len(q) - 1].kind = "turn"
    PROVE  /\ Append(Front(Front(q)), Last(q)) \in Seq(Stages)
           /\ Data(Append(Front(Front(q)), Last(q))) = Data(q)
<1> DEFINE r == Append(Front(Front(q)), Last(q))
<1>1. /\ q # <<>> /\ Len(q) \in Nat
  OBVIOUS
<1>2. /\ Front(q) \in Seq(Stages) /\ Len(Front(q)) = Len(q) - 1
      /\ \A i \in 1..Len(q) - 1 : Front(q)[i] = q[i]
      /\ Last(q) \in Stages /\ Last(q) = q[Len(q)]
  BY <1>1, FrontLast DEF Last
<1>3. Front(q) # <<>>
  BY <1>1, <1>2
<1>4. /\ Front(Front(q)) \in Seq(Stages) /\ Len(Front(Front(q))) = Len(q) - 2
      /\ \A i \in 1..Len(q) - 2 : Front(Front(q))[i] = q[i]
  <2> DEFINE f == Front(q)
  <2>1. /\ Front(f) \in Seq(Stages) /\ Len(Front(f)) = Len(f) - 1
        /\ \A i \in 1..Len(f) - 1 : Front(f)[i] = f[i]
    BY <1>2, <1>3, FrontLast
  <2> QED BY <1>1, <1>2, <2>1
<1>5. /\ r \in Seq(Stages) /\ Len(r) = Len(q) - 1
      /\ \A i \in 1..Len(q) - 2 : r[i] = q[i]
      /\ r[Len(q) - 1] = q[Len(q)]
  BY <1>1, <1>2, <1>4, Appended
<1> HIDE DEF r
<1>6. ASSUME NEW x \in Data(r) PROVE x \in Data(q)
  <2>1. PICK j \in 1..Len(q) - 1 : r[j] = [kind |-> "data", scope |-> x[1], mode |-> x[2]]
    BY <1>5, <1>6 DEF Data
  <2>2. \E k \in 1..Len(q) : q[k] = r[j]
    BY <1>1, <1>5, <2>1
  <2> QED BY <1>6, <2>1, <2>2 DEF Data
<1>7. ASSUME NEW x \in Data(q) PROVE x \in Data(r)
  <2>1. PICK j \in 1..Len(q) : q[j] = [kind |-> "data", scope |-> x[1], mode |-> x[2]]
    BY <1>7 DEF Data
  <2>2. j # Len(q) - 1
    BY <2>1
  <2>3. \E k \in 1..Len(q) - 1 : r[k] = q[j]
    BY <1>1, <1>5, <2>1, <2>2
  <2> QED BY <1>5, <1>7, <2>1, <2>3 DEF Data
<1> QED BY <1>5, <1>6, <1>7 DEF r

-----------------------------------------------------------------------------
(* What a step of one task leaves alone. *)

\* The step is none of u's, which at most is woken by it.
Same(u) == /\ want'[u] = want[u] /\ got'[u] = got[u]
           /\ stages'[u] = stages[u] /\ leases'[u] = leases[u]
           /\ pc'[u] = pc[u] \/ (pc[u] = "parked" /\ pc'[u] = "woken")

\* No scope of a lease, or taken by another task than t, has its fence moved.
Steady(t) ==
    /\ \A u \in Tasks : \A i \in 1..Len(leases[u]) :
           \A s \in DOMAIN leases[u][i].fences : fence'[s] = fence[s]
    /\ \A u \in Tasks \ {t} : \A s \in DOMAIN got[u] : fence'[s] = fence[s]

LEMMA ShapeKept ==
    ASSUME NEW u \in Tasks, Typed, Shape(u), Same(u)
    PROVE  Shape(u)'
<1>1. Climbing = {"arrive", "parked", "woken", "turn", "data", "free", "fence"}
  BY DEF Climbing
<1>2. CASE pc'[u] = pc[u]
  BY <1>2 DEF Same, Shape, Mode, Scope, Stage
<1>3. CASE pc[u] = "parked" /\ pc'[u] = "woken"
  BY <1>1, <1>3 DEF Same, Shape, Mode, Scope, Stage
<1> QED BY <1>2, <1>3 DEF Same

\* The task reads or gives back: it takes no data file and no lease changes.
LEMMA LocalStep ==
    ASSUME LeaseInv, NEW t \in Tasks, Typed', Shape(t)',
           \A u \in Tasks \ {t} : Same(u), leases'[t] = leases[t],
           Data(stages'[t]) \subseteq Data(stages[t]),
           Steady(t), CurrentGot(t)'
    PROVE  LeaseInv'
<1>1. \A u \in Tasks : Shape(u)'
  BY ShapeKept DEF LeaseInv
<1>2. \A u \in Tasks : leases'[u] = leases[u]
  BY DEF Same
<1>3. \A u \in Tasks : Data(stages'[u]) \subseteq Data(stages[u])
  BY DEF Same
<1>4. ASSUME NEW u \in Tasks PROVE Current(u)'
  <2>1. CurrentGot(u)'
    BY DEF LeaseInv, Current, CurrentGot, Same, Steady, Mode
  <2>2. ASSUME NEW i \in 1..Len(leases[u])
        PROVE  CurrentLease(leases[u][i])'
    BY <1>2 DEF LeaseInv, Current, CurrentLease, CurrentUnder, Steady
  <2> QED BY <1>2, <2>1, <2>2 DEF Current, CurrentLease, CurrentUnder
<1>5. AloneInHand'
  BY <1>3 DEF LeaseInv, Alone, AloneInHand, Compatible
<1>6. AloneBeside'
  BY <1>2, <1>3 DEF LeaseInv, Alone, AloneBeside, Compatible
<1>7. AloneInLeases'
  BY <1>2 DEF LeaseInv, Alone, AloneInLeases, Compatible
<1> QED BY <1>1, <1>4, <1>5, <1>6, <1>7 DEF LeaseInv, Alone

\* A step that leaves the fences alone.
LEMMA SteadyFence ==
    ASSUME NEW t \in Tasks, fence' = fence
    PROVE  Steady(t)
BY DEF Steady

\* A task that takes a fence moves one that no lease and no other task relies
\* on: it has the data file EXCLUSIVE if it moves it at all.
LEMMA FenceMoves ==
    ASSUME LeaseInv, NEW t \in Tasks, pc[t] = "fence", fence' = FenceAfter(t)
    PROVE  /\ fence' \in [Scopes -> Nat]
           /\ Steady(t)
           /\ \A s \in DOMAIN got[t] : fence'[s] = fence[s]
           /\ Scope(t) \in Scopes /\ Mode(t) \in Modes
<1>1. /\ want[t] \in Seq(Rungs) /\ want[t] # <<>> /\ fence \in [Scopes -> Nat]
      /\ <<Scope(t), Mode(t)>> \in Data(stages[t])
      /\ Mode(t) = Exclusive => Scope(t) \notin DOMAIN got[t]
  BY DEF LeaseInv, Typed, Shape, Climbing
<1>2. Scope(t) \in Scopes /\ Mode(t) \in Modes
  BY <1>1 DEF Data
<1>3. /\ fence' \in [Scopes -> Nat]
      /\ \A s \in Scopes : s # Scope(t) \/ Mode(t) # Exclusive => fence'[s] = fence[s]
  BY <1>1, <1>2 DEF FenceAfter
<1>4. \A u \in Tasks : DOMAIN got[u] \subseteq Scopes
  BY DEF LeaseInv, Typed, FenceMaps
<1>5. ASSUME NEW u \in Tasks, NEW i \in 1..Len(leases[u]),
             NEW s \in DOMAIN leases[u][i].fences
      PROVE  fence'[s] = fence[s]
  <2>1. <<s, leases[u][i].mode>> \in Data(leases[u][i].stages)
    BY DEF LeaseInv, Current, CurrentLease, CurrentUnder
  <2>2. s \in Scopes
    BY <2>1 DEF Data
  <2>3. s = Scope(t) => Mode(t) = Shared
    BY <1>1, <2>1 DEF LeaseInv, Alone, AloneBeside, Compatible
  <2> QED BY <1>3, <2>2, <2>3 DEF Shared, Exclusive
<1>6. ASSUME NEW u \in Tasks \ {t}, NEW s \in DOMAIN got[u]
      PROVE  fence'[s] = fence[s]
  <2>1. <<s, Mode(u)>> \in Data(stages[u])
    BY DEF LeaseInv, Current, CurrentGot
  <2>2. s = Scope(t) => Mode(t) = Shared
    BY <1>1, <2>1 DEF LeaseInv, Alone, AloneInHand, Compatible
  <2> QED BY <1>3, <1>4, <2>2 DEF Shared, Exclusive
<1> QED BY <1>1, <1>2, <1>3, <1>4, <1>5, <1>6 DEF Steady

\* A scope that t wants, and the stage it takes of it.
LEMMA Wanted ==
    ASSUME LeaseInv, NEW t \in Tasks, pc[t] \in Climbing
    PROVE  /\ want[t] \in Seq(Rungs) /\ want[t] # <<>> /\ Len(want[t]) \in Nat \ {0}
           /\ Scope(t) \in Scopes /\ Mode(t) \in Modes
           /\ \A kind \in {"gate", "turn", "data"} : Stage(t, kind) \in Stages
           /\ stages[t] \in Seq(Stages)
<1>1. want[t] \in Seq(Rungs) /\ want[t] # <<>> /\ stages[t] \in Seq(Stages)
  BY DEF LeaseInv, Typed, Shape
<1>2. want[t][1] \in Rungs /\ Len(want[t]) \in Nat \ {0}
  BY <1>1
<1> QED BY <1>1, <1>2 DEF Rungs, Scope, Mode, Stage, Stages

-----------------------------------------------------------------------------
(* The steps, one by one. *)

\* t goes to label l and may wake others.
Moved(t, l) == /\ pc' \in [Tasks -> Labels] /\ pc'[t] = l
               /\ \A u \in Tasks \ {t} :
                      pc'[u] = pc[u] \/ (pc[u] = "parked" /\ pc'[u] = "woken")

LEMMA GoMoves ==
    ASSUME Typed, NEW t \in Tasks, NEW l \in Labels,
           Go(t, l) \/ \E s \in Scopes : GoNotify(t, s, l)
    PROVE  Moved(t, l)
<1>1. CASE Go(t, l)
  BY <1>1 DEF Typed, Go, Moved
<1>2. CASE \E s \in Scopes : GoNotify(t, s, l)
  <2>1. PICK s \in Scopes : GoNotify(t, s, l)
    BY <1>2
  <2>2. "woken" \in Labels
    BY DEF Labels
  <2>3. \A u \in Tasks : pc'[u] = (IF u = t THEN l
            ELSE IF u \in Parked(ProcOf[t], s) THEN "woken" ELSE pc[u])
    BY <2>1 DEF GoNotify
  <2>4. pc' \in [Tasks -> Labels]
    BY <2>1, <2>2 DEF Typed, GoNotify
  <2> QED BY <2>3, <2>4 DEF Moved, Parked
<1> QED BY <1>1, <1>2

\* A task passes the fair lock.
LEMMA PassInv ==
    ASSUME LeaseInv, NEW t \in Tasks, pc[t] \in {"arrive", "woken"},
           Moved(t, "turn"),
           stages' = [stages EXCEPT ![t] = Append(@, Stage(t, "gate"))],
           UNCHANGED <<fence, issued, want, got, leases>>
    PROVE  LeaseInv'
<1>1. /\ stages[t] \in Seq(Stages) /\ Stage(t, "gate") \in Stages
      /\ Stage(t, "gate").kind = "gate" /\ pc[t] \in Climbing
  BY Wanted DEF Climbing, Stage
<1>2. /\ stages'[t] = Append(stages[t], Stage(t, "gate"))
      /\ stages'[t] \in Seq(Stages)
      /\ Data(stages'[t]) = Data(stages[t])
  BY <1>1, DataAppend DEF LeaseInv, Typed
<1>3. Typed'
  BY <1>2 DEF LeaseInv, Typed, Moved
<1>4. \A u \in Tasks \ {t} : Same(u)
  BY DEF LeaseInv, Typed, Moved, Same
<1>5. Shape(t)'
  BY <1>1 DEF LeaseInv, Shape, Moved, Climbing, Mode, Scope
<1>6. CurrentGot(t)'
  BY <1>2 DEF LeaseInv, Current, CurrentGot, Mode
<1> QED BY <1>2, <1>3, <1>4, <1>5, <1>6, SteadyFence, LocalStep

\* It waits at the fair lock.
LEMMA ParkInv ==
    ASSUME LeaseInv, NEW t \in Tasks, pc[t] \in {"arrive", "woken"},
           Moved(t, "parked"),
           UNCHANGED <<fence, issued, want, got, stages, leases>>
    PROVE  LeaseInv'
<1>1. Typed'
  BY DEF LeaseInv, Typed, Moved
<1>2. \A u \in Tasks \ {t} : Same(u)
  BY DEF Moved, Same
<1>3. Shape(t)'
  BY DEF LeaseInv, Shape, Moved, Climbing, Mode, Scope
<1>4. CurrentGot(t)'
  BY DEF LeaseInv, Current, CurrentGot, Mode
<1> QED BY <1>1, <1>2, <1>3, <1>4, SteadyFence, LocalStep

LEMMA ArriveInv ==
    ASSUME LeaseInv, NEW t \in Tasks, Arrive(t) \/ Wake(t)
    PROVE  LeaseInv'
<1>1. /\ pc[t] \in {"arrive", "woken"}
      /\ UNCHANGED <<fence, issued, want, got, leases>>
  BY DEF Arrive, Wake
<1>2. Typed /\ "turn" \in Labels /\ "parked" \in Labels /\ Scope(t) \in Scopes
  BY <1>1, Wanted DEF LeaseInv, Labels, Climbing
<1>3. CASE \E gate : Pass(t, gate)
  <2>1. /\ stages' = [stages EXCEPT ![t] = Append(@, Stage(t, "gate"))]
        /\ Go(t, "turn") \/ GoNotify(t, Scope(t), "turn")
    BY <1>3 DEF Pass
  <2>2. Moved(t, "turn")
    BY <1>2, <2>1, GoMoves
  <2> QED BY <1>1, <2>1, <2>2, PassInv
<1>4. CASE Go(t, "parked") /\ UNCHANGED stages
  BY <1>1, <1>2, <1>4, GoMoves, ParkInv
<1> QED BY <1>3, <1>4 DEF Arrive, Wake

LEMMA LockTurnInv ==
    ASSUME LeaseInv, NEW t \in Tasks, LockTurn(t)
    PROVE  LeaseInv'
<1>1. /\ pc[t] = "turn" /\ pc[t] \in Climbing
      /\ stages' = [stages EXCEPT ![t] = Append(@, Stage(t, "turn"))]
      /\ UNCHANGED <<fence, issued, want, got, leases>>
  BY DEF LockTurn, Climbing
<1>2. Moved(t, "data")
  BY GoMoves DEF LockTurn, LeaseInv, Labels
<1>3. /\ stages[t] \in Seq(Stages) /\ Stage(t, "turn") \in Stages
      /\ Stage(t, "turn").kind = "turn"
  BY <1>1, Wanted DEF Stage
<1>4. /\ stages'[t] = Append(stages[t], Stage(t, "turn"))
      /\ stages'[t] \in Seq(Stages)
      /\ Data(stages'[t]) = Data(stages[t])
      /\ stages'[t] # <<>> /\ Last(stages'[t]) = Stage(t, "turn")
  <2>1. stages'[t] = Append(stages[t], Stage(t, "turn"))
    BY <1>1 DEF LeaseInv, Typed
  <2>2. /\ Append(stages[t], Stage(t, "turn")) \in Seq(Stages)
        /\ Append(stages[t], Stage(t, "turn")) # <<>>
        /\ Last(Append(stages[t], Stage(t, "turn"))) = Stage(t, "turn")
    BY <1>3, Appended
  <2> QED BY <1>3, <2>1, <2>2, DataAppend
<1>5. Typed'
  BY <1>1, <1>2, <1>4 DEF LeaseInv, Typed, Moved
<1>6. \A u \in Tasks \ {t} : Same(u)
  BY <1>1, <1>2 DEF LeaseInv, Typed, Moved, Same
<1>7. Shape(t)'
  BY <1>1, <1>2, <1>4 DEF LeaseInv, Shape, Moved, Climbing, Mode, Scope, Stage
<1>8. CurrentGot(t)'
  BY <1>1, <1>4 DEF LeaseInv, Current, CurrentGot, Mode
<1> QED BY <1>1, <1>4, <1>5, <1>6, <1>7, <1>8, SteadyFence, LocalStep

LEMMA FreeTurnInv ==
    ASSUME LeaseInv, NEW t \in Tasks, FreeTurn(t)
    PROVE  LeaseInv'
<1> DEFINE q == stages[t]
<1>1. /\ pc[t] = "free" /\ pc[t] \in Climbing
      /\ stages' = [stages EXCEPT ![t] = Append(Front(Front(q)), Last(q))]
      /\ UNCHANGED <<fence, issued, want, got, leases>>
  BY DEF FreeTurn, Climbing
<1>2. Moved(t, "fence")
  BY GoMoves DEF FreeTurn, LeaseInv, Labels
<1>3. /\ q \in Seq(Stages) /\ Len(q) >= 2 /\ q[Len(q) - 1].kind = "turn"
      /\ Last(q) = Stage(t, "data")
      /\ Mode(t) = Exclusive => Scope(t) \notin DOMAIN got[t]
      /\ Scope(t) \in Scopes /\ Mode(t) \in Modes
  BY <1>1, Wanted DEF LeaseInv, Shape
<1>4. /\ stages'[t] \in Seq(Stages) /\ Data(stages'[t]) = Data(q)
  BY <1>1, <1>3, DataFreeTurn DEF LeaseInv, Typed
<1>5. <<Scope(t), Mode(t)>> \in Data(q)
  <2>1. Len(q) \in 1..Len(q) /\ q[Len(q)] = Stage(t, "data")
    BY <1>3 DEF Last
  <2> QED BY <1>3, <2>1 DEF Data, Stage
<1>6. Typed'
  BY <1>1, <1>2, <1>4 DEF LeaseInv, Typed, Moved
<1>7. \A u \in Tasks \ {t} : Same(u)
  BY <1>1, <1>2 DEF LeaseInv, Typed, Moved, Same
<1>8. Shape(t)'
  BY <1>1, <1>2, <1>3, <1>4, <1>5 DEF LeaseInv, Shape, Moved, Climbing, Mode, Scope
<1>9. CurrentGot(t)'
  BY <1>1, <1>4 DEF LeaseInv, Current, CurrentGot, Mode
<1> QED BY <1>1, <1>4, <1>6, <1>7, <1>8, <1>9, SteadyFence, LocalStep

LEMMA AskInv ==
    ASSUME LeaseInv, NEW t \in Tasks, NEW rungs \in Asks[t], Ask(t, rungs)
    PROVE  LeaseInv'
<1> DEFINE l == IF rungs[1].scope = Owner THEN "data" ELSE "arrive"
<1>1. IsAcquisition(rungs)
  BY AskAssumption
<1>2. /\ rungs \in Seq(Rungs) /\ rungs # <<>>
      /\ \A i \in 1..Len(rungs) :
             /\ rungs[i].mode = rungs[1].mode
             /\ rungs[i].scope = Owner => rungs[i].mode = Exclusive
  <2>1. rungs \in Seq(Rungs) /\ rungs # <<>> /\ Len(rungs) \in Nat \ {0}
    BY <1>1 DEF IsAcquisition
  <2>2. CASE rungs = <<[scope |-> Owner, mode |-> Exclusive]>>
    BY <2>1, <2>2
  <2>3. CASE Len(rungs) = 1 /\ rungs[1].scope = Global
    BY <2>1, <2>3 DEF Owner, Global
  <2>4. CASE \A i \in 1..Len(rungs) :
                 rungs[i].scope \in Spaces /\ rungs[i].mode = rungs[1].mode
    BY <2>1, <2>4, ScopeAssumption
  <2> QED BY <1>1, <2>1, <2>2, <2>3, <2>4 DEF IsAcquisition
<1>3. /\ want' = [want EXCEPT ![t] = rungs] /\ got' = [got EXCEPT ![t] = <<>>]
      /\ UNCHANGED <<fence, issued, stages, leases>>
  BY DEF Ask
<1>4. Moved(t, l)
  BY GoMoves DEF Ask, LeaseInv, Labels
<1>5. <<>> \in FenceMaps /\ DOMAIN <<>> = {}
  <2>1. <<>> \in [{} -> Nat]
    OBVIOUS
  <2> QED BY <2>1 DEF FenceMaps
<1>6. want'[t] = rungs /\ DOMAIN got'[t] = {}
  BY <1>3, <1>5 DEF LeaseInv, Typed
<1>7. Typed'
  BY <1>2, <1>3, <1>4, <1>5 DEF LeaseInv, Typed, Moved
<1>8. \A u \in Tasks \ {t} : Same(u)
  BY <1>3, <1>4 DEF LeaseInv, Typed, Moved, Same
<1>9. Shape(t)'
  BY <1>2, <1>4, <1>6 DEF Shape, Moved, Climbing, Mode, Scope
<1>10. CurrentGot(t)'
  BY <1>6 DEF CurrentGot
<1> QED BY <1>3, <1>7, <1>8, <1>9, <1>10, SteadyFence, LocalStep

\* A task that gives up keeps its stages until it has given them back.
LEMMA GiveUpInv ==
    ASSUME LeaseInv, NEW t \in Tasks, GiveUp(t)
    PROVE  LeaseInv'
<1>1. /\ want' = [want EXCEPT ![t] = <<>>] /\ got' = [got EXCEPT ![t] = <<>>]
      /\ UNCHANGED <<issued, stages, leases>>
      /\ pc[t] \in Climbing
  BY DEF GiveUp, Climbing
<1>2. /\ <<>> \in FenceMaps /\ DOMAIN <<>> = {} /\ <<>> \in Seq(Rungs)
      /\ Scope(t) \in Scopes
  <2>1. <<>> \in [{} -> Nat] /\ <<>> \in Seq(Rungs)
    OBVIOUS
  <2> QED BY <1>1, <2>1, Wanted DEF FenceMaps
<1>3. DOMAIN got'[t] = {}
  BY <1>1, <1>2 DEF LeaseInv, Typed
<1>4. PICK l \in {"rest", "drop"} :
          /\ Moved(t, l) /\ (l = "drop" => stages[t] # <<>>)
          /\ fence' = fence \/ (pc[t] = "fence" /\ fence' = FenceAfter(t))
  <2>1. CASE pc[t] # "fence"
    <3>1. UNCHANGED fence /\ \E l \in {"rest", "drop"} :
              /\ l = Unwind(stages[t])
              /\ Go(t, l) \/ GoNotify(t, Scope(t), l)
      BY <2>1 DEF GiveUp, LeaveQueue, Unwind
    <3>2. PICK l \in {"rest", "drop"} : l = Unwind(stages[t]) /\ Moved(t, l)
      BY <1>2, <3>1, GoMoves DEF LeaseInv, Labels
    <3> QED BY <3>1, <3>2 DEF Unwind
  <2>2. CASE pc[t] = "fence"
    <3>1. fence' = FenceAfter(t) /\ Moved(t, "drop")
      BY <2>2, GoMoves DEF GiveUp, LeaseInv, Labels
    <3>2. <<Scope(t), Mode(t)>> \in Data(stages[t])
      BY <2>2 DEF LeaseInv, Shape
    <3> QED BY <2>2, <3>1, <3>2, NoData
  <2> QED BY <2>1, <2>2
<1>5. fence' \in [Scopes -> Nat] /\ Steady(t)
  BY <1>4, SteadyFence, FenceMoves DEF LeaseInv, Typed
<1>6. Typed'
  BY <1>1, <1>2, <1>4, <1>5 DEF LeaseInv, Typed, Moved
<1>7. \A u \in Tasks \ {t} : Same(u)
  BY <1>1, <1>4 DEF LeaseInv, Typed, Moved, Same
<1>8. Shape(t)'
  BY <1>1, <1>3, <1>4 DEF Shape, Moved, Climbing
<1>9. CurrentGot(t)'
  BY <1>3 DEF CurrentGot
<1> QED BY <1>1, <1>5, <1>6, <1>7, <1>8, <1>9, LocalStep

LEMMA ShedInv ==
    ASSUME LeaseInv, NEW t \in Tasks, Shed(t)
    PROVE  LeaseInv'
<1> DEFINE rest == Front(stages[t])
<1>1. /\ pc[t] = "drop" /\ stages' = [stages EXCEPT ![t] = rest]
      /\ UNCHANGED <<fence, issued, want, got, leases>>
  BY DEF Shed
<1>2. stages[t] \in Seq(Stages) /\ stages[t] # <<>>
  BY <1>1 DEF LeaseInv, Typed, Shape
<1>3. /\ rest \in Seq(Stages) /\ Last(stages[t]) \in Stages
      /\ Data(rest) \subseteq Data(stages[t])
  BY <1>2, FrontLast, DataFront
<1>4. PICK l \in {"rest", "drop"} : l = Unwind(rest) /\ Moved(t, l)
  <2>1. Last(stages[t]).scope \in Scopes /\ Unwind(rest) \in {"rest", "drop"}
    BY <1>3 DEF Stages, Unwind
  <2>2. \/ Go(t, Unwind(rest))
        \/ GoNotify(t, Last(stages[t]).scope, Unwind(rest))
    BY DEF Shed
  <2> QED BY <2>1, <2>2, GoMoves DEF LeaseInv, Labels
<1>5. stages'[t] = rest
  BY <1>1 DEF LeaseInv, Typed
<1>6. DOMAIN got[t] = {}
  BY <1>1 DEF LeaseInv, Shape, Climbing
<1>7. Typed'
  BY <1>1, <1>3, <1>4 DEF LeaseInv, Typed, Moved
<1>8. \A u \in Tasks \ {t} : Same(u)
  BY <1>1, <1>4 DEF LeaseInv, Typed, Moved, Same
<1>9. Shape(t)'
  BY <1>1, <1>4, <1>5, <1>6 DEF Shape, Moved, Climbing, Unwind
<1>10. CurrentGot(t)'
  BY <1>1, <1>6 DEF CurrentGot
<1> QED BY <1>1, <1>3, <1>5, <1>7, <1>8, <1>9, <1>10, SteadyFence, LocalStep

\* A failed unlock, and the retry of a cleanup.
LEMMA StuckInv ==
    ASSUME LeaseInv, NEW t \in Tasks, FailUnlock(t) \/ Retry(t)
    PROVE  LeaseInv'
<1>1. /\ pc[t] \in {"drop", "stuck"}
      /\ UNCHANGED <<fence, issued, want, got, stages, leases>>
  BY DEF FailUnlock, Retry
<1>2. PICK l \in {"drop", "stuck", "leaked"} : Moved(t, l)
  <2>1. \E l \in {"drop", "stuck", "leaked"} : Go(t, l)
    BY DEF FailUnlock, Retry
  <2> QED BY <2>1, GoMoves DEF LeaseInv, Labels
<1>3. Typed'
  BY <1>1, <1>2 DEF LeaseInv, Typed, Moved
<1>4. \A u \in Tasks \ {t} : Same(u)
  BY <1>1, <1>2 DEF Moved, Same
<1>5. Shape(t)'
  BY <1>1, <1>2 DEF LeaseInv, Shape, Moved, Climbing
<1>6. CurrentGot(t)'
  BY <1>1 DEF LeaseInv, Current, CurrentGot, Mode
<1> QED BY <1>1, <1>3, <1>4, <1>5, <1>6, SteadyFence, LocalStep

\* What stands in the way of a lock is in the hands of its holder.
LEMMA HeldData ==
    ASSUME LeaseInv, NEW u \in Tasks, NEW x \in Scopes \X Modes,
           x \in Data(stages[u])
           \/ \E l \in 1..Len(leases[u]) : x \in Data(leases[u][l].stages)
    PROVE  Holds(u, [kind |-> "data", scope |-> x[1], mode |-> x[2]])
BY DEF Data, Holds

LEMMA LockDataInv ==
    ASSUME LeaseInv, NEW t \in Tasks, LockData(t)
    PROVE  LeaseInv'
<1> DEFINE q == stages[t]
           e == Stage(t, "data")
           x == <<Scope(t), Mode(t)>>
<1>1. /\ pc[t] = "data" /\ pc[t] \in Climbing /\ Grants(t, "data")
      /\ stages' = [stages EXCEPT ![t] = Append(q, e)]
      /\ UNCHANGED <<fence, issued, want, got, leases>>
  BY DEF LockData, Climbing
<1>2. /\ q \in Seq(Stages) /\ e \in Stages
      /\ Scope(t) \in Scopes /\ Mode(t) \in Modes
      /\ want[t] \in Seq(Rungs) /\ want[t] # <<>> /\ Len(want[t]) \in Nat \ {0}
  BY <1>1, Wanted
<1>3. PICK l \in {"free", "fence"} :
          Moved(t, l) /\ (l = "free" <=> Mode(t) = Shared)
  <2>1. PICK l \in {"free", "fence"} : Go(t, l) /\ (l = "free" <=> Mode(t) = Shared)
    BY DEF LockData
  <2> QED BY <2>1, GoMoves DEF LeaseInv, Labels
<1>4. /\ stages'[t] = Append(q, e) /\ stages'[t] \in Seq(Stages)
      /\ Data(stages'[t]) = Data(q) \cup {x}
      /\ Len(stages'[t]) = Len(q) + 1 /\ Last(stages'[t]) = e
      /\ \A i \in 1..Len(q) : stages'[t][i] = q[i]
  <2>1. stages'[t] = Append(q, e)
    BY <1>1 DEF LeaseInv, Typed
  <2>2. /\ Append(q, e) \in Seq(Stages) /\ Len(Append(q, e)) = Len(q) + 1
        /\ Last(Append(q, e)) = e /\ \A i \in 1..Len(q) : Append(q, e)[i] = q[i]
    BY <1>2, Appended
  <2>3. Data(Append(q, e)) = Data(q) \cup {x}
    BY <1>2, DataAppend DEF Stage
  <2> QED BY <2>1, <2>2, <2>3
<1>5. ASSUME NEW u \in Tasks, NEW y \in Scopes \X Modes, y[1] = Scope(t),
             y \in Data(stages[u])
             \/ \E n \in 1..Len(leases[u]) : y \in Data(leases[u][n].stages)
      PROVE  y[2] = Shared /\ Mode(t) = Shared
  <2>1. Holds(u, [kind |-> "data", scope |-> Scope(t), mode |-> y[2]])
    BY <1>5, HeldData
  <2> QED BY <1>1, <2>1 DEF Grants
<1>6. Typed'
  BY <1>1, <1>3, <1>4 DEF LeaseInv, Typed, Moved
<1>7. \A u \in Tasks \ {t} : Same(u)
  BY <1>1, <1>3 DEF LeaseInv, Typed, Moved, Same
<1>8. Scope(t)' = Scope(t) /\ Mode(t)' = Mode(t) /\ pc'[t] = l /\ Stage(t, "data")' = e
  BY <1>1, <1>3 DEF Scope, Mode, Moved, Stage
<1>9. Shape(t)'
  <2>1. Mode(t) = Exclusive => Scope(t) \notin DOMAIN got[t]
    <3>1. ASSUME Scope(t) \in DOMAIN got[t] PROVE x \in Data(q)
      BY <3>1 DEF LeaseInv, Current, CurrentGot
    <3> QED BY <1>2, <1>5, <3>1 DEF Shared, Exclusive
  <2>2. l = "free" => /\ Len(stages'[t]) >= 2
                      /\ stages'[t][Len(stages'[t]) - 1].kind = "turn"
    <3>1. HAVE l = "free"
    <3>2. Mode(t) = Shared /\ Scope(t) # Owner
      <4>1. want[t][1].scope = Owner => want[t][1].mode = Exclusive
        <5>1. 1 \in 1..Len(want[t]) /\ Shape(t)
          BY <1>2 DEF LeaseInv
        <5> QED BY <1>1, <5>1 DEF Shape
      <4> QED BY <1>3, <3>1, <4>1 DEF Mode, Scope, Shared, Exclusive
    <3>3. q # <<>> /\ Last(q) = Stage(t, "turn")
      BY <1>1, <3>2 DEF LeaseInv, Shape
    <3>4. Len(q) \in Nat \ {0} /\ q[Len(q)].kind = "turn"
      BY <1>2, <3>3 DEF Last, Stage
    <3> QED BY <1>4, <3>4
  <2>3. /\ want'[t] # <<>>
        /\ \A i \in 1..Len(want'[t]) :
               /\ want'[t][i].mode = Mode(t)'
               /\ want'[t][i].scope = Owner => want'[t][i].mode = Exclusive
    BY <1>1, <1>8 DEF LeaseInv, Shape
  <2> QED BY <1>1, <1>3, <1>4, <1>8, <2>1, <2>2, <2>3 DEF Shape, Climbing
<1>10. \A u \in Tasks : Shape(u)'
  BY <1>7, <1>9, ShapeKept DEF LeaseInv
<1>11. ASSUME NEW u \in Tasks PROVE Current(u)'
  <2>1. Data(stages[u]) \subseteq Data(stages'[u]) /\ leases'[u] = leases[u]
    BY <1>1, <1>4, <1>7 DEF Same
  <2>2. CurrentGot(u)'
    BY <1>1, <2>1 DEF LeaseInv, Current, CurrentGot, Mode
  <2>3. ASSUME NEW i \in 1..Len(leases[u]) PROVE CurrentLease(leases[u][i])'
    BY <1>1 DEF LeaseInv, Current, CurrentLease, CurrentUnder
  <2> QED BY <2>1, <2>2, <2>3 DEF Current, CurrentLease, CurrentUnder
<1>12. \A u \in Tasks \ {t} : stages'[u] = stages[u]
  BY <1>7 DEF Same
<1>13. ASSUME NEW u \in Tasks, NEW y \in Data(stages'[u])
       PROVE  y \in Scopes \X Modes /\ (y \in Data(stages[u]) \/ (u = t /\ y = x))
  <2>1. y \in Scopes \X Modes
    BY DEF Data
  <2>2. u = t => y \in Data(stages[u]) \cup {x}
    BY <1>4 DEF q
  <2>3. u # t => y \in Data(stages[u])
    BY <1>12
  <2> QED BY <2>1, <2>2, <2>3
<1>14. AloneInHand'
  <2>1. ASSUME NEW u \in Tasks, NEW v \in Tasks, u # v,
               NEW y \in Data(stages'[u]), NEW z \in Data(stages'[v]), y[1] = z[1]
        PROVE  y[2] = Shared /\ z[2] = Shared
    <3>1. CASE y \in Data(stages[u]) /\ z \in Data(stages[v])
      BY <2>1, <3>1 DEF LeaseInv, Alone, AloneInHand, Compatible
    <3>2. CASE u = t /\ y = x
      <4>1. z \in Data(stages[v]) /\ z \in Scopes \X Modes /\ z[1] = Scope(t)
        BY <1>13, <2>1, <3>2
      <4> QED BY <1>5, <3>2, <4>1
    <3>3. CASE v = t /\ z = x
      <4>1. y \in Data(stages[u]) /\ y \in Scopes \X Modes /\ y[1] = Scope(t)
        BY <1>13, <2>1, <3>3
      <4> QED BY <1>5, <3>3, <4>1
    <3> QED BY <1>13, <3>1, <3>2, <3>3
  <2> QED BY <2>1 DEF AloneInHand, Compatible
<1>15. AloneBeside'
  <2>1. ASSUME NEW u \in Tasks, NEW v \in Tasks, NEW k \in 1..Len(leases[v]),
               NEW y \in Data(stages'[u]), NEW z \in Data(leases[v][k].stages),
               y[1] = z[1]
        PROVE  y[2] = Shared /\ z[2] = Shared
    <3>1. CASE y \in Data(stages[u])
      BY <2>1, <3>1 DEF LeaseInv, Alone, AloneBeside, Compatible
    <3>2. CASE u = t /\ y = x
      <4>1. z \in Scopes \X Modes /\ z[1] = Scope(t)
        BY <2>1, <3>2 DEF Data
      <4> QED BY <1>5, <3>2, <4>1
    <3> QED BY <1>13, <3>1, <3>2
  <2>2. leases' = leases
    BY <1>1
  <2> QED BY <2>1, <2>2 DEF AloneBeside, Compatible
<1>16. AloneInLeases'
  BY <1>1 DEF LeaseInv, Alone, AloneInLeases, Compatible
<1> QED BY <1>6, <1>10, <1>11, <1>14, <1>15, <1>16 DEF LeaseInv, Alone

\* The fences an acquisition has once it has taken one more scope.
Taken(t) == [s \in DOMAIN got[t] \cup {Scope(t)} |->
                IF s = Scope(t) THEN FenceAfter(t)[s] ELSE got[t][s]]

LEMMA TakenFences ==
    ASSUME LeaseInv, NEW t \in Tasks, TakeFence(t)
    PROVE  /\ pc[t] = "fence" /\ fence' = FenceAfter(t)
           /\ fence' \in [Scopes -> Nat] /\ Steady(t)
           /\ Taken(t) \in FenceMaps /\ DOMAIN Taken(t) = DOMAIN got[t] \cup {Scope(t)}
           /\ \A s \in DOMAIN Taken(t) :
                  <<s, Mode(t)>> \in Data(stages[t]) /\ Taken(t)[s] = fence'[s]
<1>1. pc[t] = "fence" /\ fence' = FenceAfter(t)
  BY DEF TakeFence
<1>2. /\ fence' \in [Scopes -> Nat] /\ Steady(t)
      /\ \A s \in DOMAIN got[t] : fence'[s] = fence[s]
      /\ Scope(t) \in Scopes /\ Mode(t) \in Modes
  BY <1>1, FenceMoves
<1>3. DOMAIN got[t] \subseteq Scopes /\ \A s \in DOMAIN got[t] : got[t][s] \in Nat
  BY DEF LeaseInv, Typed, FenceMaps
<1>4. Taken(t) \in [DOMAIN got[t] \cup {Scope(t)} -> Nat]
  BY <1>1, <1>2, <1>3 DEF Taken
<1>5. Taken(t) \in FenceMaps
  BY <1>2, <1>3, <1>4 DEF FenceMaps
<1>6. <<Scope(t), Mode(t)>> \in Data(stages[t])
  BY <1>1 DEF LeaseInv, Shape
<1>7. \A s \in DOMAIN got[t] :
          <<s, Mode(t)>> \in Data(stages[t]) /\ got[t][s] = fence[s]
  BY DEF LeaseInv, Current, CurrentGot
<1> QED BY <1>1, <1>2, <1>4, <1>5, <1>6, <1>7 DEF Taken

\* Another scope of the acquisition is still to be taken.
LEMMA ClimbInv ==
    ASSUME LeaseInv, NEW t \in Tasks, TakeFence(t), Len(want[t]) # 1
    PROVE  LeaseInv'
<1>1. /\ want' = [want EXCEPT ![t] = Tail(@)] /\ got' = [got EXCEPT ![t] = Taken(t)]
      /\ UNCHANGED <<issued, stages, leases>>
  BY DEF TakeFence, Taken
<1>2. Moved(t, "arrive")
  BY GoMoves DEF TakeFence, LeaseInv, Labels
<1>3. /\ want[t] \in Seq(Rungs) /\ Len(want[t]) \in Nat \ {0, 1}
      /\ \A i \in 1..Len(want[t]) :
             /\ want[t][i].mode = Mode(t)
             /\ want[t][i].scope = Owner => want[t][i].mode = Exclusive
  BY Wanted, TakenFences DEF LeaseInv, Shape, Climbing
<1>4. /\ Tail(want[t]) \in Seq(Rungs) /\ Len(Tail(want[t])) = Len(want[t]) - 1
      /\ \A i \in 1..Len(want[t]) - 1 : Tail(want[t])[i] = want[t][i + 1]
      /\ Tail(want[t]) # <<>>
  <2> DEFINE w == want[t]
  <2>1. w \in Seq(Rungs) /\ w # <<>> /\ Len(w) \in Nat \ {0, 1}
    BY <1>3
  <2>2. Tail(w) \in Seq(Rungs) /\ Len(Tail(w)) = Len(w) - 1
    BY <2>1
  <2>3. \A i \in 1..Len(w) - 1 : Tail(w)[i] = w[i + 1]
    BY <2>1
  <2>4. Tail(w) # <<>>
    <3>1. Len(Tail(w)) # 0
      BY <2>1, <2>2
    <3>2. Len(<<>>) = 0
      OBVIOUS
    <3> QED BY <3>1, <3>2
  <2> QED BY <2>1, <2>2, <2>3, <2>4
<1>5. want'[t] = Tail(want[t]) /\ got'[t] = Taken(t)
  BY <1>1 DEF LeaseInv, Typed
<1>6. Typed'
  BY <1>1, <1>2, <1>4, TakenFences DEF LeaseInv, Typed, Moved
<1>7. \A u \in Tasks \ {t} : Same(u)
  BY <1>1, <1>2 DEF LeaseInv, Typed, Moved, Same
<1>8. /\ Mode(t)' = Mode(t)
      /\ \A i \in 1..Len(want'[t]) :
             /\ want'[t][i].mode = Mode(t)
             /\ want'[t][i].scope = Owner => want'[t][i].mode = Exclusive
  BY <1>3, <1>4, <1>5 DEF Mode
<1>9. Shape(t)'
  BY <1>2, <1>4, <1>5, <1>8 DEF Shape, Moved, Climbing
<1>10. CurrentGot(t)'
  BY <1>1, <1>5, <1>8, TakenFences DEF CurrentGot
<1> QED BY <1>1, <1>6, <1>7, <1>9, <1>10, TakenFences, LocalStep

\* The last scope is taken: what t has in hand becomes a lease.
LEMMA PublishInv ==
    ASSUME LeaseInv, NEW t \in Tasks, TakeFence(t), Len(want[t]) = 1
    PROVE  LeaseInv'
<1> DEFINE lease == [mode |-> Mode(t), fences |-> Taken(t), stages |-> stages[t]]
           n == Len(leases[t])
<1>1. /\ leases' = [leases EXCEPT ![t] = Append(@, lease)]
      /\ stages' = [stages EXCEPT ![t] = <<>>]
      /\ want' = [want EXCEPT ![t] = <<>>] /\ got' = [got EXCEPT ![t] = <<>>]
      /\ issued' = [s \in Scopes |-> IF Mode(t) = Exclusive /\ s \in DOMAIN Taken(t)
                                     THEN Taken(t)[s] ELSE issued[s]]
  BY DEF TakeFence, Publish, Taken
<1>2. Moved(t, "rest")
  <2>1. Go(t, "rest")
    BY DEF TakeFence, Publish
  <2> QED BY <2>1, GoMoves DEF LeaseInv, Labels
<1>3. /\ pc[t] = "fence" /\ stages[t] \in Seq(Stages) /\ Mode(t) \in Modes
      /\ leases[t] \in Seq(LeaseRecords) /\ n \in Nat
      /\ Scope(t) \in DOMAIN Taken(t)
  <2>1. pc[t] = "fence" /\ Scope(t) \in DOMAIN Taken(t)
    BY TakenFences
  <2>2. pc[t] \in Climbing
    BY <2>1 DEF Climbing
  <2>3. stages[t] \in Seq(Stages) /\ Mode(t) \in Modes
    BY <2>2, Wanted
  <2>4. leases[t] \in Seq(LeaseRecords)
    BY DEF LeaseInv, Typed
  <2> QED BY <2>1, <2>3, <2>4
<1>4. /\ <<>> \in FenceMaps /\ DOMAIN <<>> = {} /\ <<>> \in Seq(Rungs)
      /\ <<>> \in Seq(Stages)
  <2>1. <<>> \in [{} -> Nat] /\ <<>> \in Seq(Rungs) /\ <<>> \in Seq(Stages)
    OBVIOUS
  <2> QED BY <2>1 DEF FenceMaps
<1>5. /\ lease \in LeaseRecords /\ lease.mode = Mode(t) /\ lease.fences = Taken(t)
      /\ lease.stages = stages[t]
  BY <1>3, TakenFences DEF LeaseRecords
<1>6. CurrentUnder(lease, fence')
  <2>1. stages[t] # <<>>
    BY <1>3, TakenFences, NoData
  <2>2. \A s \in DOMAIN Taken(t) :
            <<s, Mode(t)>> \in Data(stages[t]) /\ Taken(t)[s] = fence'[s]
    BY TakenFences
  <2> HIDE DEF lease
  <2> QED BY <1>5, <2>1, <2>2 DEF CurrentUnder
<1> HIDE DEF lease
<1>7. /\ leases'[t] \in Seq(LeaseRecords) /\ Len(leases'[t]) = n + 1
      /\ \A i \in 1..n : leases'[t][i] = leases[t][i]
      /\ leases'[t][n + 1] = lease
  <2>1. leases'[t] = Append(leases[t], lease)
    BY <1>1 DEF LeaseInv, Typed
  <2> QED BY <1>3, <1>5, <2>1, Appended
<1>8. stages'[t] = <<>> /\ DOMAIN got'[t] = {} /\ Data(stages'[t]) = {}
  BY <1>1, <1>4, NoData DEF LeaseInv, Typed
<1>9. Typed'
  <2>1. issued' \in [Scopes -> Nat]
    <3>1. \A s \in DOMAIN Taken(t) : Taken(t)[s] \in Nat
      <4>1. /\ fence' \in [Scopes -> Nat]
            /\ \A s \in DOMAIN Taken(t) :
                   <<s, Mode(t)>> \in Data(stages[t]) /\ Taken(t)[s] = fence'[s]
        BY TakenFences
      <4> QED BY <4>1 DEF Data
    <3> QED BY <1>1, <3>1 DEF LeaseInv, Typed
  <2> QED BY <1>1, <1>2, <1>4, <1>7, <2>1, TakenFences DEF LeaseInv, Typed, Moved
<1>10. \A u \in Tasks \ {t} : Same(u)
  BY <1>1, <1>2 DEF LeaseInv, Typed, Moved, Same
<1>11. \A u \in Tasks : Shape(u)'
  <2>1. Shape(t)'
    BY <1>2, <1>8 DEF Shape, Moved, Climbing
  <2> QED BY <1>10, <2>1, ShapeKept DEF LeaseInv
<1>12. ASSUME NEW u \in Tasks, NEW i \in 1..Len(leases[u])
       PROVE  CurrentUnder(leases[u][i], fence')
  <2>1. CurrentUnder(leases[u][i], fence)
    BY DEF LeaseInv, Current, CurrentLease
  <2>2. \A s \in DOMAIN leases[u][i].fences : fence'[s] = fence[s]
    BY TakenFences DEF Steady
  <2> QED BY <2>1, <2>2 DEF CurrentUnder
<1>13. ASSUME NEW u \in Tasks PROVE Current(u)'
  <2>1. CASE u = t
    <3>1. CurrentGot(t)'
      BY <1>8 DEF CurrentGot
    <3>2. ASSUME NEW i \in 1..n + 1 PROVE CurrentUnder(leases'[t][i], fence')
      <4>1. CASE i = n + 1
        BY <1>6, <1>7, <4>1
      <4>2. CASE i # n + 1
        <5>1. i \in 1..n
          BY <1>3, <4>2
        <5> QED BY <1>7, <1>12, <5>1
      <4> QED BY <4>1, <4>2
    <3> QED BY <1>7, <2>1, <3>1, <3>2 DEF Current, CurrentLease
  <2>2. CASE u # t
    <3>1. CurrentGot(u)'
      <4>1. CurrentGot(u) /\ \A s \in DOMAIN got[u] : fence'[s] = fence[s]
        BY <2>2, TakenFences DEF LeaseInv, Current, Steady
      <4> QED BY <1>10, <2>2, <4>1 DEF CurrentGot, Same, Mode
    <3> QED BY <1>10, <1>12, <2>2, <3>1 DEF Current, CurrentLease, Same
  <2> QED BY <2>1, <2>2
\* Where the stages of a lease were before.
<1>14. ASSUME NEW u \in Tasks, NEW i \in 1..Len(leases'[u])
       PROVE  \/ i \in 1..Len(leases[u]) /\ leases'[u][i] = leases[u][i]
              \/ u = t /\ i = n + 1 /\ leases'[u][i].stages = stages[t]
  BY <1>3, <1>5, <1>7, <1>10 DEF Same
<1>15. AloneInHand'
  <2>1. \A u \in Tasks : Data(stages'[u]) \subseteq Data(stages[u])
    BY <1>8, <1>10 DEF Same
  <2> QED BY <2>1 DEF LeaseInv, Alone, AloneInHand, Compatible
<1>16. AloneBeside'
  <2>1. ASSUME NEW u \in Tasks, NEW v \in Tasks, NEW i \in 1..Len(leases'[v])
        PROVE  Compatible(Data(stages'[u]), Data(leases'[v][i].stages))
    <3>1. CASE u = t
      BY <1>8, <3>1 DEF Compatible
    <3>2. CASE u # t /\ i \in 1..Len(leases[v]) /\ leases'[v][i] = leases[v][i]
      BY <1>10, <3>2 DEF LeaseInv, Alone, AloneBeside, Same
    <3>3. CASE u # t /\ v = t /\ leases'[v][i].stages = stages[t]
      BY <1>10, <3>3 DEF LeaseInv, Alone, AloneInHand, Same
    <3> QED BY <1>14, <3>1, <3>2, <3>3
  <2> QED BY <2>1 DEF AloneBeside
<1>17. AloneInLeases'
  <2>1. ASSUME NEW u \in Tasks, NEW v \in Tasks,
               NEW i \in 1..Len(leases'[u]), NEW j \in 1..Len(leases'[v]),
               u # v \/ i # j
        PROVE  Compatible(Data(leases'[u][i].stages), Data(leases'[v][j].stages))
    <3> DEFINE old(w, k) == k \in 1..Len(leases[w]) /\ leases'[w][k] = leases[w][k]
               new(w, k) == w = t /\ k = n + 1 /\ leases'[w][k].stages = stages[t]
    <3>1. (old(u, i) \/ new(u, i)) /\ (old(v, j) \/ new(v, j))
      BY <1>14
    <3>2. CASE old(u, i) /\ old(v, j)
      BY <2>1, <3>2 DEF LeaseInv, Alone, AloneInLeases
    <3>3. CASE new(u, i) /\ old(v, j)
      BY <3>3 DEF LeaseInv, Alone, AloneBeside
    <3>4. CASE old(u, i) /\ new(v, j)
      BY <3>4 DEF LeaseInv, Alone, AloneBeside, Compatible
    <3>5. ~(new(u, i) /\ new(v, j))
      BY <2>1
    <3> QED BY <3>1, <3>2, <3>3, <3>4, <3>5
  <2> QED BY <2>1 DEF AloneInLeases
<1> QED BY <1>9, <1>11, <1>13, <1>15, <1>16, <1>17 DEF LeaseInv, Alone

\* The innermost lease comes back into the hand.
LEMMA ReleaseInv ==
    ASSUME LeaseInv, NEW t \in Tasks, Release(t)
    PROVE  LeaseInv'
<1> DEFINE n == Len(leases[t])
<1>1. /\ pc[t] = "rest" /\ leases[t] # <<>>
      /\ stages' = [stages EXCEPT ![t] = Last(leases[t]).stages]
      /\ leases' = [leases EXCEPT ![t] = Front(@)]
      /\ UNCHANGED <<fence, issued, want, got>>
  BY DEF Release
<1>2. Moved(t, "drop")
  BY GoMoves DEF Release, LeaseInv, Labels
<1>3. /\ leases[t] \in Seq(LeaseRecords) /\ n \in Nat \ {0}
      /\ Front(leases[t]) \in Seq(LeaseRecords) /\ Len(Front(leases[t])) = n - 1
      /\ \A i \in 1..n - 1 : Front(leases[t])[i] = leases[t][i]
      /\ Last(leases[t]) = leases[t][n] /\ Last(leases[t]) \in LeaseRecords
  <2>1. leases[t] \in Seq(LeaseRecords)
    BY DEF LeaseInv, Typed
  <2> QED BY <1>1, <2>1, FrontLast
<1>4. /\ stages'[t] = leases[t][n].stages /\ stages'[t] \in Seq(Stages)
      /\ leases'[t] = Front(leases[t])
  BY <1>1, <1>3 DEF LeaseInv, Typed, LeaseRecords
<1>5. stages'[t] # <<>> /\ DOMAIN got[t] = {}
  <2>1. n \in 1..Len(leases[t])
    BY <1>3
  <2>2. CurrentLease(leases[t][n])
    BY <2>1 DEF LeaseInv, Current
  <2> QED BY <1>1, <1>4, <2>2 DEF LeaseInv, CurrentLease, CurrentUnder, Shape, Climbing
<1>6. Typed'
  BY <1>1, <1>2, <1>3, <1>4 DEF LeaseInv, Typed, Moved
<1>7. \A u \in Tasks \ {t} : Same(u)
  BY <1>1, <1>2 DEF LeaseInv, Typed, Moved, Same
<1>8. \A u \in Tasks : Shape(u)'
  <2>1. Shape(t)'
    BY <1>1, <1>2, <1>5 DEF Shape, Moved, Climbing
  <2> QED BY <1>7, <2>1, ShapeKept DEF LeaseInv
<1>9. ASSUME NEW u \in Tasks, NEW i \in 1..Len(leases'[u])
      PROVE  /\ i \in 1..Len(leases[u]) /\ leases'[u][i] = leases[u][i]
             /\ u = t => i # n
  BY <1>3, <1>4, <1>7 DEF Same
<1>10. ASSUME NEW u \in Tasks PROVE Current(u)'
  <2>1. CurrentGot(u)'
    <3>1. CASE u = t
      BY <1>1, <1>5, <3>1 DEF CurrentGot
    <3>2. CASE u # t
      BY <1>1, <1>7, <3>2 DEF LeaseInv, Current, CurrentGot, Same, Mode
    <3> QED BY <3>1, <3>2
  <2>2. ASSUME NEW i \in 1..Len(leases'[u])
        PROVE  CurrentUnder(leases'[u][i], fence')
    BY <1>1, <1>9 DEF LeaseInv, Current, CurrentLease
  <2> QED BY <2>1, <2>2 DEF Current, CurrentLease
<1>11. AloneInHand'
  <2>1. ASSUME NEW u \in Tasks \ {t}
        PROVE  /\ Compatible(Data(stages'[t]), Data(stages'[u]))
               /\ Compatible(Data(stages'[u]), Data(stages'[t]))
    <3>1. n \in 1..Len(leases[t])
      BY <1>3
    <3>2. Compatible(Data(stages[u]), Data(leases[t][n].stages))
      BY <3>1 DEF LeaseInv, Alone, AloneBeside
    <3> QED BY <1>4, <1>7, <3>2 DEF Compatible, Same
  <2> QED BY <1>7, <2>1 DEF LeaseInv, Alone, AloneInHand, Same
<1>12. AloneBeside'
  <2>1. ASSUME NEW u \in Tasks, NEW v \in Tasks, NEW i \in 1..Len(leases'[v])
        PROVE  Compatible(Data(stages'[u]), Data(leases'[v][i].stages))
    <3>1. CASE u = t
      <4>1. n \in 1..Len(leases[t])
        BY <1>3
      <4>2. Compatible(Data(leases[t][n].stages), Data(leases[v][i].stages))
        BY <1>9, <4>1 DEF LeaseInv, Alone, AloneInLeases
      <4> QED BY <1>4, <1>9, <3>1, <4>2
    <3>2. CASE u # t
      BY <1>7, <1>9, <3>2 DEF LeaseInv, Alone, AloneBeside, Same
    <3> QED BY <3>1, <3>2
  <2> QED BY <2>1 DEF AloneBeside
<1>13. AloneInLeases'
  <2>1. ASSUME NEW u \in Tasks, NEW v \in Tasks,
               NEW i \in 1..Len(leases'[u]), NEW j \in 1..Len(leases'[v]),
               u # v \/ i # j
        PROVE  Compatible(Data(leases'[u][i].stages), Data(leases'[v][j].stages))
    BY <1>9, <2>1 DEF LeaseInv, Alone, AloneInLeases
  <2> QED BY <2>1 DEF AloneInLeases
<1> QED BY <1>6, <1>8, <1>10, <1>11, <1>12, <1>13 DEF LeaseInv, Alone

\* The tasks of a dead process have nothing left, the others what they had.
LEMMA DieInv ==
    ASSUME LeaseInv, NEW p \in Procs, Die(p)
    PROVE  LeaseInv'
<1> DEFINE ours == {t \in Tasks : ProcOf[t] = p}
<1>1. /\ UNCHANGED <<fence, issued>>
      /\ pc' = [t \in Tasks |-> IF t \in ours THEN "rest" ELSE pc[t]]
      /\ want' = [t \in Tasks |-> IF t \in ours THEN <<>> ELSE want[t]]
      /\ got' = [t \in Tasks |-> IF t \in ours THEN <<>> ELSE got[t]]
      /\ stages' = [t \in Tasks |-> IF t \in ours THEN <<>> ELSE stages[t]]
      /\ leases' = [t \in Tasks |-> IF t \in ours THEN <<>> ELSE leases[t]]
  BY DEF Die
<1>2. /\ <<>> \in FenceMaps /\ DOMAIN <<>> = {} /\ <<>> \in Seq(Rungs)
      /\ <<>> \in Seq(Stages) /\ <<>> \in Seq(LeaseRecords) /\ "rest" \in Labels
      /\ Len(<<>>) = 0
  <2>1. <<>> \in [{} -> Nat]
    OBVIOUS
  <2> QED BY <2>1 DEF FenceMaps, Labels
<1>3. ASSUME NEW t \in ours
      PROVE  /\ pc'[t] = "rest" /\ DOMAIN got'[t] = {} /\ Data(stages'[t]) = {}
             /\ Len(leases'[t]) = 0
  BY <1>1, <1>2, NoData
<1>4. \A t \in Tasks \ ours : Same(t)
  BY <1>1 DEF Same
<1>5. Typed'
  BY <1>1, <1>2 DEF LeaseInv, Typed
<1> HIDE DEF ours
<1>6. ASSUME NEW t \in Tasks PROVE Shape(t)'
  <2>1. CASE t \in ours
    BY <1>3, <2>1 DEF Shape, Climbing
  <2>2. CASE t \notin ours
    BY <1>4, <2>2, ShapeKept DEF LeaseInv
  <2> QED BY <2>1, <2>2
<1>7. ASSUME NEW t \in Tasks PROVE Current(t)'
  <2>1. CASE t \in ours
    BY <1>3, <2>1 DEF Current, CurrentGot
  <2>2. CASE t \notin ours
    BY <1>1, <1>4, <2>2
       DEF LeaseInv, Current, CurrentGot, CurrentLease, CurrentUnder, Same, Mode
  <2> QED BY <2>1, <2>2
<1>8. ASSUME NEW t \in Tasks
      PROVE  /\ Data(stages'[t]) \subseteq Data(stages[t])
             /\ \A i \in 1..Len(leases'[t]) :
                    i \in 1..Len(leases[t]) /\ leases'[t][i] = leases[t][i]
  <2>1. CASE t \in ours
    BY <1>3, <2>1
  <2>2. CASE t \notin ours
    BY <1>4, <2>2 DEF Same
  <2> QED BY <2>1, <2>2
<1>9. AloneInHand'
  BY <1>8 DEF LeaseInv, Alone, AloneInHand, Compatible
<1>10. AloneBeside'
  <2>1. ASSUME NEW u \in Tasks, NEW v \in Tasks, NEW i \in 1..Len(leases'[v])
        PROVE  Compatible(Data(stages'[u]), Data(leases'[v][i].stages))
    BY <1>8 DEF LeaseInv, Alone, AloneBeside, Compatible
  <2> QED BY <2>1 DEF AloneBeside
<1>11. AloneInLeases'
  <2>1. ASSUME NEW u \in Tasks, NEW v \in Tasks,
               NEW i \in 1..Len(leases'[u]), NEW j \in 1..Len(leases'[v]),
               u # v \/ i # j
        PROVE  Compatible(Data(leases'[u][i].stages), Data(leases'[v][j].stages))
    BY <1>8, <2>1 DEF LeaseInv, Alone, AloneInLeases
  <2> QED BY <2>1 DEF AloneInLeases
<1> QED BY <1>5, <1>6, <1>7, <1>9, <1>10, <1>11 DEF LeaseInv, Alone

-----------------------------------------------------------------------------
LEMMA LeaseInvInit ==
    ASSUME Init
    PROVE  LeaseInv
<1>1. /\ <<>> \in FenceMaps /\ DOMAIN <<>> = {} /\ <<>> \in Seq(Rungs)
      /\ <<>> \in Seq(Stages) /\ <<>> \in Seq(LeaseRecords) /\ "rest" \in Labels
      /\ Len(<<>>) = 0
  <2>1. <<>> \in [{} -> Nat]
    OBVIOUS
  <2> QED BY <2>1 DEF FenceMaps, Labels
<1>2. Typed
  BY <1>1 DEF Init, Typed
<1>3. ASSUME NEW t \in Tasks
      PROVE  /\ pc[t] = "rest" /\ DOMAIN got[t] = {} /\ Data(stages[t]) = {}
             /\ Len(leases[t]) = 0
  BY <1>1, NoData DEF Init
<1>4. \A t \in Tasks : Shape(t) /\ Current(t)
  BY <1>3 DEF Shape, Climbing, Current, CurrentGot
<1>5. Alone
  BY <1>3 DEF Alone, AloneInHand, AloneBeside, AloneInLeases, Compatible
<1> QED BY <1>2, <1>4, <1>5 DEF LeaseInv

LEMMA LeaseInvNext ==
    ASSUME LeaseInv, [Next]_vars
    PROVE  LeaseInv'
<1>1. ASSUME NEW t \in Tasks, Step(t)
      PROVE  LeaseInv'
  BY <1>1, ArriveInv, LockTurnInv, LockDataInv, FreeTurnInv, ClimbInv, PublishInv,
     ReleaseInv, ShedInv DEF Step
<1>2. ASSUME NEW t \in Tasks, \E rungs \in Asks[t] : Ask(t, rungs)
      PROVE  LeaseInv'
  BY <1>2, AskInv
<1>3. ASSUME NEW t \in Tasks, GiveUp(t) \/ FailUnlock(t) \/ Retry(t)
      PROVE  LeaseInv'
  BY <1>3, GiveUpInv, StuckInv
<1>4. ASSUME NEW p \in Procs, Die(p)
      PROVE  LeaseInv'
  BY <1>4, DieInv
<1>5. CASE UNCHANGED vars
  <2>1. UNCHANGED <<fence, issued, pc, want, got, stages, leases>>
    BY <1>5 DEF vars
  <2>2. Typed'
    BY <2>1 DEF LeaseInv, Typed
  <2>3. \A u \in Tasks : Shape(u)'
    <3>1. \A u \in Tasks : Same(u)
      BY <2>1 DEF Same
    <3> QED BY <3>1, ShapeKept DEF LeaseInv
  <2>4. \A u \in Tasks : Current(u)'
    BY <2>1 DEF LeaseInv, Current, CurrentGot, CurrentLease, CurrentUnder, Mode
  <2>5. Alone'
    BY <2>1 DEF LeaseInv, Alone, AloneInHand, AloneBeside, AloneInLeases
  <2> QED BY <2>2, <2>3, <2>4, <2>5 DEF LeaseInv
<1> QED BY <1>1, <1>2, <1>3, <1>4, <1>5 DEF Next

\* Every scope that a lease names, or an acquisition has taken, is backed by its
\* data file, which nobody has who must not, and its fence has not moved.
THEOREM LeasesAreBacked == Spec => []LeaseInv
<1>1. Init => LeaseInv
  BY LeaseInvInit
<1>2. LeaseInv /\ [Next]_vars => LeaseInv'
  BY LeaseInvNext
<1> QED BY <1>1, <1>2, PTL DEF Spec

\* What is held comes from a lease.
HeldIn(h, t, lease) == \E s \in DOMAIN lease.fences :
    h = [task |-> t, scope |-> s, mode |-> lease.mode, fence |-> lease.fences[s]]

LEMMA HeldFrom ==
    ASSUME NEW h \in Held
    PROVE  \E t \in Tasks : \E i \in 1..Len(leases[t]) : HeldIn(h, t, leases[t][i])
BY DEF Held, HeldBy, HeldIn

\* Two tasks never both hold a scope unless both hold it SHARED, whatever
\* acquisitions and releases fail half-way and whatever processes die.
THEOREM LeasesExclude == Spec => []Exclusion
<1>1. LeaseInv => Exclusion
  <2> SUFFICES ASSUME LeaseInv, NEW a \in Held, NEW b \in Held,
                      a.scope = b.scope, a.task # b.task
               PROVE  a.mode = Shared /\ b.mode = Shared
    BY DEF Exclusion
  <2>1. PICK t \in Tasks : \E i \in 1..Len(leases[t]) : HeldIn(a, t, leases[t][i])
    BY HeldFrom
  <2>2. PICK i \in 1..Len(leases[t]) : HeldIn(a, t, leases[t][i])
    BY <2>1
  <2>3. PICK u \in Tasks : \E j \in 1..Len(leases[u]) : HeldIn(b, u, leases[u][j])
    BY HeldFrom
  <2>4. PICK j \in 1..Len(leases[u]) : HeldIn(b, u, leases[u][j])
    BY <2>3
  <2>5. /\ <<a.scope, a.mode>> \in Data(leases[t][i].stages)
        /\ <<b.scope, b.mode>> \in Data(leases[u][j].stages)
    BY <2>2, <2>4 DEF LeaseInv, Current, CurrentLease, CurrentUnder, HeldIn
  <2>6. t # u
    BY <2>2, <2>4 DEF HeldIn
  <2>7. Compatible(Data(leases[t][i].stages), Data(leases[u][j].stages))
    BY <2>6 DEF LeaseInv, Alone, AloneInLeases
  <2> QED BY <2>5, <2>7 DEF Compatible
<1> QED BY <1>1, LeasesAreBacked, PTL

\* The fence of a lease is the one in its file as long as the lease lasts.
THEOREM FencesStayCurrent == Spec => []HeldFenceIsCurrent
<1>1. LeaseInv => HeldFenceIsCurrent
  <2> SUFFICES ASSUME LeaseInv, NEW h \in Held
               PROVE  h.fence = fence[h.scope]
    BY DEF HeldFenceIsCurrent
  <2>1. PICK t \in Tasks : \E i \in 1..Len(leases[t]) : HeldIn(h, t, leases[t][i])
    BY HeldFrom
  <2>2. PICK i \in 1..Len(leases[t]) : HeldIn(h, t, leases[t][i])
    BY <2>1
  <2>3. CurrentUnder(leases[t][i], fence)
    BY DEF LeaseInv, Current, CurrentLease
  <2>4. PICK s \in DOMAIN leases[t][i].fences :
            h.scope = s /\ h.fence = leases[t][i].fences[s]
    BY <2>2 DEF HeldIn
  <2> QED BY <2>3, <2>4 DEF CurrentUnder
<1> QED BY <1>1, LeasesAreBacked, PTL

-----------------------------------------------------------------------------
(* The leases implement what SpaceLease promises.                          *)

\* No fence is behind the one that was issued last, and the fence that an
\* EXCLUSIVE acquisition has taken is ahead of it.
Ahead ==
    /\ \A s \in Scopes : issued[s] <= fence[s]
    /\ \A t \in Tasks : Mode(t) = Exclusive =>
           \A s \in DOMAIN got[t] : issued[s] < fence[s]

\* A step that issues nothing and takes nothing.
LEMMA AheadKept ==
    ASSUME LeaseInv, LeaseInv', Ahead, issued' = issued,
           \A s \in Scopes : fence'[s] >= fence[s],
           \A t \in Tasks : \/ DOMAIN got'[t] = {}
                            \/ got'[t] = got[t] /\ want'[t] = want[t]
    PROVE  Ahead'
<1>1. \A s \in Scopes : issued[s] \in Nat /\ fence[s] \in Nat /\ fence'[s] \in Nat
  BY DEF LeaseInv, Typed
<1>2. \A t \in Tasks : DOMAIN got[t] \subseteq Scopes
  BY DEF LeaseInv, Typed, FenceMaps
<1>3. \A s \in Scopes : issued'[s] <= fence'[s]
  BY <1>1 DEF Ahead
<1>4. ASSUME NEW t \in Tasks, Mode(t)' = Exclusive, NEW s \in DOMAIN got'[t]
      PROVE  issued'[s] < fence'[s]
  <2>1. got'[t] = got[t] /\ want'[t] = want[t]
    BY <1>4
  <2>2. issued[s] < fence[s] /\ s \in Scopes
    BY <1>2, <1>4, <2>1 DEF Ahead, Mode
  <2> QED BY <1>1, <2>2
<1> QED BY <1>3, <1>4 DEF Ahead

LEMMA FenceGrows ==
    ASSUME LeaseInv, NEW t \in Tasks, pc[t] = "fence", fence' = FenceAfter(t)
    PROVE  /\ \A s \in Scopes : fence'[s] >= fence[s]
           /\ Mode(t) = Exclusive => fence'[Scope(t)] = fence[Scope(t)] + 1
           /\ \A s \in Scopes : s # Scope(t) => fence'[s] = fence[s]
<1>1. fence \in [Scopes -> Nat] /\ Scope(t) \in Scopes
  BY FenceMoves DEF LeaseInv, Typed
<1>2. \A s \in Scopes : fence[s] \in Nat /\
          fence'[s] = IF s = Scope(t) /\ Mode(t) = Exclusive THEN fence[s] + 1 ELSE fence[s]
  BY <1>1 DEF FenceAfter
<1> QED BY <1>1, <1>2

LEMMA AheadClimb ==
    ASSUME LeaseInv, LeaseInv', Ahead, NEW t \in Tasks, TakeFence(t), Len(want[t]) # 1
    PROVE  Ahead'
<1>1. /\ want' = [want EXCEPT ![t] = Tail(@)] /\ got' = [got EXCEPT ![t] = Taken(t)]
      /\ issued' = issued /\ pc[t] = "fence" /\ fence' = FenceAfter(t)
  BY DEF TakeFence, Taken
<1>2. \A s \in Scopes : issued[s] \in Nat /\ fence[s] \in Nat /\ fence'[s] \in Nat
  BY DEF LeaseInv, Typed
<1>3. \A u \in Tasks : DOMAIN got[u] \subseteq Scopes
  BY DEF LeaseInv, Typed, FenceMaps
<1>4. Scope(t) \in Scopes /\ DOMAIN Taken(t) = DOMAIN got[t] \cup {Scope(t)}
  BY TakenFences, FenceMoves DEF TakeFence
<1>5. Mode(t)' = Mode(t) /\ got'[t] = Taken(t)
  <2>1. want'[t] = Tail(want[t]) /\ got'[t] = Taken(t)
    BY <1>1 DEF LeaseInv, Typed
  <2>2. /\ want[t] \in Seq(Rungs) /\ Len(want[t]) \in Nat \ {0, 1}
        /\ \A i \in 1..Len(want[t]) : want[t][i].mode = Mode(t)
    BY <1>1, Wanted DEF LeaseInv, Shape, Climbing
  <2>3. Tail(want[t])[1] = want[t][2] /\ 2 \in 1..Len(want[t])
    <3> DEFINE w == want[t]
    <3>1. w \in Seq(Rungs) /\ Len(w) \in Nat \ {0, 1}
      BY <2>2
    <3>2. \A i \in 1..Len(w) - 1 : Tail(w)[i] = w[i + 1]
      BY <3>1
    <3>3. 1 \in 1..Len(w) - 1 /\ 1 + 1 = 2 /\ 2 \in 1..Len(w)
      <4>1. ASSUME NEW n \in Nat \ {0, 1}
            PROVE  1 \in 1..n - 1 /\ 1 + 1 = 2 /\ 2 \in 1..n
        OBVIOUS
      <4> HIDE DEF w
      <4> QED BY <3>1, <4>1
    <3>4. Tail(w)[1] = w[1 + 1]
      BY <3>2, <3>3
    <3> QED BY <3>3, <3>4
  <2> QED BY <2>1, <2>2, <2>3 DEF Mode
<1>6. \A s \in Scopes : issued'[s] <= fence'[s]
  BY <1>1, <1>2, FenceGrows DEF Ahead
<1>7. ASSUME NEW u \in Tasks, Mode(u)' = Exclusive, NEW s \in DOMAIN got'[u]
      PROVE  issued'[s] < fence'[s]
  <2>1. CASE u # t
    <3>1. got'[u] = got[u] /\ want'[u] = want[u]
      BY <1>1, <2>1
    <3>2. issued[s] < fence[s] /\ s \in Scopes
      BY <1>3, <1>7, <3>1 DEF Ahead, Mode
    <3> QED BY <1>1, <1>2, <3>2, FenceGrows
  <2>2. CASE u = t
    <3>1. Mode(t) = Exclusive /\ s \in DOMAIN got[t] \cup {Scope(t)}
      BY <1>4, <1>5, <1>7, <2>2
    <3>2. CASE s = Scope(t)
      BY <1>1, <1>2, <1>4, <3>1, <3>2, FenceGrows DEF Ahead
    <3>3. CASE s \in DOMAIN got[t]
      <4>1. issued[s] < fence[s] /\ s \in Scopes
        BY <1>3, <3>1, <3>3 DEF Ahead
      <4> QED BY <1>1, <1>2, <4>1, FenceGrows
    <3> QED BY <3>1, <3>2, <3>3
  <2> QED BY <2>1, <2>2
<1> QED BY <1>6, <1>7 DEF Ahead

\* What is issued is the fence as it is now; no other acquisition has it.
LEMMA AheadPublish ==
    ASSUME LeaseInv, LeaseInv', Ahead, NEW t \in Tasks, TakeFence(t), Len(want[t]) = 1
    PROVE  Ahead'
<1>1. /\ want' = [want EXCEPT ![t] = <<>>] /\ got' = [got EXCEPT ![t] = <<>>]
      /\ issued' = [s \in Scopes |-> IF Mode(t) = Exclusive /\ s \in DOMAIN Taken(t)
                                     THEN Taken(t)[s] ELSE issued[s]]
      /\ pc[t] = "fence" /\ fence' = FenceAfter(t)
  BY DEF TakeFence, Publish, Taken
<1>2. \A s \in Scopes : issued[s] \in Nat /\ fence[s] \in Nat /\ fence'[s] \in Nat
  BY DEF LeaseInv, Typed
<1>3. \A u \in Tasks : DOMAIN got[u] \subseteq Scopes
  BY DEF LeaseInv, Typed, FenceMaps
<1>4. \A s \in DOMAIN Taken(t) :
          <<s, Mode(t)>> \in Data(stages[t]) /\ Taken(t)[s] = fence'[s]
  BY TakenFences
<1>5. ASSUME NEW s \in Scopes PROVE issued'[s] <= fence'[s]
  <2>1. CASE Mode(t) = Exclusive /\ s \in DOMAIN Taken(t)
    <3>1. issued'[s] = Taken(t)[s]
      BY <1>1, <2>1
    <3>2. Taken(t)[s] = fence'[s]
      BY <1>4, <2>1
    <3>3. fence'[s] \in Nat
      BY <1>2
    <3> QED BY <3>1, <3>2, <3>3
  <2>2. CASE ~(Mode(t) = Exclusive /\ s \in DOMAIN Taken(t))
    <3>1. issued'[s] = issued[s] /\ issued[s] <= fence[s]
      BY <1>1, <2>2 DEF Ahead
    <3>2. fence'[s] >= fence[s]
      BY <1>1, FenceGrows
    <3> QED BY <1>2, <3>1, <3>2
  <2> QED BY <2>1, <2>2
<1>6. ASSUME NEW u \in Tasks, Mode(u)' = Exclusive, NEW s \in DOMAIN got'[u]
      PROVE  issued'[s] < fence'[s]
  <2>1. u # t
    <3>1. DOMAIN <<>> = {}
      OBVIOUS
    <3> QED BY <1>1, <1>6, <3>1 DEF LeaseInv, Typed
  <2>2. got'[u] = got[u] /\ want'[u] = want[u]
    BY <1>1, <2>1
  <2>3. issued[s] < fence[s] /\ s \in Scopes /\ <<s, Mode(u)>> \in Data(stages[u])
    BY <1>3, <1>6, <2>2 DEF Ahead, Mode, LeaseInv, Current, CurrentGot
  <2>4. s \in DOMAIN Taken(t) => Mode(t) = Shared
    BY <1>4, <2>1, <2>3 DEF LeaseInv, Alone, AloneInHand, Compatible
  <2>5. issued'[s] = issued[s]
    BY <1>1, <2>3, <2>4 DEF Shared, Exclusive
  <2> QED BY <1>1, <1>2, <2>3, <2>5, FenceGrows
<1> QED BY <1>5, <1>6 DEF Ahead

LEMMA AheadNext ==
    ASSUME LeaseInv, LeaseInv', Ahead, [Next]_vars
    PROVE  Ahead'
<1>1. DOMAIN <<>> = {} /\ \A s \in Scopes : fence[s] \in Nat
  BY DEF LeaseInv, Typed
<1>2. CASE UNCHANGED <<fence, issued, want, got>>
  BY <1>1, <1>2, AheadKept
<1>3. ASSUME NEW t \in Tasks, TakeFence(t)
      PROVE  Ahead'
  BY <1>3, AheadClimb, AheadPublish
<1>4. ASSUME NEW t \in Tasks, Arrive(t) \/ Wake(t) \/ LockTurn(t) \/ LockData(t)
             \/ FreeTurn(t) \/ Release(t) \/ Shed(t) \/ FailUnlock(t) \/ Retry(t)
      PROVE  UNCHANGED <<fence, issued, want, got>>
  BY <1>4 DEF Arrive, Wake, LockTurn, LockData, FreeTurn, Release, Shed, FailUnlock, Retry
<1>5. ASSUME NEW t \in Tasks, NEW rungs \in Asks[t], Ask(t, rungs)
      PROVE  Ahead'
  <2>1. /\ issued' = issued /\ fence' = fence /\ got' = [got EXCEPT ![t] = <<>>]
        /\ want' = [want EXCEPT ![t] = rungs]
    BY <1>5 DEF Ask
  <2>2. \A u \in Tasks : DOMAIN got'[u] = {} \/ (got'[u] = got[u] /\ want'[u] = want[u])
    BY <1>1, <2>1 DEF LeaseInv, Typed
  <2> QED BY <1>1, <2>1, <2>2, AheadKept
<1>6. ASSUME NEW t \in Tasks, GiveUp(t)
      PROVE  Ahead'
  <2>1. /\ issued' = issued /\ got' = [got EXCEPT ![t] = <<>>]
        /\ want' = [want EXCEPT ![t] = <<>>]
        /\ fence' = fence \/ (pc[t] = "fence" /\ fence' = FenceAfter(t))
    BY <1>6 DEF GiveUp, LeaveQueue
  <2>2. \A u \in Tasks : DOMAIN got'[u] = {} \/ (got'[u] = got[u] /\ want'[u] = want[u])
    BY <1>1, <2>1 DEF LeaseInv, Typed
  <2>3. \A s \in Scopes : fence'[s] >= fence[s]
    BY <1>1, <2>1, FenceGrows
  <2> QED BY <2>1, <2>2, <2>3, AheadKept
<1>7. ASSUME NEW p \in Procs, Die(p)
      PROVE  Ahead'
  <2>1. /\ issued' = issued /\ fence' = fence
        /\ \A u \in Tasks : \/ got'[u] = <<>>
                            \/ got'[u] = got[u] /\ want'[u] = want[u]
    BY <1>7 DEF Die
  <2> QED BY <1>1, <2>1, AheadKept
<1>8. CASE UNCHANGED vars
  BY <1>2, <1>8 DEF vars
<1> QED BY <1>2, <1>3, <1>4, <1>5, <1>6, <1>7, <1>8 DEF Next, Step

\* A lease that t publishes, or a fence it moves, meets no lease in its way.
LEMMA FreeOfLeases ==
    ASSUME LeaseInv, NEW t \in Tasks, NEW s, NEW mode,
           <<s, mode>> \in Data(stages[t])
    PROVE  SL!Free(s, mode)
<1> SUFFICES ASSUME NEW h \in Held, h.scope = s
             PROVE  h.mode = Shared /\ mode = Shared
  BY DEF SL!Free, SL!Compatible, SL!Shared, Shared
<1>1. PICK u \in Tasks : \E i \in 1..Len(leases[u]) : HeldIn(h, u, leases[u][i])
  BY HeldFrom
<1>2. PICK i \in 1..Len(leases[u]) : HeldIn(h, u, leases[u][i])
  BY <1>1
<1>3. <<s, h.mode>> \in Data(leases[u][i].stages)
  BY <1>2 DEF LeaseInv, Current, CurrentLease, CurrentUnder, HeldIn
<1>4. Compatible(Data(stages[t]), Data(leases[u][i].stages))
  BY DEF LeaseInv, Alone, AloneBeside
<1> QED BY <1>3, <1>4 DEF Compatible

\* A fence that is moved before the lease is granted, or in vain.
LEMMA AdvanceStep ==
    ASSUME LeaseInv, NEW t \in Tasks, pc[t] = "fence", fence' = FenceAfter(t),
           UNCHANGED <<leases, issued>>
    PROVE  [SL!Next]_<<Held, fence, issued>>
<1>1. Held' = Held
  BY DEF Held, HeldBy
<1>2. /\ fence \in [Scopes -> Nat] /\ Scope(t) \in Scopes /\ Mode(t) \in Modes
      /\ <<Scope(t), Mode(t)>> \in Data(stages[t])
  BY FenceMoves DEF LeaseInv, Typed, Shape
<1>3. CASE Mode(t) = Exclusive
  <2>1. fence' = [fence EXCEPT ![Scope(t)] = @ + 1]
    BY <1>2, <1>3 DEF FenceAfter
  <2>2. SL!Free(Scope(t), SL!Exclusive)
    BY <1>2, <1>3, FreeOfLeases DEF SL!Exclusive, Exclusive
  <2>3. SL!Advance(Scope(t))
    BY <1>1, <2>1, <2>2 DEF SL!Advance
  <2> QED BY <1>2, <2>3 DEF SL!Next
<1>4. CASE Mode(t) # Exclusive
  <2>1. fence' = fence
    BY <1>2, <1>4 DEF FenceAfter
  <2> QED BY <1>1, <2>1
<1> QED BY <1>3, <1>4

LEMMA GrantStep ==
    ASSUME LeaseInv, Ahead, NEW t \in Tasks, TakeFence(t), Len(want[t]) = 1
    PROVE  SL!Next
<1> DEFINE S == DOMAIN Taken(t)
           lease == [mode |-> Mode(t), fences |-> Taken(t), stages |-> stages[t]]
<1>1. /\ leases' = [leases EXCEPT ![t] = Append(@, lease)]
      /\ issued' = [s \in Scopes |-> IF Mode(t) = Exclusive /\ s \in S
                                     THEN Taken(t)[s] ELSE issued[s]]
      /\ pc[t] = "fence" /\ fence' = FenceAfter(t)
  BY DEF TakeFence, Publish, Taken
<1>2. /\ fence \in [Scopes -> Nat] /\ Scope(t) \in Scopes /\ Mode(t) \in Modes
      /\ issued \in [Scopes -> Nat]
  BY <1>1, FenceMoves DEF LeaseInv, Typed
<1>3. /\ S = DOMAIN got[t] \cup {Scope(t)} /\ S \subseteq Scopes
      /\ \A s \in S : <<s, Mode(t)>> \in Data(stages[t]) /\ Taken(t)[s] = fence'[s]
  BY TakenFences DEF Data
<1>4. \A s \in S : SL!Free(s, Mode(t))
  BY <1>3, FreeOfLeases
<1>5. \/ fence' = fence
      \/ Mode(t) = Exclusive /\ \E s \in S : fence' = [fence EXCEPT ![s] = @ + 1]
  <2>1. CASE Mode(t) = Exclusive
    <3>1. fence' = [fence EXCEPT ![Scope(t)] = @ + 1]
      BY <1>1, <1>2, <2>1 DEF FenceAfter
    <3> QED BY <1>3, <2>1, <3>1
  <2>2. CASE Mode(t) # Exclusive
    BY <1>1, <1>2, <2>2 DEF FenceAfter
  <2> QED BY <2>1, <2>2
<1>6. Mode(t) = Exclusive => \A s \in S : fence'[s] > issued[s]
  <2>1. SUFFICES ASSUME Mode(t) = Exclusive, NEW s \in S
                 PROVE  fence'[s] > issued[s]
    OBVIOUS
  <2>2. s \in Scopes /\ issued[s] \in Nat /\ fence[s] \in Nat
    BY <1>2, <1>3
  <2>3. CASE s = Scope(t)
    BY <1>1, <2>1, <2>2, <2>3, FenceGrows DEF Ahead
  <2>4. CASE s # Scope(t)
    <3>1. issued[s] < fence[s]
      BY <1>3, <2>1, <2>4 DEF Ahead
    <3>2. fence'[s] = fence[s]
      BY <1>1, <2>2, <2>4, FenceGrows
    <3> QED BY <2>2, <3>1, <3>2
  <2> QED BY <2>3, <2>4
<1>7. issued' = [s \in Scopes |-> IF Mode(t) = Exclusive /\ s \in S
                                  THEN fence'[s] ELSE issued[s]]
  BY <1>1, <1>3
<1>8. Held' = Held \cup {[task |-> t, scope |-> s, mode |-> Mode(t),
                          fence |-> fence'[s]] : s \in S}
  <2>1. leases[t] \in Seq(LeaseRecords) /\ lease \in LeaseRecords
    <3>1. pc[t] \in Climbing
      BY <1>1 DEF Climbing
    <3>2. stages[t] \in Seq(Stages)
      BY <3>1, Wanted
    <3> QED BY <1>2, <3>2, TakenFences DEF LeaseInv, Typed, LeaseRecords
  <2>2. HeldBy(t, lease) = {[task |-> t, scope |-> s, mode |-> Mode(t),
                             fence |-> fence'[s]] : s \in S}
    BY <1>3 DEF HeldBy
  <2> HIDE DEF lease
  <2>3. /\ Len(leases'[t]) = Len(leases[t]) + 1 /\ Len(leases[t]) \in Nat
        /\ \A i \in 1..Len(leases[t]) : leases'[t][i] = leases[t][i]
        /\ leases'[t][Len(leases[t]) + 1] = lease
    <3>1. leases'[t] = Append(leases[t], lease)
      BY <1>1 DEF LeaseInv, Typed
    <3> QED BY <2>1, <3>1, Appended
  <2>4. \A u \in Tasks \ {t} : leases'[u] = leases[u]
    BY <1>1 DEF LeaseInv, Typed
  <2>5. ASSUME NEW h \in Held' PROVE h \in Held \cup HeldBy(t, lease)
    <3>1. PICK u \in Tasks : \E i \in 1..Len(leases'[u]) : h \in HeldBy(u, leases'[u][i])
      BY DEF Held, HeldBy
    <3>2. PICK i \in 1..Len(leases'[u]) : h \in HeldBy(u, leases'[u][i])
      BY <3>1
    <3>3. \/ i \in 1..Len(leases[u]) /\ leases'[u][i] = leases[u][i]
          \/ u = t /\ leases'[u][i] = lease
      BY <2>3, <2>4
    <3> QED BY <3>2, <3>3 DEF Held
  <2>6. ASSUME NEW h \in Held PROVE h \in Held'
    <3>1. PICK u \in Tasks : \E i \in 1..Len(leases[u]) : h \in HeldBy(u, leases[u][i])
      BY DEF Held
    <3>2. PICK i \in 1..Len(leases[u]) : h \in HeldBy(u, leases[u][i])
      BY <3>1
    <3>3. i \in 1..Len(leases'[u]) /\ leases'[u][i] = leases[u][i]
      BY <2>3, <2>4
    <3> QED BY <3>2, <3>3 DEF Held, HeldBy
  <2>7. ASSUME NEW h \in HeldBy(t, lease) PROVE h \in Held'
    <3>1. /\ Len(leases[t]) + 1 \in 1..Len(leases'[t])
          /\ h \in HeldBy(t, leases'[t][Len(leases[t]) + 1])
      BY <2>3
    <3> QED BY <3>1 DEF Held, HeldBy
  <2> QED BY <2>2, <2>5, <2>6, <2>7
<1>9. Mode(t) \in {SL!Shared, SL!Exclusive}
  BY <1>2 DEF Modes, Shared, Exclusive, SL!Shared, SL!Exclusive
<1> HIDE DEF S, lease
<1>10. SL!Grant(t, S, Mode(t))
  BY <1>4, <1>5, <1>6, <1>7, <1>8 DEF SL!Grant, SL!Exclusive, Exclusive
<1> QED BY <1>3, <1>9, <1>10 DEF SL!Next

\* Leases that end.
LEMMA EndStep ==
    ASSUME UNCHANGED <<fence, issued>>,
           \A t \in Tasks : \A i \in 1..Len(leases'[t]) :
               i \in 1..Len(leases[t]) /\ leases'[t][i] = leases[t][i]
    PROVE  SL!Next
<1>1. ASSUME NEW h \in Held' PROVE h \in Held
  <2>1. PICK u \in Tasks : \E i \in 1..Len(leases'[u]) : h \in HeldBy(u, leases'[u][i])
    BY DEF Held, HeldBy
  <2>2. PICK i \in 1..Len(leases'[u]) : h \in HeldBy(u, leases'[u][i])
    BY <2>1
  <2> QED BY <2>2 DEF Held
<1> QED BY <1>1 DEF SL!Next, SL!End

LEMMA LeaseStep ==
    ASSUME LeaseInv, Ahead, [Next]_vars
    PROVE  [SL!Next]_<<Held, fence, issued>>
<1>1. ASSUME UNCHANGED <<fence, issued, leases>>
      PROVE  UNCHANGED <<Held, fence, issued>>
  BY <1>1 DEF Held, HeldBy
<1>2. ASSUME NEW t \in Tasks, Arrive(t) \/ Wake(t) \/ LockTurn(t) \/ LockData(t)
             \/ FreeTurn(t) \/ Shed(t) \/ FailUnlock(t) \/ Retry(t)
             \/ \E rungs \in Asks[t] : Ask(t, rungs)
      PROVE  UNCHANGED <<fence, issued, leases>>
  BY <1>2 DEF Arrive, Wake, LockTurn, LockData, FreeTurn, Shed, FailUnlock, Retry, Ask
<1>3. ASSUME NEW t \in Tasks, TakeFence(t)
      PROVE  [SL!Next]_<<Held, fence, issued>>
  <2>1. CASE Len(want[t]) = 1
    BY <1>3, <2>1, GrantStep
  <2>2. CASE Len(want[t]) # 1
    BY <1>3, <2>2, AdvanceStep DEF TakeFence
  <2> QED BY <2>1, <2>2
<1>4. ASSUME NEW t \in Tasks, GiveUp(t)
      PROVE  [SL!Next]_<<Held, fence, issued>>
  <2>1. /\ UNCHANGED <<issued, leases>>
        /\ fence' = fence \/ (pc[t] = "fence" /\ fence' = FenceAfter(t))
    BY <1>4 DEF GiveUp, LeaveQueue
  <2> QED BY <1>1, <2>1, AdvanceStep
<1>5. ASSUME NEW t \in Tasks, Release(t)
      PROVE  SL!Next
  <2>1. /\ UNCHANGED <<fence, issued>> /\ leases[t] # <<>>
        /\ leases' = [leases EXCEPT ![t] = Front(@)]
        /\ leases[t] \in Seq(LeaseRecords)
    BY <1>5 DEF Release, LeaseInv, Typed
  <2>2. /\ Len(Front(leases[t])) = Len(leases[t]) - 1 /\ Len(leases[t]) \in Nat
        /\ \A i \in 1..Len(leases[t]) - 1 : Front(leases[t])[i] = leases[t][i]
    BY <2>1, FrontLast
  <2>3. leases'[t] = Front(leases[t]) /\ \A u \in Tasks \ {t} : leases'[u] = leases[u]
    BY <2>1 DEF LeaseInv, Typed
  <2>4. \A u \in Tasks : \A i \in 1..Len(leases'[u]) :
            i \in 1..Len(leases[u]) /\ leases'[u][i] = leases[u][i]
    BY <2>2, <2>3
  <2> QED BY <2>1, <2>4, EndStep
<1>6. ASSUME NEW p \in Procs, Die(p)
      PROVE  SL!Next
  <2>1. /\ UNCHANGED <<fence, issued>>
        /\ \A u \in Tasks : leases'[u] = <<>> \/ leases'[u] = leases[u]
    BY <1>6 DEF Die
  <2>2. Len(<<>>) = 0
    OBVIOUS
  <2>3. \A u \in Tasks : \A i \in 1..Len(leases'[u]) :
            i \in 1..Len(leases[u]) /\ leases'[u][i] = leases[u][i]
    BY <2>1, <2>2
  <2> QED BY <2>1, <2>3, EndStep
<1>7. CASE UNCHANGED vars
  BY <1>1, <1>7 DEF vars
<1>8. CASE Next
  BY <1>1, <1>2, <1>3, <1>4, <1>5, <1>6, <1>8 DEF Next, Step
<1> QED BY <1>7, <1>8

\* The fair locks, turnstiles, data files and fence files of the processes give
\* the holders of leases what SpaceLease promises them.
THEOREM LeasesImplementSpaceLease == Spec => ImplementsSpaceLease
<1>1. Init => Ahead
  <2>1. DOMAIN <<>> = {}
    OBVIOUS
  <2> QED BY <2>1 DEF Init, Ahead
<1>2. Init => SL!Init
  <2>1. Len(<<>>) = 0
    OBVIOUS
  <2> QED BY <2>1 DEF Init, SL!Init, Held
<1>3. LeaseInv /\ LeaseInv' /\ Ahead /\ [Next]_vars => Ahead'
  BY AheadNext
<1>4. LeaseInv /\ Ahead /\ [Next]_vars => [SL!Next]_<<Held, fence, issued>>
  BY LeaseStep
<1>5. [SL!Next]_<<Held, fence, issued>> => [SL!Next]_SL!leaseVars
  BY DEF SL!leaseVars
<1> QED BY <1>1, <1>2, <1>3, <1>4, <1>5, LeasesAreBacked, PTL
        DEF Spec, ImplementsSpaceLease, SL!Spec

-----------------------------------------------------------------------------
(* The fair locks count what is held and who waits. *)

ReadGate(s) == [kind |-> "gate", scope |-> s, mode |-> Shared]

\* The stages of task t, lease by lease, then those in hand.
Slot(t, l) == IF l = Len(leases[t]) + 1 THEN stages[t] ELSE leases[t][l].stages

\* Where t holds the fair lock of scope s as a reader.
Spots(t, s) ==
    {y \in Nat \X Nat : /\ y[1] \in 1..Len(leases[t]) + 1
                        /\ y[2] \in 1..Len(Slot(t, y[1]))
                        /\ Slot(t, y[1])[y[2]] = ReadGate(s)}

Readers(p, s) == {x \in Tasks \X (Nat \X Nat) : ProcOf[x[1]] = p /\ x[2] \in Spots(x[1], s)}

\* Coroutines of p that wait to write.
Waiters(p, s) ==
    {t \in Tasks : /\ ProcOf[t] = p /\ pc[t] \in {"parked", "woken"}
                   /\ Scope(t) = s /\ Mode(t) = Exclusive}

Counts(gate, R, W) ==
    /\ DOMAIN gate = {"readers", "writer", "waiting"}
    /\ IsFiniteSet(R) /\ gate.readers = Cardinality(R)
    /\ IsFiniteSet(W) /\ gate.waiting = Cardinality(W)
    /\ gate.writer \in BOOLEAN

GateCounts(p, s) == Counts(gates[p][s], Readers(p, s), Waiters(p, s))

\* A task at rest has nothing in hand.
Rested == \A t \in Tasks : pc[t] = "rest" => stages[t] = <<>>

GateInv ==
    /\ DOMAIN gates = Procs /\ \A p \in Procs : DOMAIN gates[p] = Scopes
    /\ \A p \in Procs, s \in Scopes : GateCounts(p, s)
    /\ Rested

\* t waits for scope s as a writer.
Waits(t, s) == pc[t] \in {"parked", "woken"} /\ Scope(t) = s /\ Mode(t) = Exclusive

\* A step of another task moves neither its stages nor its place in a queue.
LEMMA SameCounts ==
    ASSUME NEW u \in Tasks, Same(u), NEW s
    PROVE  Spots(u, s)' = Spots(u, s) /\ (Waits(u, s)' <=> Waits(u, s))
<1>1. Spots(u, s)' = Spots(u, s)
  BY DEF Same, Spots, Slot, ReadGate
<1>2. Waits(u, s)' <=> Waits(u, s)
  BY DEF Same, Waits, Scope, Mode
<1> QED BY <1>1, <1>2

\* Neither does a step of a task that goes on with what it has.
LEMMA CountsKept ==
    ASSUME NEW p, NEW s, GateCounts(p, s), gates'[p][s] = gates[p][s],
           \A u \in Tasks : ProcOf[u] = p =>
               Spots(u, s)' = Spots(u, s) /\ (Waits(u, s)' <=> Waits(u, s))
    PROVE  GateCounts(p, s)'
<1>1. Readers(p, s)' = Readers(p, s)
  BY DEF Readers
<1>2. Waiters(p, s)' = Waiters(p, s)
  BY DEF Waiters, Waits
<1> QED BY <1>1, <1>2 DEF GateCounts, Counts

\* A step of t that leaves the gates alone.
LEMMA QuietGates ==
    ASSUME GateInv, NEW t \in Tasks, \A u \in Tasks \ {t} : Same(u), gates' = gates,
           \A s \in Scopes : Spots(t, s)' = Spots(t, s) /\ (Waits(t, s)' <=> Waits(t, s)),
           pc'[t] = "rest" => stages'[t] = <<>>
    PROVE  GateInv'
<1>1. ASSUME NEW p \in Procs, NEW s \in Scopes
      PROVE  GateCounts(p, s)'
  <2>1. GateCounts(p, s) /\ gates'[p][s] = gates[p][s]
    BY DEF GateInv
  <2>2. \A u \in Tasks : Spots(u, s)' = Spots(u, s) /\ (Waits(u, s)' <=> Waits(u, s))
    BY SameCounts
  <2> QED BY <2>1, <2>2, CountsKept
<1>2. Rested'
  BY DEF GateInv, Rested, Same
<1> QED BY <1>1, <1>2 DEF GateInv

\* A step of t on the gate of scope s.
LEMMA MovedGate ==
    ASSUME GateInv, NEW t \in Tasks, \A u \in Tasks \ {t} : Same(u),
           NEW s \in Scopes, NEW gate, SetGate(t, s, gate),
           Counts(gate, Readers(ProcOf[t], s)', Waiters(ProcOf[t], s)'),
           \A r \in Scopes \ {s} :
               Spots(t, r)' = Spots(t, r) /\ (Waits(t, r)' <=> Waits(t, r)),
           pc'[t] = "rest" => stages'[t] = <<>>
    PROVE  GateInv'
<1>1. ProcOf[t] \in Procs
  BY TaskAssumption
<1>2. /\ DOMAIN gates' = Procs /\ \A p \in Procs : DOMAIN gates'[p] = Scopes
      /\ gates'[ProcOf[t]][s] = gate
      /\ \A p \in Procs, r \in Scopes :
             p # ProcOf[t] \/ r # s => gates'[p][r] = gates[p][r]
  BY <1>1 DEF GateInv, SetGate
<1>3. ASSUME NEW p \in Procs, NEW r \in Scopes
      PROVE  GateCounts(p, r)'
  <2>1. CASE p = ProcOf[t] /\ r = s
    BY <1>2, <2>1 DEF GateCounts
  <2>2. CASE p # ProcOf[t] \/ r # s
    <3>1. GateCounts(p, r) /\ gates'[p][r] = gates[p][r]
      BY <1>2, <2>2 DEF GateInv
    <3>2. ASSUME NEW u \in Tasks, ProcOf[u] = p
          PROVE  Spots(u, r)' = Spots(u, r) /\ (Waits(u, r)' <=> Waits(u, r))
      BY <2>2, <3>2, SameCounts
    <3> QED BY <3>1, <3>2, CountsKept
  <2> QED BY <2>1, <2>2
<1>4. Rested'
  BY DEF GateInv, Rested, Same
<1> QED BY <1>2, <1>3, <1>4 DEF GateInv

\* t enters the gate as a reader, or leaves it.
LEMMA ReaderIn ==
    ASSUME NEW t \in Tasks, \A u \in Tasks \ {t} : Same(u), NEW s, NEW y \in Nat \X Nat,
           IsFiniteSet(Readers(ProcOf[t], s)),
           y \notin Spots(t, s), Spots(t, s)' = Spots(t, s) \cup {y}
    PROVE  /\ IsFiniteSet(Readers(ProcOf[t], s)')
           /\ Cardinality(Readers(ProcOf[t], s)') = Cardinality(Readers(ProcOf[t], s)) + 1
<1> DEFINE R == Readers(ProcOf[t], s)
<1>1. \A u \in Tasks \ {t} : Spots(u, s)' = Spots(u, s)
  BY SameCounts
<1>2. Readers(ProcOf[t], s)' = R \cup {<<t, y>>} /\ <<t, y>> \notin R
  BY <1>1 DEF Readers
<1> HIDE DEF R
<1>3. IsFiniteSet(R)
  BY DEF R
<1>4. \A x : x \notin R => IsFiniteSet(R \cup {x})
                           /\ Cardinality(R \cup {x}) = Cardinality(R) + 1
  BY <1>3, FS_AddElement
<1>5. /\ IsFiniteSet(R \cup {<<t, y>>})
      /\ Cardinality(R \cup {<<t, y>>}) = Cardinality(R) + 1
  BY <1>2, <1>4
<1> QED BY <1>2, <1>5 DEF R

LEMMA ReaderOut ==
    ASSUME NEW t \in Tasks, \A u \in Tasks \ {t} : Same(u), NEW s, NEW y \in Nat \X Nat,
           IsFiniteSet(Readers(ProcOf[t], s)),
           y \in Spots(t, s), Spots(t, s)' = Spots(t, s) \ {y}
    PROVE  /\ IsFiniteSet(Readers(ProcOf[t], s)')
           /\ Cardinality(Readers(ProcOf[t], s)') = Cardinality(Readers(ProcOf[t], s)) - 1
<1> DEFINE R == Readers(ProcOf[t], s)
<1>1. \A u \in Tasks \ {t} : Spots(u, s)' = Spots(u, s)
  BY SameCounts
<1>2. Readers(ProcOf[t], s)' = R \ {<<t, y>>} /\ <<t, y>> \in R
  BY <1>1 DEF Readers
<1> HIDE DEF R
<1>3. IsFiniteSet(R)
  BY DEF R
<1> QED BY <1>2, <1>3, FS_RemoveElement DEF R

LEMMA ReadersStay ==
    ASSUME NEW t \in Tasks, \A u \in Tasks \ {t} : Same(u), NEW s,
           Spots(t, s)' = Spots(t, s)
    PROVE  Readers(ProcOf[t], s)' = Readers(ProcOf[t], s)
<1>1. \A u \in Tasks : Spots(u, s)' = Spots(u, s)
  BY SameCounts
<1> QED BY <1>1 DEF Readers

\* t joins the writers that wait, or leaves them.
LEMMA WaiterIn ==
    ASSUME NEW t \in Tasks, \A u \in Tasks \ {t} : Same(u), NEW s,
           IsFiniteSet(Waiters(ProcOf[t], s)), ~Waits(t, s), Waits(t, s)'
    PROVE  /\ IsFiniteSet(Waiters(ProcOf[t], s)')
           /\ Cardinality(Waiters(ProcOf[t], s)') = Cardinality(Waiters(ProcOf[t], s)) + 1
<1> DEFINE W == Waiters(ProcOf[t], s)
<1>1. \A u \in Tasks \ {t} : Waits(u, s)' <=> Waits(u, s)
  BY SameCounts
<1>2. Waiters(ProcOf[t], s)' = W \cup {t} /\ t \notin W
  BY <1>1 DEF Waiters, Waits
<1> HIDE DEF W
<1>3. IsFiniteSet(W)
  BY DEF W
<1> QED BY <1>2, <1>3, FS_AddElement DEF W

LEMMA WaiterOut ==
    ASSUME NEW t \in Tasks, \A u \in Tasks \ {t} : Same(u), NEW s,
           IsFiniteSet(Waiters(ProcOf[t], s)), Waits(t, s), ~Waits(t, s)'
    PROVE  /\ IsFiniteSet(Waiters(ProcOf[t], s)')
           /\ Cardinality(Waiters(ProcOf[t], s)') = Cardinality(Waiters(ProcOf[t], s)) - 1
<1> DEFINE W == Waiters(ProcOf[t], s)
<1>1. \A u \in Tasks \ {t} : Waits(u, s)' <=> Waits(u, s)
  BY SameCounts
<1>2. Waiters(ProcOf[t], s)' = W \ {t} /\ t \in W
  BY <1>1 DEF Waiters, Waits
<1> HIDE DEF W
<1>3. IsFiniteSet(W)
  BY DEF W
<1> QED BY <1>2, <1>3, FS_RemoveElement DEF W

LEMMA WaitersStay ==
    ASSUME NEW t \in Tasks, \A u \in Tasks \ {t} : Same(u), NEW s,
           Waits(t, s)' <=> Waits(t, s)
    PROVE  Waiters(ProcOf[t], s)' = Waiters(ProcOf[t], s)
<1>1. \A u \in Tasks : Waits(u, s)' <=> Waits(u, s)
  BY SameCounts
<1> QED BY <1>1 DEF Waiters, Waits

\* What a stage on top adds to the spots, and what it takes away again.
LEMMA SpotsOnTop ==
    ASSUME Typed, NEW t \in Tasks, NEW e \in Stages, NEW s,
           stages'[t] = Append(stages[t], e), leases'[t] = leases[t]
    PROVE  LET y == <<Len(leases[t]) + 1, Len(stages[t]) + 1>> IN
           /\ y \in Nat \X Nat /\ y \notin Spots(t, s)
           /\ e = ReadGate(s) => Spots(t, s)' = Spots(t, s) \cup {y}
           /\ e # ReadGate(s) => Spots(t, s)' = Spots(t, s)
<1>1. PICK n \in Nat, m \in Nat : n = Len(leases[t]) /\ m = Len(stages[t])
  <2>1. stages[t] \in Seq(Stages) /\ leases[t] \in Seq(LeaseRecords)
    BY DEF Typed
  <2> QED BY <2>1
<1>2. /\ Len(stages'[t]) = m + 1 /\ stages'[t][m + 1] = e
      /\ \A j \in 1..m : stages'[t][j] = stages[t][j]
  <2>1. stages[t] \in Seq(Stages)
    BY DEF Typed
  <2> QED BY <1>1, <2>1, Appended
<1>3. /\ Slot(t, n + 1) = stages[t] /\ Slot(t, n + 1)' = stages'[t]
      /\ \A l \in 1..n : Slot(t, l)' = Slot(t, l)
  BY <1>1 DEF Slot
<1>4. ASSUME NEW y \in Nat \X Nat
      PROVE  y \in Spots(t, s)' <=>
                 y \in Spots(t, s) \/ (y = <<n + 1, m + 1>> /\ e = ReadGate(s))
  <2>1. y \in Spots(t, s) <=> /\ y[1] \in 1..n + 1 /\ y[2] \in 1..Len(Slot(t, y[1]))
                             /\ Slot(t, y[1])[y[2]] = ReadGate(s)
    BY <1>1 DEF Spots
  <2>2. y \in Spots(t, s)' <=> /\ y[1] \in 1..n + 1 /\ y[2] \in 1..Len(Slot(t, y[1])')
                              /\ Slot(t, y[1])'[y[2]] = ReadGate(s)
    BY <1>1 DEF Spots, ReadGate
  <2>3. CASE y[1] \in 1..n
    BY <1>3, <2>1, <2>2, <2>3
  <2>4. CASE y[1] = n + 1
    <3>1. y \in Spots(t, s) <=> y[2] \in 1..m /\ stages[t][y[2]] = ReadGate(s)
      BY <1>1, <1>3, <2>1, <2>4
    <3>2. y \in Spots(t, s)' <=> y[2] \in 1..m + 1 /\ stages'[t][y[2]] = ReadGate(s)
      BY <1>2, <1>3, <2>2, <2>4
    <3>3. /\ y[2] \in 1..m + 1 <=> y[2] \in 1..m \/ y[2] = m + 1
          /\ m + 1 \notin 1..m /\ (y = <<n + 1, m + 1>> <=> y[2] = m + 1)
      BY <2>4
    <3> QED BY <1>2, <3>1, <3>2, <3>3
  <2>5. CASE y[1] \notin 1..n + 1
    BY <2>1, <2>2, <2>5
  <2> QED BY <2>3, <2>4, <2>5
<1>5. Spots(t, s) \subseteq Nat \X Nat /\ Spots(t, s)' \subseteq Nat \X Nat
  BY DEF Spots
<1>6. <<n + 1, m + 1>> \in Nat \X Nat /\ <<n + 1, m + 1>> \notin Spots(t, s)
  BY <1>1, <1>3 DEF Spots
<1>7. e = ReadGate(s) => Spots(t, s)' = Spots(t, s) \cup {<<n + 1, m + 1>>}
  BY <1>4, <1>5, <1>6
<1>8. e # ReadGate(s) => Spots(t, s)' = Spots(t, s)
  BY <1>4, <1>5
<1> QED BY <1>1, <1>6, <1>7, <1>8

\* What a task gives back takes its spot with it.
LEMMA SpotsUnder ==
    ASSUME Typed, NEW t \in Tasks, NEW s, stages[t] # <<>>,
           stages'[t] = Front(stages[t]), leases'[t] = leases[t]
    PROVE  LET y == <<Len(leases[t]) + 1, Len(stages[t])>> IN
           /\ y \in Nat \X Nat
           /\ Last(stages[t]) = ReadGate(s) =>
                  y \in Spots(t, s) /\ Spots(t, s)' = Spots(t, s) \ {y}
           /\ Last(stages[t]) # ReadGate(s) => Spots(t, s)' = Spots(t, s)
<1>1. PICK n \in Nat, m \in Nat : n = Len(leases[t]) /\ m + 1 = Len(stages[t])
  <2>1. stages[t] \in Seq(Stages) /\ leases[t] \in Seq(LeaseRecords)
    BY DEF Typed
  <2>2. Len(stages[t]) \in Nat \ {0}
    BY <2>1, FrontLast
  <2>3. Len(leases[t]) \in Nat
    BY <2>1
  <2>4. Len(stages[t]) - 1 \in Nat /\ (Len(stages[t]) - 1) + 1 = Len(stages[t])
    BY <2>2
  <2> QED BY <2>3, <2>4
<1>2. /\ Len(stages'[t]) = m /\ stages[t][m + 1] = Last(stages[t])
      /\ \A j \in 1..m : stages'[t][j] = stages[t][j]
  <2>1. stages[t] \in Seq(Stages)
    BY DEF Typed
  <2>2. /\ Len(Front(stages[t])) = m /\ Last(stages[t]) = stages[t][m + 1]
        /\ \A j \in 1..m : Front(stages[t])[j] = stages[t][j]
    <3>1. m + 1 - 1 = m
      BY <1>1
    <3> QED BY <1>1, <2>1, <3>1, FrontLast
  <2> QED BY <2>2
<1>3. /\ Slot(t, n + 1) = stages[t] /\ Slot(t, n + 1)' = stages'[t]
      /\ \A l \in 1..n : Slot(t, l)' = Slot(t, l)
  BY <1>1 DEF Slot
<1>4. ASSUME NEW y \in Nat \X Nat
      PROVE  y \in Spots(t, s) <=>
                 \/ y \in Spots(t, s)'
                 \/ y = <<n + 1, m + 1>> /\ Last(stages[t]) = ReadGate(s)
  <2>1. y \in Spots(t, s) <=> /\ y[1] \in 1..n + 1 /\ y[2] \in 1..Len(Slot(t, y[1]))
                             /\ Slot(t, y[1])[y[2]] = ReadGate(s)
    BY <1>1 DEF Spots
  <2>2. y \in Spots(t, s)' <=> /\ y[1] \in 1..n + 1 /\ y[2] \in 1..Len(Slot(t, y[1])')
                              /\ Slot(t, y[1])'[y[2]] = ReadGate(s)
    BY <1>1 DEF Spots, ReadGate
  <2>3. CASE y[1] \in 1..n
    BY <1>3, <2>1, <2>2, <2>3
  <2>4. CASE y[1] = n + 1
    <3>1. y \in Spots(t, s) <=> y[2] \in 1..m + 1 /\ stages[t][y[2]] = ReadGate(s)
      BY <1>1, <1>3, <2>1, <2>4
    <3>2. y \in Spots(t, s)' <=> y[2] \in 1..m /\ stages'[t][y[2]] = ReadGate(s)
      BY <1>2, <1>3, <2>2, <2>4
    <3>3. /\ y[2] \in 1..m + 1 <=> y[2] \in 1..m \/ y[2] = m + 1
          /\ m + 1 \notin 1..m /\ (y = <<n + 1, m + 1>> <=> y[2] = m + 1)
      BY <2>4
    <3> QED BY <1>2, <3>1, <3>2, <3>3
  <2>5. CASE y[1] \notin 1..n + 1
    BY <2>1, <2>2, <2>5
  <2> QED BY <2>3, <2>4, <2>5
<1>5. Spots(t, s) \subseteq Nat \X Nat /\ Spots(t, s)' \subseteq Nat \X Nat
  BY DEF Spots
<1>6. <<n + 1, m + 1>> \in Nat \X Nat /\ <<n + 1, m + 1>> \notin Spots(t, s)'
  <2>1. <<n + 1, m + 1>> \in Nat \X Nat
    OBVIOUS
  <2>2. Len(Slot(t, n + 1)') = m /\ m + 1 \notin 1..m
    BY <1>2, <1>3
  <2>3. ASSUME <<n + 1, m + 1>> \in Spots(t, s)' PROVE m + 1 \in 1..Len(Slot(t, n + 1)')
    BY <2>3 DEF Spots
  <2> QED BY <2>1, <2>2, <2>3
<1>7. Last(stages[t]) = ReadGate(s) =>
          /\ <<n + 1, m + 1>> \in Spots(t, s)
          /\ Spots(t, s)' = Spots(t, s) \ {<<n + 1, m + 1>>}
  BY <1>4, <1>5, <1>6
<1>8. Last(stages[t]) # ReadGate(s) => Spots(t, s)' = Spots(t, s)
  BY <1>4, <1>5
<1> QED BY <1>1, <1>6, <1>7, <1>8

\* A reader that leaves the turnstile keeps its fair locks.
LEMMA SpotsFreed ==
    ASSUME Typed, NEW t \in Tasks, NEW s, Len(stages[t]) >= 2,
           stages[t][Len(stages[t]) - 1].kind = "turn", Last(stages[t]).kind = "data",
           stages'[t] = Append(Front(Front(stages[t])), Last(stages[t])),
           leases'[t] = leases[t]
    PROVE  Spots(t, s)' = Spots(t, s)
<1>1. PICK n \in Nat, m \in Nat : n = Len(leases[t]) /\ m + 2 = Len(stages[t])
  <2>1. stages[t] \in Seq(Stages) /\ leases[t] \in Seq(LeaseRecords)
    BY DEF Typed
  <2>2. Len(stages[t]) \in Nat /\ Len(leases[t]) \in Nat
    BY <2>1
  <2>3. Len(stages[t]) - 2 \in Nat /\ (Len(stages[t]) - 2) + 2 = Len(stages[t])
    BY <2>2
  <2> QED BY <2>2, <2>3
<1>2. /\ Len(stages'[t]) = m + 1 /\ stages'[t][m + 1].kind = "data"
      /\ stages[t][m + 1].kind = "turn" /\ stages[t][m + 2].kind = "data"
      /\ \A j \in 1..m : stages'[t][j] = stages[t][j]
  <2>1. stages[t] \in Seq(Stages) /\ stages[t] # <<>>
    BY <1>1 DEF Typed
  <2>2. /\ Front(stages[t]) \in Seq(Stages) /\ Len(Front(stages[t])) = m + 1
        /\ \A j \in 1..m + 1 : Front(stages[t])[j] = stages[t][j]
        /\ Last(stages[t]) \in Stages /\ Last(stages[t]) = stages[t][m + 2]
    <3>1. /\ Front(stages[t]) \in Seq(Stages) /\ Len(Front(stages[t])) = Len(stages[t]) - 1
          /\ \A j \in 1..Len(stages[t]) - 1 : Front(stages[t])[j] = stages[t][j]
          /\ Last(stages[t]) \in Stages /\ Last(stages[t]) = stages[t][Len(stages[t])]
      BY <2>1, FrontLast
    <3>2. Len(stages[t]) - 1 = m + 1
      BY <1>1
    <3> QED BY <1>1, <3>1, <3>2
  <2>3. Front(stages[t]) # <<>>
    BY <1>1, <2>2
  <2>4. /\ Front(Front(stages[t])) \in Seq(Stages) /\ Len(Front(Front(stages[t]))) = m
        /\ \A j \in 1..m : Front(Front(stages[t]))[j] = Front(stages[t])[j]
    <3> DEFINE q == Front(stages[t])
    <3>1. q \in Seq(Stages) /\ q # <<>> /\ Len(q) = m + 1
      BY <2>2, <2>3
    <3> HIDE DEF q
    <3>2. /\ Front(q) \in Seq(Stages) /\ Len(Front(q)) = Len(q) - 1
          /\ \A j \in 1..Len(q) - 1 : Front(q)[j] = q[j]
      BY <3>1, FrontLast
    <3>3. Len(q) - 1 = m
      BY <1>1, <3>1
    <3>4. /\ Front(q) \in Seq(Stages) /\ Len(Front(q)) = m
          /\ \A j \in 1..m : Front(q)[j] = q[j]
      BY <3>2, <3>3
    <3> QED BY <3>4 DEF q
  <2>5. \A j \in 1..m : Front(Front(stages[t]))[j] = stages[t][j]
    BY <1>1, <2>2, <2>4
  <2>6. /\ Len(stages'[t]) = m + 1 /\ stages'[t][m + 1] = Last(stages[t])
        /\ \A j \in 1..m : stages'[t][j] = Front(Front(stages[t]))[j]
    BY <2>2, <2>4, Appended
  <2>7. m + 2 - 1 = m + 1
    BY <1>1
  <2> QED BY <1>1, <2>2, <2>5, <2>6, <2>7
<1>3. /\ Slot(t, n + 1) = stages[t] /\ Slot(t, n + 1)' = stages'[t]
      /\ \A l \in 1..n : Slot(t, l)' = Slot(t, l)
  BY <1>1 DEF Slot
<1>4. ReadGate(s).kind = "gate"
  BY DEF ReadGate
<1>5. ASSUME NEW y \in Nat \X Nat
      PROVE  y \in Spots(t, s)' <=> y \in Spots(t, s)
  <2>1. y \in Spots(t, s) <=> /\ y[1] \in 1..n + 1 /\ y[2] \in 1..Len(Slot(t, y[1]))
                             /\ Slot(t, y[1])[y[2]] = ReadGate(s)
    BY <1>1 DEF Spots
  <2>2. y \in Spots(t, s)' <=> /\ y[1] \in 1..n + 1 /\ y[2] \in 1..Len(Slot(t, y[1])')
                              /\ Slot(t, y[1])'[y[2]] = ReadGate(s)
    BY <1>1 DEF Spots, ReadGate
  <2>3. CASE y[1] \in 1..n
    BY <1>3, <2>1, <2>2, <2>3
  <2>4. CASE y[1] = n + 1
    <3>1. y \in Spots(t, s) <=> y[2] \in 1..m + 2 /\ stages[t][y[2]] = ReadGate(s)
      BY <1>1, <1>3, <2>1, <2>4
    <3>2. y \in Spots(t, s)' <=> y[2] \in 1..m + 1 /\ stages'[t][y[2]] = ReadGate(s)
      BY <1>2, <1>3, <2>2, <2>4
    <3>3. /\ y[2] \in 1..m + 2 <=> y[2] \in 1..m \/ y[2] = m + 1 \/ y[2] = m + 2
          /\ y[2] \in 1..m + 1 <=> y[2] \in 1..m \/ y[2] = m + 1
      OBVIOUS
    <3> QED BY <1>2, <1>4, <3>1, <3>2, <3>3
  <2>5. CASE y[1] \notin 1..n + 1
    BY <2>1, <2>2, <2>5
  <2> QED BY <2>3, <2>4, <2>5
<1>6. Spots(t, s) \subseteq Nat \X Nat /\ Spots(t, s)' \subseteq Nat \X Nat
  BY DEF Spots
<1> QED BY <1>5, <1>6

\* The stages in hand become those of a lease, or those of a lease are in hand.
LEMMA SpotsPublished ==
    ASSUME Typed, NEW t \in Tasks, NEW s, NEW lease, lease.stages = stages[t],
           lease \in LeaseRecords,
           stages'[t] = <<>>, leases'[t] = Append(leases[t], lease)
    PROVE  Spots(t, s)' = Spots(t, s)
<1>1. PICK n \in Nat : n = Len(leases[t])
  BY DEF Typed
<1>2. /\ Len(leases'[t]) = n + 1 /\ leases'[t][n + 1] = lease
      /\ \A l \in 1..n : leases'[t][l] = leases[t][l]
  <2>1. leases[t] \in Seq(LeaseRecords)
    BY DEF Typed
  <2> QED BY <1>1, <2>1, Appended
<1>3. /\ \A l \in 1..n + 1 : Slot(t, l)' = Slot(t, l)
      /\ Len(Slot(t, n + 2)') = 0
  <2>1. Slot(t, n + 1)' = Slot(t, n + 1)
    BY <1>1, <1>2 DEF Slot
  <2>2. \A l \in 1..n : Slot(t, l)' = Slot(t, l)
    BY <1>1, <1>2 DEF Slot
  <2>3. Slot(t, n + 2)' = <<>>
    BY <1>2 DEF Slot
  <2> QED BY <1>1, <2>1, <2>2, <2>3
<1>4. ASSUME NEW y \in Nat \X Nat
      PROVE  y \in Spots(t, s)' <=> y \in Spots(t, s)
  <2>1. y \in Spots(t, s) <=> /\ y[1] \in 1..n + 1 /\ y[2] \in 1..Len(Slot(t, y[1]))
                             /\ Slot(t, y[1])[y[2]] = ReadGate(s)
    BY <1>1 DEF Spots
  <2>2. y \in Spots(t, s)' <=> /\ y[1] \in 1..n + 2 /\ y[2] \in 1..Len(Slot(t, y[1])')
                              /\ Slot(t, y[1])'[y[2]] = ReadGate(s)
    <3>1. Len(leases'[t]) + 1 = n + 2
      BY <1>2
    <3> QED BY <3>1 DEF Spots, ReadGate
  <2>3. y[1] \in 1..n + 2 <=> y[1] \in 1..n + 1 \/ y[1] = n + 2
    BY <1>1
  <2>4. y[1] = n + 2 => y[2] \notin 1..Len(Slot(t, y[1])')
    BY <1>3
  <2>5. n + 2 \notin 1..n + 1
    BY <1>1
  <2> QED BY <1>3, <2>1, <2>2, <2>3, <2>4, <2>5
<1>5. Spots(t, s) \subseteq Nat \X Nat /\ Spots(t, s)' \subseteq Nat \X Nat
  BY DEF Spots
<1> QED BY <1>4, <1>5

\* The stages of the lease that ends are those in hand.
LEMMA SpotsReleased ==
    ASSUME Typed, NEW t \in Tasks, NEW s, stages[t] = <<>>, leases[t] # <<>>,
           stages'[t] = Last(leases[t]).stages, leases'[t] = Front(leases[t])
    PROVE  Spots(t, s)' = Spots(t, s)
<1>1. PICK n \in Nat : n + 1 = Len(leases[t])
  <2>1. leases[t] \in Seq(LeaseRecords)
    BY DEF Typed
  <2>2. Len(leases[t]) \in Nat \ {0}
    BY <2>1, FrontLast
  <2>3. Len(leases[t]) - 1 \in Nat
    BY <2>2
  <2> QED BY <2>2, <2>3
<1>2. /\ Len(leases'[t]) = n /\ Last(leases[t]) = leases[t][n + 1]
      /\ \A l \in 1..n : leases'[t][l] = leases[t][l]
  <2>1. leases[t] \in Seq(LeaseRecords)
    BY DEF Typed
  <2>2. n + 1 - 1 = n
    BY <1>1
  <2> QED BY <1>1, <2>1, <2>2, FrontLast
<1>3. /\ \A l \in 1..n + 1 : Slot(t, l)' = Slot(t, l)
      /\ Len(Slot(t, n + 2)) = 0
  <2>1. Slot(t, n + 1)' = Slot(t, n + 1)
    BY <1>1, <1>2 DEF Slot
  <2>2. \A l \in 1..n : Slot(t, l)' = Slot(t, l)
    BY <1>1, <1>2 DEF Slot
  <2>3. Slot(t, n + 2) = <<>>
    BY <1>1 DEF Slot
  <2> QED BY <1>1, <2>1, <2>2, <2>3
<1>4. ASSUME NEW y \in Nat \X Nat
      PROVE  y \in Spots(t, s)' <=> y \in Spots(t, s)
  <2>1. y \in Spots(t, s)' <=> /\ y[1] \in 1..n + 1 /\ y[2] \in 1..Len(Slot(t, y[1])')
                              /\ Slot(t, y[1])'[y[2]] = ReadGate(s)
    BY <1>2 DEF Spots, ReadGate
  <2>2. y \in Spots(t, s) <=> /\ y[1] \in 1..n + 2 /\ y[2] \in 1..Len(Slot(t, y[1]))
                             /\ Slot(t, y[1])[y[2]] = ReadGate(s)
    <3>1. Len(leases[t]) + 1 = n + 2
      BY <1>1
    <3> QED BY <3>1 DEF Spots, ReadGate
  <2>3. y[1] \in 1..n + 2 <=> y[1] \in 1..n + 1 \/ y[1] = n + 2
    BY <1>1
  <2>4. y[1] = n + 2 => y[2] \notin 1..Len(Slot(t, y[1]))
    BY <1>3
  <2>5. n + 2 \notin 1..n + 1
    BY <1>1
  <2> QED BY <1>3, <2>1, <2>2, <2>3, <2>4, <2>5
<1>5. Spots(t, s) \subseteq Nat \X Nat /\ Spots(t, s)' \subseteq Nat \X Nat
  BY DEF Spots
<1> QED BY <1>4, <1>5

\* What entering, leaving and queueing do to the fair lock of a scope.
LEMMA ReaderEnters ==
    ASSUME NEW g, DOMAIN g = {"readers", "writer", "waiting"}, NEW h, h = Entered(g, Shared)
    PROVE  /\ DOMAIN h = {"readers", "writer", "waiting"} /\ h.readers = g.readers + 1
           /\ h.writer = g.writer /\ h.waiting = g.waiting
  BY DEF Entered, Left, Shared, Exclusive

LEMMA WriterEnters ==
    ASSUME NEW g, DOMAIN g = {"readers", "writer", "waiting"}, NEW h, h = Entered(g, Exclusive)
    PROVE  /\ DOMAIN h = {"readers", "writer", "waiting"} /\ h.readers = g.readers
           /\ h.writer = TRUE /\ h.waiting = g.waiting
  BY DEF Entered, Left, Shared, Exclusive

LEMMA ReaderLeaves ==
    ASSUME NEW g, DOMAIN g = {"readers", "writer", "waiting"}, NEW h, h = Left(g, Shared)
    PROVE  /\ DOMAIN h = {"readers", "writer", "waiting"} /\ h.readers = g.readers - 1
           /\ h.writer = g.writer /\ h.waiting = g.waiting
  BY DEF Entered, Left, Shared, Exclusive

LEMMA WriterLeaves ==
    ASSUME NEW g, DOMAIN g = {"readers", "writer", "waiting"}, NEW h, h = Left(g, Exclusive)
    PROVE  /\ DOMAIN h = {"readers", "writer", "waiting"} /\ h.readers = g.readers
           /\ h.writer = FALSE /\ h.waiting = g.waiting
  BY DEF Entered, Left, Shared, Exclusive

LEMMA WriterQueues ==
    ASSUME NEW g, DOMAIN g = {"readers", "writer", "waiting"}, NEW h, h = [g EXCEPT !.waiting = @ + 1]
    PROVE  /\ DOMAIN h = {"readers", "writer", "waiting"} /\ h.readers = g.readers
           /\ h.writer = g.writer /\ h.waiting = g.waiting + 1
  BY DEF Entered, Left, Shared, Exclusive

LEMMA WriterGoes ==
    ASSUME NEW g, DOMAIN g = {"readers", "writer", "waiting"}, NEW h, h = [g EXCEPT !.waiting = @ - 1]
    PROVE  /\ DOMAIN h = {"readers", "writer", "waiting"} /\ h.readers = g.readers
           /\ h.writer = g.writer /\ h.waiting = g.waiting - 1
  BY DEF Entered, Left, Shared, Exclusive

\* The gate that t stands at.
LEMMA GateStood ==
    ASSUME LeaseInv, GateInv, NEW t \in Tasks, pc[t] \in Climbing
    PROVE  /\ Scope(t) \in Scopes /\ Mode(t) \in {Shared, Exclusive} /\ Shared # Exclusive
           /\ Counts(Gate(t), Readers(ProcOf[t], Scope(t)), Waiters(ProcOf[t], Scope(t)))
<1>1. Scope(t) \in Scopes /\ Mode(t) \in Modes /\ ProcOf[t] \in Procs
  BY Wanted, TaskAssumption
<1>2. GateCounts(ProcOf[t], Scope(t))
  BY <1>1 DEF GateInv
<1> QED BY <1>1, <1>2 DEF GateCounts, Gate, Modes, Shared, Exclusive

\* t passes the fair lock.
LEMMA PassGates ==
    ASSUME LeaseInv, GateInv, NEW t \in Tasks, NEW gate, Pass(t, gate),
           \/ pc[t] = "arrive" /\ gate = Gate(t)
           \/ pc[t] = "woken" /\ gate = Unqueued(t),
           UNCHANGED <<want, got, leases>>
    PROVE  GateInv'
<1>0. PICK s \in Scopes : s = Scope(t)
  BY GateStood DEF Climbing
<1> DEFINE p == ProcOf[t]
           R == Readers(p, s)
           W == Waiters(p, s)
           new == Entered(gate, Mode(t))
           e == Stage(t, "gate")
<1>1. /\ s \in Scopes /\ Mode(t) \in {Shared, Exclusive} /\ Shared # Exclusive
      /\ Counts(Gate(t), R, W) /\ e \in Stages /\ Typed
      /\ stages[t] \in Seq(Stages)
  BY <1>0, GateStood, Wanted DEF Climbing, LeaseInv
<1>2. /\ SetGate(t, s, new) /\ stages' = [stages EXCEPT ![t] = Append(@, e)]
      /\ Go(t, "turn") \/ GoNotify(t, s, "turn")
  BY <1>0 DEF Pass
<1>3. Moved(t, "turn")
  BY <1>1, <1>2, GoMoves DEF Labels
<1>4. stages'[t] = Append(stages[t], e) /\ leases'[t] = leases[t]
  BY <1>1, <1>2 DEF Typed
<1>5. \A u \in Tasks \ {t} : Same(u)
  BY <1>1, <1>2, <1>3 DEF Typed, Moved, Same
<1>6. /\ pc'[t] = "turn" /\ \A r : ~Waits(t, r)'
      /\ \A r : Waits(t, r) <=> pc[t] = "woken" /\ r = s /\ Mode(t) = Exclusive
  BY <1>0, <1>3 DEF Moved, Waits
<1>7. PICK y \in Nat \X Nat : \A r :
          /\ y \notin Spots(t, r)
          /\ e = ReadGate(r) => Spots(t, r)' = Spots(t, r) \cup {y}
          /\ e # ReadGate(r) => Spots(t, r)' = Spots(t, r)
  <2> DEFINE x == <<Len(leases[t]) + 1, Len(stages[t]) + 1>>
  <2>1. \A r : /\ x \in Nat \X Nat /\ x \notin Spots(t, r)
               /\ e = ReadGate(r) => Spots(t, r)' = Spots(t, r) \cup {x}
               /\ e # ReadGate(r) => Spots(t, r)' = Spots(t, r)
    BY <1>1, <1>4, SpotsOnTop
  <2> HIDE DEF x
  <2> QED BY <2>1
<1>8. \A r : e = ReadGate(r) <=> r = s /\ Mode(t) = Shared
  BY <1>0 DEF Stage, ReadGate
<1>9. \A r \in Scopes \ {s} :
          Spots(t, r)' = Spots(t, r) /\ (Waits(t, r)' <=> Waits(t, r))
  BY <1>6, <1>7, <1>8
<1>10. Counts(new, R', W')
  <2>1. CASE Mode(t) = Shared
    <3>1. gate = Gate(t) /\ new = Entered(Gate(t), Shared)
      BY <2>1 DEF Unqueued
    <3>2. IsFiniteSet(R') /\ Cardinality(R') = Cardinality(R) + 1
      <4>1. Spots(t, s)' = Spots(t, s) \cup {y} /\ y \notin Spots(t, s)
        BY <1>7, <1>8, <2>1
      <4>2. IsFiniteSet(Readers(p, s))
        BY <1>1 DEF Counts
      <4> QED BY <1>5, <4>1, <4>2, ReaderIn
    <3>3. W' = W
      BY <1>1, <1>5, <1>6, <2>1, WaitersStay
    <3>4. /\ DOMAIN new = {"readers", "writer", "waiting"}
          /\ new.readers = Gate(t).readers + 1
          /\ new.writer = Gate(t).writer /\ new.waiting = Gate(t).waiting
      <4>1. DOMAIN Gate(t) = {"readers", "writer", "waiting"}
        BY <1>1 DEF Counts
      <4> QED BY <3>1, <4>1, ReaderEnters
    <3> HIDE DEF R, W, new
    <3> QED BY <1>1, <3>2, <3>3, <3>4 DEF Counts
  <2>2. CASE Mode(t) = Exclusive
    <3>1. R' = R
      BY <1>1, <1>5, <1>7, <1>8, <2>2, ReadersStay
    <3>2. /\ DOMAIN gate = {"readers", "writer", "waiting"}
          /\ gate.readers = Gate(t).readers /\ gate.writer = Gate(t).writer
          /\ gate.waiting = IF pc[t] = "woken" THEN Gate(t).waiting - 1 ELSE Gate(t).waiting
      <4>1. CASE pc[t] = "arrive" /\ gate = Gate(t)
        BY <1>1, <4>1 DEF Counts
      <4>2. CASE pc[t] = "woken" /\ gate = Unqueued(t)
        <5>1. gate = [Gate(t) EXCEPT !.waiting = @ - 1]
          BY <1>1, <2>2, <4>2 DEF Unqueued
        <5>2. DOMAIN Gate(t) = {"readers", "writer", "waiting"}
          BY <1>1 DEF Counts
        <5> QED BY <4>2, <5>1, <5>2, WriterGoes
      <4> QED BY <4>1, <4>2
    <3>3. /\ IsFiniteSet(W')
          /\ Cardinality(W') = IF pc[t] = "woken" THEN Cardinality(W) - 1 ELSE Cardinality(W)
      <4>1. IsFiniteSet(Waiters(p, s))
        BY <1>1 DEF Counts
      <4>2. CASE pc[t] = "woken"
        <5>1. Waits(t, s) /\ ~Waits(t, s)'
          BY <1>6, <2>2, <4>2
        <5> QED BY <1>5, <4>1, <4>2, <5>1, WaiterOut
      <4>3. CASE pc[t] # "woken"
        <5>1. W' = W
          BY <1>5, <1>6, <4>3, WaitersStay
        <5> QED BY <4>1, <4>3, <5>1
      <4> QED BY <4>2, <4>3
    <3>4. /\ DOMAIN new = {"readers", "writer", "waiting"}
          /\ new.readers = gate.readers
          /\ new.writer = TRUE /\ new.waiting = gate.waiting
      <4>1. new = Entered(gate, Exclusive)
        BY <2>2
      <4> QED BY <3>2, <4>1, WriterEnters
    <3> HIDE DEF R, W, new
    <3>5. IsFiniteSet(R') /\ new.readers = Cardinality(R')
      BY <1>1, <3>1, <3>2, <3>4 DEF Counts
    <3>6. new.waiting = Cardinality(W')
      BY <1>1, <3>2, <3>3, <3>4 DEF Counts
    <3>7. new.writer \in BOOLEAN
      BY <3>4
    <3> QED BY <3>3, <3>4, <3>5, <3>6, <3>7 DEF Counts
  <2> QED BY <1>1, <2>1, <2>2
<1>11. pc'[t] = "rest" => stages'[t] = <<>>
  BY <1>6
<1> QED BY <1>1, <1>2, <1>5, <1>9, <1>10, <1>11, MovedGate

\* t is parked: a writer that has just arrived joins the queue.
LEMMA ParkGates ==
    ASSUME LeaseInv, GateInv, NEW t \in Tasks, pc[t] \in {"arrive", "woken"},
           Go(t, "parked"), UNCHANGED <<want, got, stages, leases>>,
           IF pc[t] = "arrive"
           THEN SetGate(t, Scope(t), IF Mode(t) = Shared THEN Gate(t)
                                     ELSE [Gate(t) EXCEPT !.waiting = @ + 1])
           ELSE UNCHANGED gates
    PROVE  GateInv'
<1>0. PICK s \in Scopes : s = Scope(t)
  BY GateStood DEF Climbing
<1> DEFINE p == ProcOf[t]
           R == Readers(p, s)
           W == Waiters(p, s)
           new == IF Mode(t) = Shared THEN Gate(t) ELSE [Gate(t) EXCEPT !.waiting = @ + 1]
<1>1. /\ s \in Scopes /\ Mode(t) \in {Shared, Exclusive} /\ Shared # Exclusive
      /\ Counts(Gate(t), R, W) /\ Typed
  BY <1>0, GateStood DEF Climbing, LeaseInv
<1>2. Moved(t, "parked")
  BY <1>1, GoMoves DEF Labels
<1>3. \A u \in Tasks \ {t} : Same(u)
  BY <1>2 DEF Moved, Same
<1>4. /\ pc'[t] = "parked"
      /\ \A r : Waits(t, r)' <=> r = s /\ Mode(t) = Exclusive
      /\ \A r : Waits(t, r) <=> pc[t] = "woken" /\ r = s /\ Mode(t) = Exclusive
  BY <1>0, <1>2 DEF Moved, Waits, Scope, Mode
<1>5. \A r : Spots(t, r)' = Spots(t, r)
  BY DEF Spots, Slot, ReadGate
<1>6. pc'[t] = "rest" => stages'[t] = <<>>
  BY <1>4
<1>7. CASE pc[t] = "woken"
  <2>1. gates' = gates
    BY <1>7
  <2>2. \A r \in Scopes : Spots(t, r)' = Spots(t, r) /\ (Waits(t, r)' <=> Waits(t, r))
    BY <1>4, <1>5, <1>7
  <2> QED BY <1>3, <1>6, <2>1, <2>2, QuietGates
<1>8. CASE pc[t] = "arrive"
  <2>1. SetGate(t, s, new)
    BY <1>0, <1>8
  <2>2. Counts(new, R', W')
    <3>1. R' = R /\ IsFiniteSet(Waiters(p, s))
      BY <1>1, <1>3, <1>5, ReadersStay DEF Counts
    <3>2. CASE Mode(t) = Shared
      <4>1. W' = W
        BY <1>1, <1>3, <1>4, <3>2, WaitersStay
      <4> QED BY <1>1, <3>1, <3>2, <4>1
    <3>3. CASE Mode(t) = Exclusive
      <4>1. ~Waits(t, s) /\ Waits(t, s)'
        BY <1>4, <1>8, <3>3
      <4>2. IsFiniteSet(W') /\ Cardinality(W') = Cardinality(W) + 1
        BY <1>3, <3>1, <4>1, WaiterIn
      <4>3. new = [Gate(t) EXCEPT !.waiting = @ + 1]
        BY <1>1, <3>3
      <4>4. /\ DOMAIN new = {"readers", "writer", "waiting"}
            /\ new.readers = Gate(t).readers
            /\ new.writer = Gate(t).writer /\ new.waiting = Gate(t).waiting + 1
        <5>1. DOMAIN Gate(t) = {"readers", "writer", "waiting"}
          BY <1>1 DEF Counts
        <5> QED BY <4>3, <5>1, WriterQueues
      <4> HIDE DEF R, W, new
      <4> QED BY <1>1, <3>1, <4>2, <4>4 DEF Counts
    <3> QED BY <1>1, <3>2, <3>3
  <2>3. \A r \in Scopes \ {s} :
            Spots(t, r)' = Spots(t, r) /\ (Waits(t, r)' <=> Waits(t, r))
    BY <1>4, <1>5
  <2> QED BY <1>1, <1>3, <1>6, <2>1, <2>2, <2>3, MovedGate
<1> QED BY <1>7, <1>8

\* A coroutine that arrives, or is woken, passes or is parked.
LEMMA ArriveGates ==
    ASSUME LeaseInv, GateInv, NEW t \in Tasks, Arrive(t) \/ Wake(t)
    PROVE  GateInv'
<1>1. UNCHANGED <<want, got, leases>>
  BY DEF Arrive, Wake
<1>2. CASE pc[t] = "arrive" /\ Pass(t, Gate(t))
  BY <1>1, <1>2, PassGates
<1>3. CASE pc[t] = "woken" /\ Pass(t, Unqueued(t))
  BY <1>1, <1>3, PassGates
<1>4. CASE /\ pc[t] = "arrive" /\ Go(t, "parked") /\ UNCHANGED stages
           /\ SetGate(t, Scope(t), IF Mode(t) = Shared THEN Gate(t)
                                   ELSE [Gate(t) EXCEPT !.waiting = @ + 1])
  BY <1>1, <1>4, ParkGates
<1>5. CASE pc[t] = "woken" /\ Go(t, "parked") /\ UNCHANGED <<gates, stages>>
  BY <1>1, <1>5, ParkGates
<1> QED BY <1>2, <1>3, <1>4, <1>5 DEF Arrive, Wake

\* A lock of a file is no fair lock.
LEMMA LockGates ==
    ASSUME LeaseInv, GateInv, NEW t \in Tasks, LockTurn(t) \/ LockData(t)
    PROVE  GateInv'
<1>1. PICK e \in Stages, l \in {"data", "free", "fence"} :
          /\ e.kind # "gate" /\ stages' = [stages EXCEPT ![t] = Append(@, e)]
          /\ Go(t, l)
  <2>1. pc[t] \in Climbing
    BY DEF LockTurn, LockData, Climbing
  <2>2. Stage(t, "turn") \in Stages /\ Stage(t, "data") \in Stages
    BY <2>1, Wanted
  <2>3. CASE LockTurn(t)
    BY <2>2, <2>3 DEF LockTurn, Stage
  <2>4. CASE LockData(t)
    BY <2>2, <2>4 DEF LockData, Stage
  <2> QED BY <2>3, <2>4
<1>2. UNCHANGED <<gates, want, got, leases>> /\ pc[t] \in {"turn", "data"} /\ Typed
  BY DEF LockTurn, LockData, LeaseInv
<1>3. Moved(t, l)
  BY <1>1, <1>2, GoMoves DEF Labels
<1>4. \A u \in Tasks \ {t} : Same(u)
  BY <1>1, <1>2, <1>3 DEF Typed, Moved, Same
<1>5. ASSUME NEW s \in Scopes PROVE Spots(t, s)' = Spots(t, s)
  <2>1. stages'[t] = Append(stages[t], e) /\ leases'[t] = leases[t] /\ e # ReadGate(s)
    BY <1>1, <1>2 DEF Typed, ReadGate
  <2> QED BY <1>2, <2>1, SpotsOnTop
<1>6. \A s : ~Waits(t, s) /\ ~Waits(t, s)'
  BY <1>2, <1>3 DEF Moved, Waits
<1>7. pc'[t] # "rest"
  BY <1>3 DEF Moved
<1> QED BY <1>2, <1>4, <1>5, <1>6, <1>7, QuietGates

\* A reader that leaves the turnstile keeps its fair lock.
LEMMA FreeGates ==
    ASSUME LeaseInv, GateInv, NEW t \in Tasks, FreeTurn(t)
    PROVE  GateInv'
<1>1. /\ pc[t] = "free" /\ UNCHANGED <<gates, want, got, leases>> /\ Typed
      /\ stages' = [stages EXCEPT ![t] = Append(Front(Front(@)), Last(@))]
  BY DEF FreeTurn, LeaseInv
<1>2. Moved(t, "fence")
  BY <1>1, GoMoves DEF FreeTurn, Labels
<1>3. \A u \in Tasks \ {t} : Same(u)
  BY <1>1, <1>2 DEF Typed, Moved, Same
<1>4. ASSUME NEW s \in Scopes PROVE Spots(t, s)' = Spots(t, s)
  <2>1. /\ Len(stages[t]) >= 2 /\ stages[t][Len(stages[t]) - 1].kind = "turn"
        /\ Last(stages[t]) = Stage(t, "data")
    BY <1>1 DEF LeaseInv, Shape
  <2>2. Last(stages[t]).kind = "data"
    <3>1. Stage(t, "data").kind = "data"
      BY DEF Stage
    <3> QED BY <2>1, <3>1
  <2>3. /\ stages'[t] = Append(Front(Front(stages[t])), Last(stages[t]))
        /\ leases'[t] = leases[t]
    BY <1>1 DEF Typed
  <2> QED BY <1>1, <2>1, <2>2, <2>3, SpotsFreed
<1>5. (\A s : ~Waits(t, s) /\ ~Waits(t, s)') /\ pc'[t] # "rest"
  BY <1>1, <1>2 DEF Moved, Waits
<1> QED BY <1>1, <1>3, <1>4, <1>5, QuietGates

\* A task that asks, fails to unlock or tries again keeps what it has; so does one
\* that takes a fence and climbs on.
LEMMA StayGates ==
    ASSUME LeaseInv, GateInv, NEW t \in Tasks, NEW l \in Labels \ {"rest", "parked", "woken"},
           pc[t] \notin {"parked", "woken"}, Go(t, l), UNCHANGED <<gates, stages, leases>>,
           \A u \in Tasks \ {t} : want'[u] = want[u] /\ got'[u] = got[u]
    PROVE  GateInv'
<1>1. Moved(t, l) /\ pc'[t] = l
  BY GoMoves DEF LeaseInv, Moved
<1>2. \A u \in Tasks \ {t} : Same(u)
  BY <1>1 DEF Moved, Same
<1>3. \A s : Spots(t, s)' = Spots(t, s)
  BY DEF Spots, Slot, ReadGate
<1>4. (\A s : ~Waits(t, s) /\ ~Waits(t, s)') /\ pc'[t] # "rest"
  BY <1>1 DEF Waits
<1> QED BY <1>2, <1>3, <1>4, QuietGates

LEMMA AskGates ==
    ASSUME LeaseInv, GateInv, NEW t \in Tasks, NEW rungs \in Asks[t], Ask(t, rungs)
    PROVE  GateInv'
<1>1. PICK l \in {"data", "arrive"} : Go(t, l)
  BY DEF Ask
<1>2. /\ pc[t] = "rest" /\ UNCHANGED <<gates, stages, leases>>
      /\ \A u \in Tasks \ {t} : want'[u] = want[u] /\ got'[u] = got[u]
  BY DEF Ask, LeaseInv, Typed
<1> QED BY <1>1, <1>2, StayGates DEF Labels

LEMMA StuckGates ==
    ASSUME LeaseInv, GateInv, NEW t \in Tasks, FailUnlock(t) \/ Retry(t)
    PROVE  GateInv'
<1>1. PICK l \in {"drop", "stuck", "leaked"} : Go(t, l)
  BY DEF FailUnlock, Retry
<1>2. pc[t] \in {"drop", "stuck"} /\ UNCHANGED <<gates, want, got, stages, leases>>
  BY DEF FailUnlock, Retry
<1> QED BY <1>1, <1>2, StayGates DEF Labels

\* The stages of a lease that is published stay where they count.
LEMMA FenceGates ==
    ASSUME LeaseInv, GateInv, NEW t \in Tasks, TakeFence(t)
    PROVE  GateInv'
<1>1. pc[t] = "fence" /\ gates' = gates /\ Typed
  BY DEF TakeFence, LeaseInv
<1>2. CASE Len(want[t]) # 1
  <2>1. /\ Go(t, "arrive") /\ UNCHANGED <<stages, leases>>
        /\ \A u \in Tasks \ {t} : want'[u] = want[u] /\ got'[u] = got[u]
    BY <1>1, <1>2 DEF TakeFence, Typed
  <2> QED BY <1>1, <2>1, StayGates DEF Labels
<1>3. CASE Len(want[t]) = 1
  <2> DEFINE lease == [mode |-> Mode(t), fences |-> Taken(t), stages |-> stages[t]]
  <2>1. /\ leases' = [leases EXCEPT ![t] = Append(@, lease)]
        /\ stages' = [stages EXCEPT ![t] = <<>>]
        /\ want' = [want EXCEPT ![t] = <<>>] /\ got' = [got EXCEPT ![t] = <<>>]
        /\ Go(t, "rest")
    BY <1>3 DEF TakeFence, Publish, Taken
  <2>2. Moved(t, "rest")
    BY <1>1, <2>1, GoMoves DEF Labels
  <2>3. \A u \in Tasks \ {t} : Same(u)
    BY <1>1, <2>1, <2>2 DEF Typed, Moved, Same
  <2>4. stages'[t] = <<>> /\ leases'[t] = Append(leases[t], lease)
    BY <1>1, <2>1 DEF Typed
  <2>5. lease \in LeaseRecords /\ lease.stages = stages[t]
    <3>1. Taken(t) \in FenceMaps
      BY TakenFences
    <3>2. Mode(t) \in Modes /\ stages[t] \in Seq(Stages)
      BY <1>1, Wanted DEF Climbing
    <3> QED BY <3>1, <3>2 DEF LeaseRecords
  <2> HIDE DEF lease
  <2>6. \A s : Spots(t, s)' = Spots(t, s)
    BY <1>1, <2>4, <2>5, SpotsPublished
  <2>7. \A s : ~Waits(t, s) /\ ~Waits(t, s)'
    BY <1>1, <2>2 DEF Moved, Waits
  <2> QED BY <1>1, <2>3, <2>4, <2>6, <2>7, QuietGates
<1> QED BY <1>2, <1>3

LEMMA ReleaseGates ==
    ASSUME LeaseInv, GateInv, NEW t \in Tasks, Release(t)
    PROVE  GateInv'
<1>1. /\ pc[t] = "rest" /\ leases[t] # <<>> /\ Typed
      /\ stages' = [stages EXCEPT ![t] = Last(leases[t]).stages]
      /\ leases' = [leases EXCEPT ![t] = Front(@)]
      /\ UNCHANGED <<gates, want, got>> /\ stages[t] = <<>>
  BY DEF Release, LeaseInv, GateInv, Rested
<1>2. Moved(t, "drop")
  BY <1>1, GoMoves DEF Release, Labels
<1>3. \A u \in Tasks \ {t} : Same(u)
  BY <1>1, <1>2 DEF Typed, Moved, Same
<1>4. stages'[t] = Last(leases[t]).stages /\ leases'[t] = Front(leases[t])
  BY <1>1 DEF Typed
<1>5. \A s : Spots(t, s)' = Spots(t, s)
  BY <1>1, <1>4, SpotsReleased
<1>6. (\A s : ~Waits(t, s) /\ ~Waits(t, s)') /\ pc'[t] # "rest"
  BY <1>1, <1>2 DEF Moved, Waits
<1> QED BY <1>1, <1>3, <1>5, <1>6, QuietGates

\* A task that gives up while it waits leaves the queue.
LEMMA GiveUpGates ==
    ASSUME LeaseInv, GateInv, NEW t \in Tasks, GiveUp(t)
    PROVE  GateInv'
<1>0. PICK s \in Scopes : s = Scope(t)
  BY GateStood DEF GiveUp, Climbing
<1> DEFINE p == ProcOf[t]
           R == Readers(p, s)
           W == Waiters(p, s)
           new == [Gate(t) EXCEPT !.waiting = @ - 1]
<1>1. /\ Mode(t) \in {Shared, Exclusive} /\ Shared # Exclusive
      /\ Counts(Gate(t), R, W) /\ Typed
      /\ want' = [want EXCEPT ![t] = <<>>] /\ got' = [got EXCEPT ![t] = <<>>]
      /\ UNCHANGED <<stages, leases>>
  BY <1>0, GateStood DEF GiveUp, Climbing, LeaseInv
<1>2. PICK l \in {"rest", "drop"} :
          /\ l = "rest" => stages[t] = <<>>
          /\ Go(t, l) \/ GoNotify(t, s, l)
          /\ IF pc[t] \in {"parked", "woken"} /\ Mode(t) = Exclusive
             THEN SetGate(t, s, new) ELSE gates' = gates
  <2>1. Unwind(stages[t]) \in {"rest", "drop"}
        /\ (Unwind(stages[t]) = "rest" => stages[t] = <<>>)
    BY DEF Unwind
  <2>2. CASE pc[t] \in {"parked", "woken"}
    <3>1. LeaveQueue(t)
      BY <2>2 DEF GiveUp
    <3>2. CASE Mode(t) = Exclusive
      BY <1>0, <1>1, <2>1, <2>2, <3>1, <3>2 DEF LeaveQueue, Unqueued
    <3>3. CASE Mode(t) # Exclusive
      BY <2>1, <3>1, <3>3 DEF LeaveQueue
    <3> QED BY <3>2, <3>3
  <2>3. CASE pc[t] \in {"turn", "data", "free"}
    BY <2>1, <2>3 DEF GiveUp
  <2>4. CASE pc[t] = "fence"
    BY <2>4 DEF GiveUp
  <2> QED BY <2>2, <2>3, <2>4 DEF GiveUp
<1>3. Moved(t, l)
  BY <1>1, <1>2, GoMoves DEF Labels
<1>4. \A u \in Tasks \ {t} : Same(u)
  BY <1>1, <1>3 DEF Typed, Moved, Same
<1>5. \A r : Spots(t, r)' = Spots(t, r)
  BY <1>1 DEF Spots, Slot, ReadGate
<1>6. /\ \A r : ~Waits(t, r)'
      /\ \A r : Waits(t, r) <=>
             pc[t] \in {"parked", "woken"} /\ r = s /\ Mode(t) = Exclusive
  BY <1>0, <1>3 DEF Moved, Waits
<1>7. pc'[t] = "rest" => stages'[t] = <<>>
  BY <1>1, <1>2, <1>3 DEF Moved
<1>8. CASE pc[t] \in {"parked", "woken"} /\ Mode(t) = Exclusive
  <2>1. SetGate(t, s, new)
    BY <1>2, <1>8
  <2>2. R' = R /\ IsFiniteSet(Waiters(p, s))
    BY <1>1, <1>4, <1>5, ReadersStay DEF Counts
  <2>3. Waits(t, s) /\ ~Waits(t, s)'
    BY <1>6, <1>8
  <2>4. IsFiniteSet(W') /\ Cardinality(W') = Cardinality(W) - 1
    BY <1>4, <2>2, <2>3, WaiterOut
  <2>5. /\ DOMAIN new = {"readers", "writer", "waiting"}
        /\ new.readers = Gate(t).readers
        /\ new.writer = Gate(t).writer /\ new.waiting = Gate(t).waiting - 1
    <3>1. DOMAIN Gate(t) = {"readers", "writer", "waiting"}
      BY <1>1 DEF Counts
    <3> QED BY <3>1, WriterGoes
  <2>6. Counts(new, R', W')
    <3> HIDE DEF R, W, new
    <3> QED BY <1>1, <2>2, <2>4, <2>5 DEF Counts
  <2>7. \A r \in Scopes \ {s} :
            Spots(t, r)' = Spots(t, r) /\ (Waits(t, r)' <=> Waits(t, r))
    BY <1>5, <1>6
  <2> QED BY <1>4, <1>7, <2>1, <2>6, <2>7, MovedGate
<1>9. CASE ~(pc[t] \in {"parked", "woken"} /\ Mode(t) = Exclusive)
  <2>1. gates' = gates
    BY <1>2, <1>9
  <2>2. \A r \in Scopes : Spots(t, r)' = Spots(t, r) /\ (Waits(t, r)' <=> Waits(t, r))
    BY <1>5, <1>6, <1>9
  <2> QED BY <1>4, <1>7, <2>1, <2>2, QuietGates
<1> QED BY <1>8, <1>9

\* What a task gives back it leaves as it entered.
LEMMA ShedGates ==
    ASSUME LeaseInv, GateInv, NEW t \in Tasks, Shed(t)
    PROVE  GateInv'
<1>1. /\ pc[t] = "drop" /\ Typed /\ UNCHANGED <<want, got, leases>>
      /\ stages[t] # <<>> /\ stages[t] \in Seq(Stages)
      /\ stages' = [stages EXCEPT ![t] = Front(stages[t])]
  BY DEF Shed, LeaseInv, Shape, Typed
<1>2. PICK top \in Stages : top = Last(stages[t])
  BY <1>1, FrontLast
<1> DEFINE p == ProcOf[t]
           s == top.scope
           R == Readers(p, s)
           W == Waiters(p, s)
           g == gates[p][s]
           new == Left(g, top.mode)
<1>3. /\ top.kind \in {"gate", "turn", "data"} /\ s \in Scopes
      /\ top.mode \in {Shared, Exclusive} /\ Shared # Exclusive
      /\ \A r : top = ReadGate(r) <=> top.kind = "gate" /\ r = s /\ top.mode = Shared
  <2>1. /\ top.kind \in {"gate", "turn", "data"} /\ s \in Scopes /\ top.mode \in Modes
        /\ top = [kind |-> top.kind, scope |-> top.scope, mode |-> top.mode]
    BY DEF Stages
  <2> QED BY <2>1 DEF ReadGate, Modes, Shared, Exclusive
<1>4. PICK l \in {"rest", "drop"} :
          /\ l = "rest" => Front(stages[t]) = <<>>
          /\ Go(t, l) \/ GoNotify(t, s, l)
          /\ IF top.kind = "gate" THEN SetGate(t, s, new) ELSE gates' = gates
  <2>1. /\ Unwind(Front(stages[t])) \in {"rest", "drop"}
        /\ Unwind(Front(stages[t])) = "rest" => Front(stages[t]) = <<>>
    BY DEF Unwind
  <2> QED BY <1>2, <2>1 DEF Shed
<1>5. Moved(t, l)
  BY <1>1, <1>3, <1>4, GoMoves DEF Labels
<1>6. stages'[t] = Front(stages[t]) /\ leases'[t] = leases[t]
  BY <1>1 DEF Typed
<1>7. \A u \in Tasks \ {t} : Same(u)
  BY <1>1, <1>5 DEF Typed, Moved, Same
<1>8. PICK y \in Nat \X Nat : \A r :
          /\ top = ReadGate(r) => y \in Spots(t, r) /\ Spots(t, r)' = Spots(t, r) \ {y}
          /\ top # ReadGate(r) => Spots(t, r)' = Spots(t, r)
  <2> DEFINE x == <<Len(leases[t]) + 1, Len(stages[t])>>
  <2>1. \A r : /\ x \in Nat \X Nat
               /\ top = ReadGate(r) => x \in Spots(t, r) /\ Spots(t, r)' = Spots(t, r) \ {x}
               /\ top # ReadGate(r) => Spots(t, r)' = Spots(t, r)
    BY <1>1, <1>2, <1>6, SpotsUnder
  <2> HIDE DEF x
  <2> QED BY <2>1
<1>9. (\A r : ~Waits(t, r) /\ ~Waits(t, r)') /\ (pc'[t] = "rest" => stages'[t] = <<>>)
  BY <1>1, <1>4, <1>5, <1>6 DEF Moved, Waits
<1>10. CASE top.kind # "gate"
  <2>1. gates' = gates /\ \A r \in Scopes : Spots(t, r)' = Spots(t, r)
    BY <1>3, <1>4, <1>8, <1>10
  <2> QED BY <1>7, <1>9, <2>1, QuietGates
<1>11. CASE top.kind = "gate"
  <2>1. SetGate(t, s, new)
    BY <1>4, <1>11
  <2>2. Counts(g, R, W)
    <3>1. p \in Procs
      BY TaskAssumption
    <3> QED BY <1>3, <3>1 DEF GateInv, GateCounts
  <2>3. W' = W /\ DOMAIN g = {"readers", "writer", "waiting"} /\ IsFiniteSet(Readers(p, s))
    BY <1>7, <1>9, <2>2, WaitersStay DEF Counts
  <2>4. CASE top.mode = Shared
    <3>1. y \in Spots(t, s) /\ Spots(t, s)' = Spots(t, s) \ {y}
      BY <1>3, <1>8, <1>11, <2>4
    <3>2. IsFiniteSet(R') /\ Cardinality(R') = Cardinality(R) - 1
      BY <1>7, <2>3, <3>1, ReaderOut
    <3>3. new = Left(g, Shared)
      BY <2>4
    <3>4. /\ DOMAIN new = {"readers", "writer", "waiting"} /\ new.readers = g.readers - 1
          /\ new.writer = g.writer /\ new.waiting = g.waiting
      BY <2>3, <3>3, ReaderLeaves
    <3>5. Counts(new, R', W')
      <4> HIDE DEF R, W, g, new
      <4> QED BY <2>2, <2>3, <3>2, <3>4 DEF Counts
    <3>6. \A r \in Scopes \ {s} :
              Spots(t, r)' = Spots(t, r) /\ (Waits(t, r)' <=> Waits(t, r))
      BY <1>3, <1>8, <1>9
    <3> QED BY <1>3, <1>7, <1>9, <2>1, <3>5, <3>6, MovedGate
  <2>5. CASE top.mode = Exclusive
    <3>1. \A r : Spots(t, r)' = Spots(t, r)
      BY <1>3, <1>8, <2>5
    <3>2. R' = R
      BY <1>7, <3>1, ReadersStay
    <3>3. new = Left(g, Exclusive)
      BY <2>5
    <3>4. /\ DOMAIN new = {"readers", "writer", "waiting"} /\ new.readers = g.readers
          /\ new.writer = FALSE /\ new.waiting = g.waiting
      BY <2>3, <3>3, WriterLeaves
    <3>5. Counts(new, R', W')
      <4>1. new.writer \in BOOLEAN
        BY <3>4
      <4> HIDE DEF R, W, g, new
      <4> QED BY <2>2, <2>3, <3>2, <3>4, <4>1 DEF Counts
    <3>6. \A r \in Scopes \ {s} :
              Spots(t, r)' = Spots(t, r) /\ (Waits(t, r)' <=> Waits(t, r))
      BY <1>9, <3>1
    <3> QED BY <1>3, <1>7, <1>9, <2>1, <3>5, <3>6, MovedGate
  <2> QED BY <1>3, <2>4, <2>5
<1> QED BY <1>3, <1>10, <1>11

\* Where nothing is held, nothing is counted.
LEMMA NoSpots ==
    ASSUME NEW t \in Tasks, NEW s, stages'[t] = <<>>, leases'[t] = <<>>
    PROVE  Spots(t, s)' = {}
<1>1. Len(leases'[t]) + 1 = 1 /\ Len(<<>>) = 0
  OBVIOUS
<1>2. Slot(t, 1)' = <<>>
  BY <1>1 DEF Slot
<1>3. \A y : y[1] \in 1..1 => y[1] = 1
  OBVIOUS
<1> QED BY <1>1, <1>2, <1>3 DEF Spots

LEMMA NoSpotsYet ==
    ASSUME NEW t \in Tasks, NEW s, stages[t] = <<>>, leases[t] = <<>>
    PROVE  Spots(t, s) = {}
<1>1. Len(leases[t]) + 1 = 1 /\ Len(<<>>) = 0
  OBVIOUS
<1>2. Slot(t, 1) = <<>>
  BY <1>1 DEF Slot
<1>3. \A y : y[1] \in 1..1 => y[1] = 1
  OBVIOUS
<1> QED BY <1>1, <1>2, <1>3 DEF Spots

LEMMA NobodyCounts == Counts(IdleGate, {}, {})
<1>1. IsFiniteSet({}) /\ Cardinality({}) = 0
  BY FS_EmptySet
<1> QED BY <1>1 DEF Counts, IdleGate

\* With a process die the readers and the writers of its fair locks.
LEMMA DieGates ==
    ASSUME LeaseInv, GateInv, NEW q \in Procs, Die(q)
    PROVE  GateInv'
<1>1. /\ \A t \in Tasks : ProcOf[t] = q =>
             pc'[t] = "rest" /\ stages'[t] = <<>> /\ leases'[t] = <<>>
      /\ \A t \in Tasks : ProcOf[t] # q => Same(t)
      /\ gates' = [gates EXCEPT ![q] = [s \in Scopes |-> IdleGate]]
  BY DEF Die, Same
<1>2. /\ DOMAIN gates' = Procs /\ \A p \in Procs : DOMAIN gates'[p] = Scopes
      /\ \A s \in Scopes : gates'[q][s] = IdleGate
      /\ \A p \in Procs \ {q} : gates'[p] = gates[p]
  BY <1>1 DEF GateInv
<1>3. ASSUME NEW p \in Procs, NEW s \in Scopes
      PROVE  GateCounts(p, s)'
  <2>1. CASE p = q
    <3>1. ASSUME NEW t \in Tasks, ProcOf[t] = q PROVE Spots(t, s)' = {}
      BY <1>1, <3>1, NoSpots
    <3>2. Readers(p, s)' = {} /\ Waiters(p, s)' = {}
      BY <1>1, <2>1, <3>1 DEF Readers, Waiters
    <3> QED BY <1>2, <2>1, <3>2, NobodyCounts DEF GateCounts
  <2>2. CASE p # q
    <3>1. GateCounts(p, s) /\ gates'[p][s] = gates[p][s]
      BY <1>2, <2>2 DEF GateInv
    <3>2. ASSUME NEW u \in Tasks, ProcOf[u] = p
          PROVE  Spots(u, s)' = Spots(u, s) /\ (Waits(u, s)' <=> Waits(u, s))
      BY <1>1, <2>2, <3>2, SameCounts
    <3> QED BY <3>1, <3>2, CountsKept
  <2> QED BY <2>1, <2>2
<1>4. Rested'
  BY <1>1 DEF GateInv, Rested, Same
<1> QED BY <1>2, <1>3, <1>4 DEF GateInv

LEMMA GateInvInit == Init => GateInv
<1> SUFFICES ASSUME Init PROVE GateInv
  OBVIOUS
<1>1. /\ gates = [p \in Procs |-> [s \in Scopes |-> IdleGate]]
      /\ \A t \in Tasks : pc[t] = "rest" /\ stages[t] = <<>> /\ leases[t] = <<>>
  BY DEF Init
<1>2. ASSUME NEW p \in Procs, NEW s \in Scopes
      PROVE  GateCounts(p, s)
  <2>1. \A t \in Tasks : Spots(t, s) = {}
    BY <1>1, NoSpotsYet
  <2>2. Readers(p, s) = {} /\ Waiters(p, s) = {}
    BY <1>1, <2>1 DEF Readers, Waiters
  <2> QED BY <1>1, <2>2, NobodyCounts DEF GateCounts
<1> QED BY <1>1, <1>2 DEF GateInv, Rested

LEMMA GateInvNext ==
    ASSUME LeaseInv, GateInv, [Next]_vars
    PROVE  GateInv'
<1>1. ASSUME NEW t \in Tasks, Step(t)
      PROVE  GateInv'
  BY <1>1, ArriveGates, LockGates, FreeGates, FenceGates, ReleaseGates, ShedGates DEF Step
<1>2. ASSUME NEW t \in Tasks, NEW rungs \in Asks[t], Ask(t, rungs)
      PROVE  GateInv'
  BY <1>2, AskGates
<1>3. ASSUME NEW t \in Tasks, GiveUp(t) \/ FailUnlock(t) \/ Retry(t)
      PROVE  GateInv'
  BY <1>3, GiveUpGates, StuckGates
<1>4. ASSUME NEW p \in Procs, Die(p)
      PROVE  GateInv'
  BY <1>4, DieGates
<1>5. CASE UNCHANGED vars
  <2>1. \A u \in Tasks : Same(u)
    BY <1>5 DEF vars, Same
  <2>2. gates' = gates
    BY <1>5 DEF vars
  <2>3. ASSUME NEW p \in Procs, NEW s \in Scopes
        PROVE  GateCounts(p, s)'
    BY <2>1, <2>2, SameCounts, CountsKept DEF GateInv
  <2>4. Rested'
    BY <1>5 DEF vars, GateInv, Rested
  <2> QED BY <2>2, <2>3, <2>4 DEF GateInv
<1> QED BY <1>1, <1>2, <1>3, <1>4, <1>5 DEF Next

\* The fair lock of a scope counts, in every process, the readers that hold it
\* and the writers that wait for it (_FairRwLock, whatever gives up, fails or dies).
THEOREM GatesCount == Spec => []GateInv
<1>1. Init => GateInv
  BY GateInvInit
<1>2. LeaseInv /\ GateInv /\ [Next]_vars => GateInv'
  BY GateInvNext
<1> QED BY <1>1, <1>2, LeasesAreBacked, PTL DEF Spec

\* The shape of the fair locks, and what is counted besides.
GateRecords == [readers : Int, writer : BOOLEAN, waiting : Int]

Tallied == /\ gates \in [Procs -> [Scopes -> GateRecords]]
           /\ asked \in [Tasks -> Nat] /\ mishaps \in Nat

LEMMA GateRecorded ==
    ASSUME gates \in [Procs -> [Scopes -> GateRecords]],
           NEW t \in Tasks, NEW s \in Scopes, NEW gate \in GateRecords, SetGate(t, s, gate)
    PROVE  gates' \in [Procs -> [Scopes -> GateRecords]]
BY TaskAssumption DEF SetGate

LEMMA GateMoves ==
    ASSUME NEW gate \in GateRecords, NEW mode
    PROVE  /\ Entered(gate, mode) \in GateRecords /\ Left(gate, mode) \in GateRecords
           /\ [gate EXCEPT !.waiting = @ + 1] \in GateRecords
           /\ [gate EXCEPT !.waiting = @ - 1] \in GateRecords
<1>1. /\ [gate EXCEPT !.readers = @ + 1] \in GateRecords
      /\ [gate EXCEPT !.readers = @ - 1] \in GateRecords
  BY DEF GateRecords
<1>2. /\ [gate EXCEPT !.writer = TRUE] \in GateRecords
      /\ [gate EXCEPT !.writer = FALSE] \in GateRecords
  BY DEF GateRecords
<1>3. /\ [gate EXCEPT !.waiting = @ + 1] \in GateRecords
      /\ [gate EXCEPT !.waiting = @ - 1] \in GateRecords
  BY DEF GateRecords
<1> QED BY <1>1, <1>2, <1>3 DEF Entered, Left

LEMMA TalliedNext ==
    ASSUME LeaseInv, Tallied, [Next]_vars
    PROVE  Tallied'
<1>1. CASE UNCHANGED <<gates, asked, mishaps>>
  BY <1>1 DEF Tallied
<1>2. ASSUME NEW t \in Tasks, NEW gate \in GateRecords, NEW s \in Scopes,
             SetGate(t, s, gate), UNCHANGED <<asked, mishaps>>
      PROVE  Tallied'
  BY <1>2, GateRecorded DEF Tallied
<1>3. ASSUME NEW t \in Tasks, pc[t] \in Climbing
      PROVE  /\ Scope(t) \in Scopes
             /\ Gate(t) \in GateRecords /\ Unqueued(t) \in GateRecords
  <2>1. Scope(t) \in Scopes /\ ProcOf[t] \in Procs
    BY <1>3, Wanted, TaskAssumption
  <2>2. Gate(t) \in GateRecords
    BY <2>1 DEF Gate, Tallied
  <2> QED BY <2>1, <2>2, GateMoves DEF Unqueued
<1>4. ASSUME NEW t \in Tasks, Arrive(t) \/ Wake(t)
      PROVE  Tallied'
  <2>1. pc[t] \in Climbing /\ UNCHANGED <<asked, mishaps>>
    BY <1>4 DEF Arrive, Wake, Climbing
  <2>2. \/ gates' = gates
        \/ \E gate \in GateRecords : SetGate(t, Scope(t), gate)
    BY <1>3, <1>4, <2>1, GateMoves DEF Arrive, Wake, Pass
  <2> QED BY <1>1, <1>2, <1>3, <2>1, <2>2
<1>5. ASSUME NEW t \in Tasks, GiveUp(t)
      PROVE  Tallied'
  <2>1. pc[t] \in Climbing /\ UNCHANGED <<asked, mishaps>>
    BY <1>5 DEF GiveUp, Climbing
  <2>2. gates' = gates \/ SetGate(t, Scope(t), Unqueued(t))
    BY <1>5 DEF GiveUp, LeaveQueue
  <2> QED BY <1>1, <1>2, <1>3, <2>1, <2>2
<1>6. ASSUME NEW t \in Tasks, Shed(t)
      PROVE  Tallied'
  <2>1. PICK top \in Stages : top = Last(stages[t])
    <3>1. stages[t] \in Seq(Stages) /\ stages[t] # <<>>
      BY <1>6 DEF Shed, LeaseInv, Typed, Shape
    <3> QED BY <3>1, FrontLast
  <2>2. top.scope \in Scopes /\ ProcOf[t] \in Procs
    BY TaskAssumption DEF Stages
  <2>3. Left(gates[ProcOf[t]][top.scope], top.mode) \in GateRecords
    BY <2>2, GateMoves DEF Tallied
  <2>4. /\ UNCHANGED <<asked, mishaps>>
        /\ \/ gates' = gates
           \/ SetGate(t, top.scope, Left(gates[ProcOf[t]][top.scope], top.mode))
    BY <1>6, <2>1 DEF Shed
  <2> QED BY <1>1, <1>2, <2>2, <2>3, <2>4
<1>7. ASSUME NEW t \in Tasks, LockTurn(t) \/ LockData(t) \/ FreeTurn(t) \/ TakeFence(t)
             \/ Release(t) \/ Retry(t)
      PROVE  UNCHANGED <<gates, asked, mishaps>>
  BY <1>7 DEF LockTurn, LockData, FreeTurn, TakeFence, Release, Retry
<1>8. ASSUME NEW t \in Tasks, NEW rungs \in Asks[t], Ask(t, rungs)
      PROVE  Tallied'
  BY <1>8 DEF Ask, Tallied
<1>9. ASSUME NEW t \in Tasks, FailUnlock(t)
      PROVE  Tallied'
  BY <1>9 DEF FailUnlock, Tallied
<1>10. ASSUME NEW p \in Procs, Die(p)
       PROVE  Tallied'
  <2>1. IdleGate \in GateRecords
    BY DEF IdleGate, GateRecords
  <2> QED BY <1>10, <2>1 DEF Die, Tallied
<1>11. CASE UNCHANGED vars
  BY <1>1, <1>11 DEF vars
<1> QED BY <1>1, <1>4, <1>5, <1>6, <1>7, <1>8, <1>9, <1>10, <1>11 DEF Next, Step

LEMMA InvsTyped ==
    ASSUME LeaseInv, GateInv, Tallied
    PROVE  TypeOK
<1>1. ASSUME NEW p \in Procs, NEW s \in Scopes
      PROVE  gates[p][s] \in [readers : Nat, writer : BOOLEAN, waiting : Nat]
  <2>1. Counts(gates[p][s], Readers(p, s), Waiters(p, s))
    BY DEF GateInv, GateCounts
  <2>2. gates[p][s].readers \in Nat /\ gates[p][s].waiting \in Nat
    BY <2>1, FS_CardinalityType DEF Counts
  <2>3. gates[p][s] \in GateRecords
    BY DEF Tallied
  <2> QED BY <2>2, <2>3 DEF GateRecords
<1>2. gates \in [Procs -> [Scopes -> [readers : Nat, writer : BOOLEAN, waiting : Nat]]]
  BY <1>1 DEF Tallied
<1>3. \A t \in Tasks : DOMAIN got[t] \subseteq Scopes
  BY DEF LeaseInv, Typed, FenceMaps
<1>4. DOMAIN got = Tasks /\ DOMAIN leases = Tasks
  BY DEF LeaseInv, Typed
<1> QED BY <1>2, <1>3, <1>4 DEF TypeOK, LeaseInv, Typed, Tallied

\* Every variable has its type: the counters of a fair lock never fall below zero.
THEOREM TypeCorrect == Spec => []TypeOK
<1>1. Init => Tallied
  BY DEF Init, Tallied, IdleGate, GateRecords
<1>2. LeaseInv /\ Tallied /\ [Next]_vars => Tallied'
  BY TalliedNext
<1>3. LeaseInv /\ GateInv /\ Tallied => TypeOK
  BY InvsTyped
<1> QED BY <1>1, <1>2, <1>3, LeasesAreBacked, GatesCount, PTL DEF Spec

=============================================================================
