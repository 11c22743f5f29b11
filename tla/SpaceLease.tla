---------------------------- MODULE SpaceLease ----------------------------
(***************************************************************************)
(* What a lease promises to the code that holds one (abstract              *)
(* specification of runtime/leases.py).  A scope is the process owner, the *)
(* global scope or a Space.  A scope is held by one EXCLUSIVE lease or by  *)
(* any number of SHARED ones, of whatever process.  Every scope has a      *)
(* durable counter, its fence: no EXCLUSIVE lease carries a fence that an  *)
(* earlier one carried, and the fence stands still while the scope is      *)
(* held, so that a receipt of it goes stale only after the lease ended.    *)
(***************************************************************************)
EXTENDS Naturals, FiniteSets

CONSTANTS Tasks,    \* the coroutines that acquire leases
          Scopes

Shared == "shared"
Exclusive == "exclusive"

VARIABLES held,     \* the leases: [task, scope, mode, fence]
          fence,    \* scope -> the value in its fence file
          issued    \* scope -> the fence of its newest EXCLUSIVE lease

leaseVars == <<held, fence, issued>>

Compatible(a, b) == a = Shared /\ b = Shared

\* No lease stands in the way of one on scope s.
Free(s, mode) == \A h \in held : h.scope = s => Compatible(h.mode, mode)

Init == /\ held = {}
        /\ fence = [s \in Scopes |-> 0]
        /\ issued = [s \in Scopes |-> 0]

\* An acquisition of EXCLUSIVE that is under way, and may still fail, moves
\* the fence: only while nobody holds the scope.
Advance(s) == /\ Free(s, Exclusive)
              /\ fence' = [fence EXCEPT ![s] = @ + 1]
              /\ UNCHANGED <<held, issued>>

\* Task t obtains a lease on every scope of S at once.  The fence of the last
\* one may move in the same step.
Grant(t, S, mode) ==
    /\ \A s \in S : Free(s, mode)
    /\ \/ fence' = fence
       \/ mode = Exclusive /\ \E s \in S : fence' = [fence EXCEPT ![s] = @ + 1]
    /\ mode = Exclusive => \A s \in S : fence'[s] > issued[s]
    /\ issued' = [s \in Scopes |-> IF mode = Exclusive /\ s \in S
                                   THEN fence'[s] ELSE issued[s]]
    /\ held' = held \cup {[task |-> t, scope |-> s, mode |-> mode,
                           fence |-> fence'[s]] : s \in S}

\* Leases end: a task releases, or the process of several tasks dies.
End == /\ held' \subseteq held
       /\ UNCHANGED <<fence, issued>>

Next == \/ \E s \in Scopes : Advance(s)
        \/ \E t \in Tasks, S \in SUBSET Scopes, mode \in {Shared, Exclusive} :
               Grant(t, S, mode)
        \/ End

Spec == Init /\ [][Next]_leaseVars
=============================================================================
