---------------------------- MODULE SyncDevice ----------------------------
(***************************************************************************)
(* The devices of one Space and their sync loop (frontend lib/sync:        *)
(* engine.ts, pull-loop.ts, recovery.ts, sync-meta.ts), composed with the  *)
(* server of SyncServer.  A device keeps its replica, its cursor, the      *)
(* cursor it still has to acknowledge and the state of a full recovery in  *)
(* IndexedDB; a cycle holds nothing else that outlives it, so that what a  *)
(* device does next follows from these alone.  One request of a device is  *)
(* under way at a time: a per-Space lock serialises its cycles.            *)
(*                                                                         *)
(* The replica is the set of writes it reflects; local edits, their push   *)
(* and conflicts are not modelled.                                         *)
(***************************************************************************)
EXTENDS SyncServer

CONSTANT MaxMishaps  \* bound on timeouts, lost answers, expiries and full syncs

ASSUME MishapAssumption == MaxMishaps \in Nat

VARIABLES
    have,    \* have[d]: the writes the replica of d reflects
    mark,    \* mark[d]: the installed cursor
    pend,    \* pend[d]: that cursor has not been acknowledged yet
    need,    \* need[d]: the persisted flag requiresFullRecovery
    rec,     \* rec[d]: the state of a full recovery
    answer,  \* answer[d]: the answer under way to d
    late,    \* requests given up by their device that may still be served
    mishaps  \* timeouts, lost answers, expiries and full syncs so far

server == <<outboxes, floor, registry>>
local  == <<have, mark, pend, need, rec>>
wire   == <<answer, late>>
vars   == <<server, local, wire, mishaps>>

NoMark     == [seq |-> 0, gen |-> 0]
NoRecovery == [state |-> "none", token |-> 0, gen |-> 0, next |-> 0, line |-> 0,
               snap |-> {}]
Nothing(d) == Message(d, "none", 0, 0, 0, 0, {})

Init ==
    /\ ServerInit
    /\ have = [d \in Devices |-> {}]
    /\ mark = [d \in Devices |-> NoMark]
    /\ pend = [d \in Devices |-> FALSE]
    /\ need = [d \in Devices |-> TRUE]
    /\ rec = [d \in Devices |-> NoRecovery]
    /\ answer = [d \in Devices |-> Nothing(d)]
    /\ late = {}
    /\ mishaps = 0

Mishap == mishaps < MaxMishaps /\ mishaps' = mishaps + 1
Waits(d) == answer[d].kind # "none"

----------------------------------------------------------------------------
(* What a device asks for *)

RecoverRequest(d) ==
    Message(d, "recover", 0, rec[d].gen, rec[d].token, rec[d].next, {})

CursorRequest(d) ==
    Message(d, IF pend[d] THEN "ack" ELSE "pull", mark[d].seq, mark[d].gen, 0, 0, {})

(* A cycle recovers when it has to; one that need not pulls, unless the    *)
(* user asked for a full sync, which resumes a recovery left half-way.     *)
MustRecover(d) == need[d] \/ mark[d] = NoMark

Requests(d) ==
    {r \in {RecoverRequest(d), CursorRequest(d)} :
       \/ r.kind = "recover" /\ rec[d].state = "downloading"
       \/ r.kind = "recover" /\ rec[d].state = "none" /\ MustRecover(d)
       \/ r.kind # "recover" /\ ~MustRecover(d)}

Ask(d) ==
    /\ ~Waits(d)
    /\ \E r \in Requests(d) :
         /\ Serve(r)
         /\ answer' = [answer EXCEPT ![d] = Handled(r).answer]
    /\ UNCHANGED <<local, late, mishaps>>

(* A full sync that nothing requires starts a new recovery. *)
AskFull(d) ==
    /\ ~Waits(d) /\ ~MustRecover(d) /\ rec[d].state = "none"
    /\ Mishap
    /\ Serve(RecoverRequest(d))
    /\ answer' = [answer EXCEPT ![d] = Handled(RecoverRequest(d)).answer]
    /\ UNCHANGED <<local, late>>

----------------------------------------------------------------------------
(* What a device does with an answer *)

(* runPullLoopV2 applies a page and moves the cursor in one transaction.   *)
ReceiveEvents(d) ==
    /\ answer[d].kind = "events"
    /\ have' = [have EXCEPT ![d] = @ \cup answer[d].got]
    /\ mark' = [mark EXCEPT ![d] = [seq |-> answer[d].seq, gen |-> answer[d].gen]]
    /\ pend' = [pend EXCEPT ![d] = TRUE]
    /\ need' = [need EXCEPT ![d] = FALSE]
    /\ answer' = [answer EXCEPT ![d] = Nothing(d)]
    /\ UNCHANGED <<server, rec, late, mishaps>>

(* sendPendingAck *)
ReceiveAck(d) ==
    /\ answer[d].kind = "acked"
    /\ pend' = [pend EXCEPT ![d] = FALSE]
    /\ need' = [need EXCEPT ![d] = FALSE]
    /\ answer' = [answer EXCEPT ![d] = Nothing(d)]
    /\ UNCHANGED <<server, have, mark, rec, late, mishaps>>

(* runFullRecovery stores a page and the token of the one after it. *)
ReceivePage(d) ==
    /\ answer[d].kind = "page"
    /\ rec' = [rec EXCEPT ![d] =
         [state |-> IF answer[d].next < Chunks THEN "downloading" ELSE "ready",
          token |-> answer[d].token, gen |-> answer[d].gen, next |-> answer[d].next,
          line  |-> answer[d].seq, snap |-> answer[d].got]]
    /\ answer' = [answer EXCEPT ![d] = Nothing(d)]
    /\ UNCHANGED <<server, have, mark, pend, need, late, mishaps>>

(* Faulty variant: does not persist the flag.                              *)
ReceiveExpiredForgetfully(d) ==
    /\ answer[d].kind = "expired"
    /\ answer' = [answer EXCEPT ![d] = Nothing(d)]
    /\ UNCHANGED <<server, local, late, mishaps>>

(* runSyncCycle persists the flag; the retry it starts is the next cycle.  *)
ReceiveExpired(d) ==
    /\ answer[d].kind = "expired"
    /\ need' = [need EXCEPT ![d] = TRUE]
    /\ answer' = [answer EXCEPT ![d] = Nothing(d)]
    /\ UNCHANGED <<server, have, mark, pend, rec, late, mishaps>>

(* A downloaded snapshot replaces the replica in one local transaction.    *)
Install(d) ==
    /\ ~Waits(d) /\ rec[d].state = "ready"
    /\ have' = [have EXCEPT ![d] = rec[d].snap]
    /\ mark' = [mark EXCEPT ![d] = [seq |-> rec[d].line, gen |-> rec[d].gen]]
    /\ pend' = [pend EXCEPT ![d] = TRUE]
    /\ need' = [need EXCEPT ![d] = FALSE]
    /\ rec' = [rec EXCEPT ![d] = NoRecovery]
    /\ UNCHANGED <<server, wire, mishaps>>

----------------------------------------------------------------------------
(* The network and the clock *)

(* A request times out before the server takes it up. *)
GiveUp(d) ==
    /\ ~Waits(d)
    /\ Mishap
    /\ \E r \in Requests(d) : late' = late \cup {r}
    /\ UNCHANGED <<server, local, answer>>

ServeLate(r) ==
    /\ r \in late
    /\ late' = late \ {r}
    /\ Serve(r)
    /\ UNCHANGED <<local, answer, mishaps>>

(* The answer is lost, or the page that waits for it is closed. *)
LoseAnswer(d) ==
    /\ Waits(d)
    /\ Mishap
    /\ answer' = [answer EXCEPT ![d] = Nothing(d)]
    /\ UNCHANGED <<server, local, late>>

Expire(d) ==
    /\ Mishap
    /\ ExpireDevice(d) \/ ExpireManifest(d)
    /\ UNCHANGED <<local, wire>>

----------------------------------------------------------------------------
DeviceStep(d) ==
    \/ Ask(d) \/ Install(d)
    \/ ReceiveEvents(d) \/ ReceiveAck(d) \/ ReceivePage(d) \/ ReceiveExpired(d)

ServerStep ==
    /\ Prune \/ \E published \in BOOLEAN : Write(published)
    /\ UNCHANGED <<local, wire, mishaps>>

Next ==
    \/ ServerStep
    \/ \E d \in Devices :
         DeviceStep(d) \/ AskFull(d) \/ GiveUp(d) \/ LoseAnswer(d) \/ Expire(d)
    \/ \E r \in late : ServeLate(r)

Spec == Init /\ [][Next]_vars

(* A device that is running goes through its sync cycles. *)
FairSpec == Spec /\ \A d \in Devices : WF_vars(DeviceStep(d))

----------------------------------------------------------------------------
(* Properties *)

Messages ==
    [from : Devices, seq : Nat, gen : Nat, token : Nat, next : Nat,
     got : SUBSET Ids, kind : {"pull", "ack", "recover", "none", "events", "acked",
                               "page", "expired"}]

(* Every variable has its type; what a device has acknowledged lies        *)
(* between the retention floor and the cursor as long as it is active.     *)
TypeOK ==
    /\ ledger \in [Ids -> 0..MaxWrites]
    /\ cursor \in Nat /\ floor \in 0..cursor /\ written \in 0..MaxWrites
    /\ final \subseteq 1..written
    /\ reg \in [Devices -> [known : BOOLEAN, ack : 0..cursor, needs : BOOLEAN,
                            gen : Nat, expired : BOOLEAN, token : Nat,
                            line : 0..cursor, snap : SUBSET final,
                            done : BOOLEAN, stale : BOOLEAN]]
    /\ tokens \in [Devices -> Nat]
    /\ reused \in BOOLEAN
    /\ have \in [Devices -> SUBSET final]
    /\ mark \in [Devices -> [seq : 0..cursor, gen : Nat]]
    /\ pend \in [Devices -> BOOLEAN] /\ need \in [Devices -> BOOLEAN]
    /\ rec \in [Devices -> [state : {"none", "downloading", "ready"}, token : Nat,
                            gen : Nat, next : 0..Chunks, line : 0..cursor,
                            snap : SUBSET final]]
    /\ answer \in [Devices -> Messages] /\ late \subseteq Messages
    /\ mishaps \in 0..MaxMishaps

(* The next pull of d would be served, and every published write that d    *)
(* does not have is still ahead of its cursor.                             *)
Served(d) == AcceptsCursor(Touch(reg[d]), mark[d].seq, mark[d].gen)
Missed(d) == {n \in final \ have[d] : \A id \in Above(mark[d].seq) : ledger[id] # n}

(* A cursor the server still accepts never hides a write: what the replica *)
(* lacks comes with a later pull, through timeouts, expiries, pruning and  *)
(* full recoveries, unless the ledger has given an id out twice.           *)
NothingMissed == reused \/ \A d \in Devices : Served(d) => Missed(d) = {}

(* The registration of d was never deleted: its generations, which start  *)
(* again from 0 with a new registration, have named one snapshot each.     *)
Continuous(d) == reg[d].gen = tokens[d]

(* Retention takes an event away only when every active device has it and  *)
(* every snapshot that is being downloaded contains it.                    *)
Retained(n) == \E id \in Ids : ledger[id] = n

RetentionIsSafe ==
    reused \/ \A d \in Devices, n \in final :
       Retained(n) \/ /\ Continuous(d) /\ ~reg[d].needs => n \in have[d]
                      /\ reg[d].token # 0 => n \in reg[d].snap

(* A replica never loses a write it had: no late or repeated snapshot is   *)
(* installed over a newer state.                                           *)
ReplicaNeverRegresses ==
    [][\A d \in Devices : Continuous(d) => have[d] \subseteq have'[d]]_vars

(* A recovery whose snapshot the server has replaced or let expire. *)
Stranded(d) ==
    rec[d].state = "downloading" /\ (rec[d].token # reg[d].token \/ reg[d].stale)

(* When writes, prunes and mishaps end, every device that keeps syncing has *)
(* every published write, unless an id was given out twice or the device   *)
(* is stranded in a recovery.                                              *)
CatchUp == <>[](\A d \in Devices : final \subseteq have[d] \/ reused \/ Stranded(d))
=============================================================================
