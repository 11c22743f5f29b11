---------------------------- MODULE AtomicBatch ----------------------------
(***************************************************************************)
(* What the mutation core promises to the readers of the sync ledger: a    *)
(* batch is accepted with a fixed set of operations, and then either all   *)
(* of them are published in one step, or none ever is.  An outcome, once   *)
(* reached, is final, and a published operation is never withdrawn.        *)
(***************************************************************************)
EXTENDS Naturals

CONSTANTS
    Batches,      \* batch identities
    OpsOf(_)      \* the operations a batch asks for

VARIABLES
    accepted,     \* accepted[b]: the operations of b that were accepted
    outcome,      \* outcome[b]: "open", "committed", "dropped" or "stuck"
    published     \* the operations whose events clients can see

abstract == <<accepted, outcome, published>>

AInit ==
    /\ accepted = [b \in Batches |-> {}]
    /\ outcome = [b \in Batches |-> "open"]
    /\ published = {}

Settle(b, result) ==
    /\ outcome[b] = "open"
    /\ outcome' = [outcome EXCEPT ![b] = result]

Accept(b, S) ==
    /\ outcome[b] = "open" /\ accepted[b] = {}
    /\ S # {}
    /\ accepted' = [accepted EXCEPT ![b] = S]
    /\ UNCHANGED <<outcome, published>>

Publish(b) ==
    /\ accepted[b] # {}
    /\ Settle(b, "committed")
    /\ published' = published \cup accepted[b]
    /\ UNCHANGED accepted

(* A rejected batch is dropped without having been accepted. *)
Drop(b) == Settle(b, "dropped") /\ UNCHANGED <<accepted, published>>

(* Recovery could prove neither outcome; an operator has to decide. *)
GetStuck(b) ==
    /\ accepted[b] # {}
    /\ Settle(b, "stuck")
    /\ UNCHANGED <<accepted, published>>

ANext ==
    \E b \in Batches :
       \/ \E S \in SUBSET OpsOf(b) : Accept(b, S)
       \/ Publish(b)
       \/ Drop(b)
       \/ GetStuck(b)

ASpec == AInit /\ [][ANext]_abstract
=============================================================================
