---------------------------- MODULE BatchServer ----------------------------
(***************************************************************************)
(* The server's side of push (backend sync/protocol.py and the batch path  *)
(* of mutation/unit_of_work.py and journal.py) for the rows a device edits *)
(* offline, whose conflict policy is timestamp_lww.  A batch is handled    *)
(* under the exclusive lease, after recovery, and therefore in one step;   *)
(* SpaceMutation has its steps.  Other clients write the same rows.        *)
(*                                                                         *)
(* A command is an outbox row as the device froze it.  Its time "at" also  *)
(* stands for its payload: no two writes have the same time.               *)
(***************************************************************************)
EXTENDS Naturals, Sequences, FiniteSets

CONSTANTS
    Entities,  \* rows of the Space
    Existing,  \* those every device knows at the start
    Ids        \* operation ids, numbered in the order of localeCompare

ASSUME ServerAssumption == Existing \subseteq Entities /\ Ids \subseteq Nat \ {0}

VARIABLES
    srv,     \* srv[e]: the business row and whether a tombstone exists
    ledger,  \* the published events, in order
    batches  \* the receipts of batches

serverVars == <<srv, ledger, batches>>

Body(ver, at) == [ver |-> ver, at |-> at]
NoBody == Body(0, 0)
Event(e, act, body, op) == [ent |-> e, act |-> act, body |-> body, op |-> op]

ServerInit ==
    /\ srv = [e \in Entities |->
                [body |-> IF e \in Existing THEN Body(1, 0) ELSE NoBody, dead |-> FALSE]]
    /\ ledger = <<>>
    /\ batches = {}

Present(e) == srv[e].body # NoBody

----------------------------------------------------------------------------
(* Compiling the commands of a batch *)

(* _require_current_version: the command names the current version, or it  *)
(* is younger than the row.                                                *)
Admits(c) == c.exp = srv[c.ent].body.ver \/ c.at > srv[c.ent].body.at

(* compile_against_overlay and compile_catalog_entity_command *)
Verdict(c) ==
    CASE c.act # "delete" /\ srv[c.ent].dead      -> "conflict"
      [] c.act = "create" /\ ~srv[c.ent].dead     ->
           IF Present(c.ent) THEN "conflict" ELSE "applied"
      [] c.act = "delete" /\ ~Present(c.ent)      -> "error"
      [] c.act = "update" /\ ~srv[c.ent].dead /\ ~Present(c.ent) -> "error"
      [] OTHER -> IF Admits(c) THEN "applied" ELSE "conflict"

Accepted(commands) == {c \in commands : Verdict(c) = "applied"}

(* A conflict carries the row it lost to; a tombstone leaves none.         *)
Outcome(c) == [kind |-> Verdict(c), snap |-> srv[c.ent].body]

Successor(c) == Body(srv[c.ent].body.ver + 1, c.at)

Listings(commands) == [1..Cardinality(commands) -> commands]

InOrder(commands) ==
    CHOOSE s \in Listings(commands) : \A i, j \in DOMAIN s : i < j => s[i].op < s[j].op
ByAge(commands) ==
    CHOOSE s \in Listings(commands) : \A i, j \in DOMAIN s : i < j => s[i].at < s[j].at

OpsIn(seq) == [i \in DOMAIN seq |-> seq[i].op]

(* The commands of a batch are about distinct rows: each finds its row as  *)
(* the batch found it.                                                     *)
Write(commands) ==
    /\ srv' = [e \in Entities |->
         IF \E c \in commands : c.ent = e
         THEN LET c == CHOOSE c \in commands : c.ent = e
              IN  [body |-> IF c.act = "delete" THEN NoBody ELSE Successor(c),
                   dead |-> srv[e].dead \/ c.act = "delete"]
         ELSE srv[e]]
    /\ ledger' = ledger \o [i \in 1..Cardinality(commands) |->
                              LET c == InOrder(commands)[i]
                              IN  Event(c.ent, c.act, Successor(c), c.op)]

----------------------------------------------------------------------------
(* Receipts *)

(* The id of a batch digests its operation ids, oldest edit first.         *)
BatchId(commands) == OpsIn(ByAge(commands))

(* create_batch_intent and record_rejected_batch store the complete result *)
(* before anything is applied.                                             *)
Receipt(commands, state) ==
    [id      |-> BatchId(commands),
     rows    |-> commands,
     outcome |-> [o \in {c.op : c \in commands} |->
                    Outcome(CHOOSE c \in commands : c.op = o)],
     state   |-> state]

Children(b) == {o \in DOMAIN b.outcome : b.outcome[o].kind = "applied"}
Known(commands) == \E b \in batches : b.id = BatchId(commands)

(* find_operation_batch_bindings *)
BoundElsewhere(commands) ==
    \E b \in batches : Children(b) \cap {c.op : c \in commands} # {}

(* Faulty variant: a known batch is carried out again.                     *)
CarriedOutAgain(commands) ==
    /\ batches' = batches \cup {Receipt(commands, "FINALIZED")}
    /\ Write(IF Known(commands) THEN commands ELSE Accepted(commands))

(* _execute_prepared_batch.  A known batch is answered from its receipt; a *)
(* new one whose operations belong to another batch is refused.            *)
Execute(commands) ==
    IF Known(commands) \/ BoundElsewhere(commands)
    THEN UNCHANGED serverVars
    ELSE /\ batches' = batches \cup
              {Receipt(commands, IF Accepted(commands) = {} THEN "ABORTED" ELSE "FINALIZED")}
         /\ Write(Accepted(commands))

(* What recovery leaves of a batch that was interrupted before its         *)
(* business commit, or whose projections were undone: the receipt.         *)
Interrupt(commands) ==
    /\ ~Known(commands) /\ ~BoundElsewhere(commands) /\ Accepted(commands) # {}
    /\ \E s \in {"ABORTED", "COMPENSATED"} :
         batches' = batches \cup {Receipt(commands, s)}
    /\ UNCHANGED <<srv, ledger>>

(* _resume_or_return: the batch a request is answered with, if any.        *)
Answers(commands) ==
    {b \in batches' : /\ b.id = BatchId(commands)
                      /\ b.rows = commands
                      /\ b.state # "COMPENSATED"}

----------------------------------------------------------------------------
(* query_operations finds an operation that was applied or rejected in the *)
(* receipt of its batch, whatever became of the batch.                     *)
(* Faulty variant: only what was finalized is found.                       *)
BoundIfFinal(o) == \E b \in batches : b.state = "FINALIZED" /\ o \in DOMAIN b.outcome

Bound(o) == \E b \in batches : o \in DOMAIN b.outcome
BatchOf(o) == CHOOSE b \in batches : o \in DOMAIN b.outcome

(* A write of another client to an existing row: its events are ordinary   *)
(* ones.                                                                   *)
OtherWrite(e, act, time) ==
    /\ Present(e)
    /\ Write({[op |-> 0, ent |-> e, act |-> act, exp |-> srv[e].body.ver, at |-> time]})
    /\ UNCHANGED batches
=============================================================================
