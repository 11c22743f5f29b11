---------------------------- MODULE SyncServer ----------------------------
(***************************************************************************)
(* The server side of sync v2 for one Space: the ledger of published       *)
(* events (services/sync_outbox.py), the registry of devices               *)
(* (sync/clients.py), snapshots for full recovery (sync/snapshot.py) and   *)
(* retention (sync/retention.py).                                          *)
(*                                                                         *)
(* Every sync operation holds the EXCLUSIVE Space lease, recovers the      *)
(* Space first and is one transaction, so that each is one step here and   *)
(* sees only batches that SpaceMutation has brought to an outcome.  A      *)
(* write is a batch of one event.                                          *)
(***************************************************************************)
EXTENDS Naturals, FiniteSets

CONSTANTS
    Devices,    \* sync clients
    MaxWrites,  \* bound on the writes of a behaviour
    Chunks,     \* pages of a snapshot
    PageSize    \* events of a pull page

ASSUME SyncAssumption ==
    /\ MaxWrites \in Nat
    /\ Chunks \in Nat \ {0}
    /\ PageSize \in Nat \ {0}

Ids == 1..MaxWrites

VARIABLES
    ledger,   \* ledger[id]: the write whose event has this id, 0 if there is no row
    cursor,   \* sync_state.current_cursor
    floor,    \* sync_state.retention_floor
    written,  \* number of writes so far; writes are numbered from 1
    final,    \* the writes that were published
    reg,      \* reg[d]: the row of sync_clients together with its manifest
    tokens,   \* tokens[d]: snapshots created for d
    reused    \* history: an id at or below the cursor has been allocated

outboxes == <<ledger, cursor, written, final, reused>>
registry == <<reg, tokens>>

(***************************************************************************)
(* token is the manifest a device is bound to, 0 if there is none; line,   *)
(* snap, done and stale are that manifest's waterline, its content,        *)
(* whether its last page was served and whether its lifetime is over.  A   *)
(* manifest no device is bound to can be neither read nor acknowledged.    *)
(***************************************************************************)
Unregistered ==
    [known |-> FALSE, ack |-> 0, needs |-> TRUE, gen |-> 0, expired |-> FALSE,
     token |-> 0, line |-> 0, snap |-> {}, done |-> FALSE, stale |-> FALSE]

ServerInit ==
    /\ ledger = [id \in Ids |-> 0]
    /\ cursor = 0 /\ floor = 0 /\ written = 0
    /\ final = {}
    /\ reg = [d \in Devices |-> Unregistered]
    /\ tokens = [d \in Devices |-> 0]
    /\ reused = FALSE

Rows == {id \in Ids : ledger[id] # 0}

(* SQLite hands out the id after the largest one present. *)
NextId ==
    IF Rows = {} THEN 1 ELSE 1 + CHOOSE id \in Rows : \A x \in Rows : x <= id

Above(s) == {id \in Rows : id > s}

(* read_visible_event_page_bounded: the oldest rows above the cursor. *)
PageIds(s) == {id \in Above(s) : Cardinality({x \in Above(s) : x <= id}) <= PageSize}

(* Faulty variant: counts rows instead of reading the last one's id.       *)
PageEndBySize(s)   == s + PageSize

(* Faulty variant: skips what the page did not hold.                       *)
PageEndAtCursor(s) == cursor

PageEnd(s) == IF Above(s) = {} THEN s
              ELSE CHOOSE id \in PageIds(s) : \A x \in PageIds(s) : x <= id

----------------------------------------------------------------------------
(* Writes *)

(* A batch allocates the next id and moves the cursor.  Published, it      *)
(* keeps its row; compensated, it leaves only the moved cursor behind.     *)
Write(published) ==
    /\ written < MaxWrites
    /\ written' = written + 1
    /\ cursor' = IF NextId > cursor THEN NextId ELSE cursor
    /\ reused' = (reused \/ NextId <= cursor)
    /\ IF published
       THEN /\ ledger' = [ledger EXCEPT ![NextId] = written + 1]
            /\ final' = final \cup {written + 1}
       ELSE UNCHANGED <<ledger, final>>
    /\ UNCHANGED <<floor, registry>>

----------------------------------------------------------------------------
(* The registry *)

Unpinned(R) == [R EXCEPT !.needs = TRUE, !.token = 0, !.line = 0, !.snap = {},
                         !.done = FALSE, !.stale = FALSE]

(* register_or_touch *)
Touch(R) ==
    IF ~R.known THEN [R EXCEPT !.known = TRUE]
    ELSE IF R.expired THEN [Unpinned(R) EXCEPT !.expired = FALSE]
    ELSE R

(* expire_inactive, collect_expired_recovery, delete_expired_registrations *)
ExpireInactive(R) ==
    IF R.token = 0 /\ ~R.needs /\ R.expired THEN Unpinned(R) ELSE R

CollectExpired(R) == IF R.token # 0 /\ R.stale THEN Unpinned(R) ELSE R

DeleteExpired(R) ==
    IF R.needs /\ R.expired /\ R.token = 0 THEN Unregistered ELSE R

----------------------------------------------------------------------------
(* Requests.  A request names its device, and the cursor (seq, gen) or the *)
(* page token (token, next, gen) it presents; the answer has the same form.*)

Message(d, kind, seq, gen, token, next, got) ==
    [from |-> d, kind |-> kind, seq |-> seq, gen |-> gen, token |-> token,
     next |-> next, got |-> got]

(* cursor_expired, with recovery_action full_recovery *)
Rejection(d) == Message(d, "expired", 0, 0, 0, 0, {})

Outcome(d, R, answer) ==
    [reg |-> [reg EXCEPT ![d] = R], tokens |-> tokens, answer |-> answer]

(* Faulty variant: checks neither the generation nor the flag.             *)
AcceptsSequence(R, seq, gen) == floor <= seq /\ seq <= cursor

(* SyncProtocol.pull *)
AcceptsCursor(R, seq, gen) ==
    /\ ~R.needs
    /\ gen = R.gen
    /\ floor <= seq /\ seq <= cursor

Pull(r) ==
    LET R == Touch(reg[r.from])
    IN  Outcome(r.from, R,
          IF AcceptsCursor(R, r.seq, r.gen)
          THEN Message(r.from, "events", PageEnd(r.seq), R.gen, 0, 0,
                       {ledger[id] : id \in PageIds(r.seq)})
          ELSE Rejection(r.from))

(* SyncClientRegistry.acknowledge: a device that recovers is taken back    *)
(* when it acknowledges exactly the waterline of its completed snapshot.   *)
AcceptsAck(R, seq, gen) ==
    /\ R.known /\ ~R.expired
    /\ gen = R.gen
    /\ floor <= seq /\ seq <= cursor /\ R.ack <= seq
    /\ R.needs => R.token # 0 /\ R.done /\ ~R.stale /\ seq = R.line

Ack(r) ==
    LET R == reg[r.from]
    IN  IF AcceptsAck(R, r.seq, r.gen)
        THEN Outcome(r.from, [Unpinned(R) EXCEPT !.needs = FALSE, !.ack = r.seq],
                     Message(r.from, "acked", 0, 0, 0, 0, {}))
        ELSE Outcome(r.from, R, Rejection(r.from))

(* SyncSnapshotStore.page *)
ServesPage(R, r) ==
    /\ R.token # 0 /\ r.token = R.token /\ r.gen = R.gen
    /\ ~R.stale
    /\ r.next < Chunks

PageOf(d, R, k) ==
    Message(d, "page", R.line, R.gen, R.token, k + 1, R.snap)

AfterPage(R, k) ==
    [R EXCEPT !.done = R.done \/ k + 1 = Chunks, !.expired = FALSE]

(* SyncSnapshotStore.create binds the device to a snapshot of the rows.    *)
Created(d, R) ==
    [R EXCEPT !.gen = R.gen + 1, !.needs = TRUE, !.token = tokens[d] + 1,
              !.line = cursor, !.snap = final, !.done = FALSE, !.stale = FALSE]

(* SyncProtocol.recover *)
Recover(r) ==
    LET d     == r.from
        swept == [x \in Devices |->
                    CollectExpired(IF x = d THEN Touch(ExpireInactive(reg[x]))
                                   ELSE ExpireInactive(reg[x]))]
        new   == r.token = 0
        R     == IF new THEN Created(d, swept[d]) ELSE swept[d]
        k     == IF new THEN 0 ELSE r.next
        ok    == new \/ ServesPage(R, r)
    IN  [reg    |-> [swept EXCEPT ![d] = IF ok THEN AfterPage(R, k) ELSE R],
         tokens |-> IF new THEN [tokens EXCEPT ![d] = @ + 1] ELSE tokens,
         answer |-> IF ok THEN PageOf(d, R, k) ELSE Rejection(d)]

Handled(r) ==
    CASE r.kind = "pull" -> Pull(r)
      [] r.kind = "ack"  -> Ack(r)
      [] OTHER           -> Recover(r)

Serve(r) ==
    /\ reg' = Handled(r).reg
    /\ tokens' = Handled(r).tokens
    /\ UNCHANGED <<outboxes, floor>>

----------------------------------------------------------------------------
(* Retention *)

(* Faulty variant: forgets the snapshots under way.                        *)
PinsOfDevices(R) == {R[d].ack : d \in {x \in Devices : R[x].known /\ ~R[x].needs}}

(* minimum_safe_retention_sequence: what active devices have acknowledged  *)
(* and what the snapshots being downloaded stand for.                      *)
Pins(R) ==
    {R[d].ack : d \in {x \in Devices : R[x].known /\ ~R[x].needs}} \cup
    {R[d].line : d \in {x \in Devices : R[x].token # 0}}

Prune ==
    LET swept == [d \in Devices |->
                    DeleteExpired(CollectExpired(ExpireInactive(reg[d])))]
    IN  /\ reg' = swept
        /\ IF Pins(swept) = {}
           THEN UNCHANGED <<ledger, floor>>
           ELSE \E safe \in Pins(swept) :
                  /\ \A x \in Pins(swept) : safe <= x
                  /\ IF safe > cursor
                     THEN UNCHANGED <<ledger, floor>>
                     ELSE LET line == IF safe > floor THEN safe ELSE floor
                          IN  /\ floor' = line
                              /\ ledger' = [id \in Ids |-> IF id <= line THEN 0
                                                           ELSE ledger[id]]
        /\ UNCHANGED <<cursor, written, final, reused, tokens>>

(* The lifetimes of a registration and of a manifest end.  Serving a page  *)
(* extends the registration, so that it outlives the manifest it is bound  *)
(* to: a device that has expired is bound to no manifest that has not.     *)
ExpireDevice(d) ==
    /\ reg[d].known /\ ~reg[d].expired
    /\ reg' = [reg EXCEPT ![d].expired = TRUE, ![d].stale = reg[d].token # 0]
    /\ UNCHANGED <<outboxes, floor, tokens>>

ExpireManifest(d) ==
    /\ reg[d].token # 0 /\ ~reg[d].stale
    /\ reg' = [reg EXCEPT ![d].stale = TRUE]
    /\ UNCHANGED <<outboxes, floor, tokens>>
=============================================================================
