----------------------------- MODULE PushProofs -----------------------------
(***************************************************************************)
(* Proofs about the push of local edits of PushOutbox and BatchServer, for *)
(* any rows, operation ids, edits and mishaps: an operation takes effect   *)
(* once, the outbox lets go of an edit only when the server has it or the  *)
(* user gave it up, and a clean row shows what the server has.             *)
(*                                                                         *)
(* The argument has three parts.  On the server, events and receipts tell  *)
(* the same story (Served): every event is of a batch that was carried out *)
(* or of another client, and the events of a row lead to the row there is. *)
(* Between the two, requests are the same or have no operation in common   *)
(* (Asked), so that a result can only be that of the rows as they were     *)
(* sent.  On the device, the copy of a row with edits shows the last edit, *)
(* and the copy of a clean one is the server's or will be pulled (Screen). *)
(***************************************************************************)
EXTENDS PushOutbox, FiniteSetTheorems, WellFoundedInduction, TLAPS

Acts    == {"create", "update", "delete"}
Bodies  == [ver : Nat, at : Nat]
Copies  == [body : Bodies, dirty : BOOLEAN, gone : BOOLEAN]
Rows    == [body : Bodies, dead : BOOLEAN]
Events  == [ent : Entities, act : Acts, body : Bodies, op : Ids \cup {0}]
Markers == [state : {"none", "meta_pending", "ready"}, roots : SUBSET RowSet]
Places  == 1..Len(ledger)

\* No two rows have the operation, the entity or the time in common.
Distinct(rows) == \A r, q \in rows : r.op = q.op \/ r.ent = q.ent \/ r.at = q.at => r = q

\* The rows a device has sent or is about to send, one set for each request.
Frozen == late \cup {b.rows : b \in batches} \cup ({receipt} \ {{}})

\* The types that the runs need not look at.
Typed ==
    /\ ledger \in Seq(Events)
    /\ srv \in [Entities -> Rows] /\ local \in [Entities -> Copies]
    /\ outbox \subseteq RowSet /\ receipt \subseteq RowSet
    /\ evidence \subseteq RowSet /\ marker \in Markers
    /\ cursor \in 0..Len(ledger) /\ clock \in 0..MaxEdits /\ mishaps \in 0..MaxMishaps
    /\ owed \in [Entities -> 0..MaxEdits] /\ stale \subseteq Entities
    /\ DOMAIN cycle = {"pc", "chosen", "verdict", "attempted", "found", "fresh"}
    /\ cycle.pc \in {"idle", "admit", "pull", "push", "receipt", "send", "apply"}

\* The outbox has one row of an entity, with the time of its last edit.
Queue ==
    /\ IsFiniteSet(outbox) /\ Distinct(outbox)
    /\ \A r \in outbox : r.at <= clock /\ r.at = owed[r.ent]

\* What was sent once is sent again as it was, or not at all: two requests are
\* the same or have no operation in common.
Requests ==
    /\ \A F \in Frozen : /\ F # {} /\ F \subseteq RowSet
                         /\ IsFiniteSet(F) /\ Distinct(F)
    /\ \A F, G \in Frozen : F = G \/ Ops(F) \cap Ops(G) = {}
    /\ \A q \in late : q = receipt \/ \E b \in batches : b.rows = q

\* A row of the outbox and what was sent of it are about the same entity; an
\* entity that is created was never sent in another row.
Sendings ==
    \A r \in outbox :
        /\ r.act = "create" => r.ent \notin Existing
        /\ \A F \in Frozen : \A q \in F :
              /\ q.op = r.op => q.ent = r.ent
              /\ r.act = "create" /\ q.ent = r.ent => q.op = r.op

\* A batch has one receipt, which the outbox does not outlive: a row whose
\* operation it says was applied is still frozen in the active receipt.
Receipts ==
    /\ \A b \in batches :
          /\ b.id = BatchId(b.rows) /\ DOMAIN b.outcome = Ops(b.rows)
          /\ \A o \in Ops(b.rows) : b.outcome[o].kind \in {"applied", "conflict", "error"}
    /\ \A b, c \in batches : b.rows = c.rows => b = c
    /\ \A b \in batches : \A r \in outbox : r.op \in Children(b) => receipt = b.rows

\* The events are those of the batches that were carried out and of others.
Recorded ==
    /\ \A i \in Places : ledger[i].op # 0 =>
          \E b \in batches : b.state = "FINALIZED" /\ ledger[i].op \in Children(b)
    /\ \A b \in batches : \A r \in b.rows :
          b.state = "FINALIZED" /\ r.op \in Children(b) =>
             \E i \in Places : /\ ledger[i].ent = r.ent /\ ledger[i].act = r.act
                               /\ ledger[i].body.at = r.at /\ ledger[i].op = r.op
    /\ \A i \in Places : ledger[i].ent \notin Existing =>
          \E b \in batches : \E r \in b.rows : r.ent = ledger[i].ent

\* What a cycle goes on with has not changed since it was read.
Cycles ==
    /\ cycle.pc = "receipt" => /\ receipt = {} /\ cycle.chosen # {} /\ cycle.chosen \subseteq Ready
                               /\ \A r \in cycle.chosen : ~Bound(r.op)
    /\ cycle.pc = "send" => receipt # {} /\ cycle.chosen = receipt
    /\ cycle.pc = "apply" =>
          /\ cycle.chosen # {}
          /\ receipt # {} => cycle.chosen = receipt
          /\ \E b \in batches : cycle.verdict.id = b.id /\ cycle.verdict.outcome = b.outcome

\* The events of e: versions grow, nothing comes after a deletion, and the row
\* is what the last one says.
History(e) ==
    /\ \A i, j \in Places : i < j /\ ledger[i].ent = e /\ ledger[j].ent = e
          => ledger[i].body.ver < ledger[j].body.ver /\ ledger[i].act # "delete"
    /\ \A i \in Places : ledger[i].ent = e => ledger[i].body.ver > IF e \in Existing THEN 1 ELSE 0
    /\ \A j \in Places :
          ledger[j].ent = e /\ (\A k \in Places : j < k => ledger[k].ent # e) =>
             /\ srv[e].body = IF ledger[j].act = "delete" THEN NoBody ELSE ledger[j].body
             /\ srv[e].dead <=> ledger[j].act = "delete"
    /\ (\A j \in Places : ledger[j].ent # e) =>
          /\ srv[e].body = IF e \in Existing THEN Body(1, 0) ELSE NoBody
          /\ ~srv[e].dead

\* The copy of e shows the edit that is queued.
Shows(e) ==
    /\ ~Queued(e) => ~local[e].dirty
    /\ \A r \in RowsOf(e) : e \notin stale =>
          /\ local[e].body.at = r.at /\ local[e].body # NoBody
          /\ local[e].gone <=> r.act = "delete"

\* Where the pull has passed an event that came after the device's own, the
\* entity is known to be out of date.
Skipped ==
    \A r \in outbox : \A i, j \in Places :
        /\ i < j /\ j <= cursor /\ ledger[i].op = r.op
        /\ ledger[i].ent = r.ent /\ ledger[j].ent = r.ent
        => r.ent \in stale

\* What a conflict shows was the server's row at some time.
FromServer(e, s) ==
    \/ s = NoBody
    \/ s = Body(1, 0) /\ e \in Existing
    \/ \E i \in Places : ledger[i].ent = e /\ ledger[i].act # "delete" /\ ledger[i].body = s

Snapshots ==
    /\ \A b \in batches : \A r \in b.rows : FromServer(r.ent, b.outcome[r.op].snap)
    /\ \A c \in panel \cup cycle.found :
          /\ c.ent \in Entities
          /\ c.op # 0 \/ c.kind # "delete" => FromServer(c.ent, c.snap)
          /\ c.op # 0 => \E b \in batches : \E q \in b.rows : q.op = c.op /\ q.ent = c.ent

\* A row that nothing is queued for is the server's, or will be pulled.
Matches(e) ==
    IF Present(e) THEN Visible(e) /\ local[e].body.at = srv[e].body.at ELSE ~Visible(e)

Current(e) ==
    ~Queued(e) /\ e \notin stale /\ ~Phantom(e) => News(e) # {} \/ Matches(e)

Kept(e) == owed[e] # 0 /\ ~Queued(e) => Published(e, owed[e]) \/ Phantom(e)

\* What is on the server, what the requests were, and what the device shows.
Served == Recorded /\ AppliedOnce /\ \A e \in Entities : History(e)
Asked  == Queue /\ Requests /\ Sendings /\ Receipts
Screen == (\A e \in Entities : Shows(e) /\ Current(e) /\ Kept(e)) /\ Skipped
PushInv == Typed /\ Served /\ Asked /\ Screen /\ Cycles /\ Snapshots

----------------------------------------------------------------------------
(* Least and greatest elements, and the orders in which rows are listed *)

Less == {ss \in Nat \X Nat : ss[1] < ss[2]}

\* The order of the naturals has no infinite descent.
LEMMA LessIsWellFounded == IsWellFoundedOn(Less, Nat)
  BY NatLessThanWellFounded DEF OpToRel, Less

\* A set of naturals has a smallest element,
LEMMA Smallest ==
    ASSUME NEW S \in SUBSET Nat, S # {}
    PROVE  \E x \in S : \A y \in S : x <= y
<1>1. \E x \in S : \A y \in S : ~(<<y, x>> \in Less)
  BY LessIsWellFounded, WFMin
<1>2. \A x, y \in Nat : <<y, x>> \in Less <=> y < x
  BY DEF Less
<1>3. PICK x \in S : \A y \in S : ~(<<y, x>> \in Less)
  BY <1>1
<1>4. ASSUME NEW y \in S
      PROVE  x <= y
  <2>1. x \in Nat /\ y \in Nat /\ ~(y < x)
    BY <1>2, <1>3
  <2> QED
    BY <2>1
<1> QED
  BY <1>4

\* and a bounded one a largest.
LEMMA Largest ==
    ASSUME NEW S, NEW n \in Nat, S \subseteq 0..n, S # {}
    PROVE  \E x \in S : \A y \in S : y <= x
<1> DEFINE T == {n - y : y \in S}
<1>1. T \in SUBSET Nat /\ T # {}
  <2>1. \A y \in S : n - y \in Nat
    OBVIOUS
  <2> QED
    BY <2>1
<1>2. PICK t \in T : \A u \in T : t <= u
  BY <1>1, Smallest
<1>3. PICK x \in S : t = n - x
  OBVIOUS
<1>4. \A y \in S : n - x <= n - y
  BY <1>2, <1>3
<1> QED
  BY <1>4

\* A finite set can be listed by any key that tells its members apart,
LEMMA Listed ==
    ASSUME NEW S, IsFiniteSet(S), NEW k \in [S -> Nat],
           \A x, y \in S : k[x] = k[y] => x = y
    PROVE  \E s \in [1..Cardinality(S) -> S] :
              \A i, j \in 1..Cardinality(S) : i < j => k[s[i]] < k[s[j]]
<1> DEFINE Listable(T, n) == \E s \in [1..n -> T] : \A i, j \in 1..n : i < j => k[s[i]] < k[s[j]]
           Bad == {n \in Nat : \E T \in SUBSET S : Cardinality(T) = n /\ ~Listable(T, n)}
<1>1. Cardinality(S) \in Nat
  BY FS_CardinalityType
<1>2. CASE Bad = {}
  BY <1>1, <1>2
<1>3. CASE Bad # {}
  <2>1. PICK n \in Bad : \A m \in Bad : n <= m
    BY <1>3, Smallest
  <2>2. PICK T \in SUBSET S : Cardinality(T) = n /\ ~Listable(T, n)
    BY <2>1
  <2>3. IsFiniteSet(T) /\ n \in Nat
    BY <2>1, FS_Subset
  <2>4. T # {}
    <3> SUFFICES ASSUME T = {}
                 PROVE  FALSE
      OBVIOUS
    <3>1. n = 0
      BY <2>2, FS_EmptySet
    <3>2. [i \in 1..n |-> 0] \in [1..n -> T] /\ 1..n = {}
      BY <3>1
    <3> QED
      BY <2>2, <3>2
  <2>5. PICK x \in T : \A y \in T : k[x] <= k[y]
    <3> DEFINE K == {k[y] : y \in T}
    <3>1. K \in SUBSET Nat /\ K # {}
      BY <2>4
    <3>2. PICK a \in K : \A b \in K : a <= b
      BY <3>1, Smallest
    <3> QED
      BY <3>2
  <2>6. IsFiniteSet(T \ {x}) /\ Cardinality(T \ {x}) = n - 1
    BY <2>2, <2>3, <2>5, FS_RemoveElement
  <2>7. n - 1 \in Nat
    BY <2>6, FS_CardinalityType
  <2>8. Listable(T \ {x}, n - 1)
    <3>1. n - 1 \notin Bad
      BY <2>1, <2>3, <2>7
    <3> QED
      BY <2>6, <2>7, <3>1
  <2>9. PICK g \in [1..n - 1 -> T \ {x}] : \A i, j \in 1..n - 1 : i < j => k[g[i]] < k[g[j]]
    BY <2>8
  <2> DEFINE s == [i \in 1..n |-> IF i = 1 THEN x ELSE g[i - 1]]
  <2>10. \A i \in 1..n : i # 1 => i - 1 \in 1..n - 1 /\ g[i - 1] \in T \ {x}
    BY <2>3, <2>9
  <2>11. s \in [1..n -> T]
    BY <2>5, <2>10
  <2>12. ASSUME NEW i \in 1..n, NEW j \in 1..n, i < j
         PROVE  k[s[i]] < k[s[j]]
    <3>1. j # 1 /\ j - 1 \in 1..n - 1 /\ g[j - 1] \in T \ {x} /\ s[j] = g[j - 1]
      BY <2>3, <2>10, <2>12
    <3>2. CASE i = 1
      <4>1. k[x] \in Nat /\ k[s[j]] \in Nat /\ k[x] <= k[s[j]] /\ k[x] # k[s[j]]
        BY <2>5, <3>1
      <4> QED
        BY <3>2, <4>1
    <3>3. CASE i # 1
      <4>1. i - 1 \in 1..n - 1 /\ i - 1 < j - 1 /\ s[i] = g[i - 1]
        BY <2>3, <2>10, <2>12, <3>3
      <4> QED
        BY <2>9, <3>1, <4>1
    <3> QED
      BY <3>2, <3>3
  <2> QED
    BY <2>2, <2>11, <2>12
<1> QED
  BY <1>2, <1>3

\* s lists S in ascending order of k; s lists S, each member once.
Ascends(s, k, S) ==
    /\ k \in [S -> Nat] /\ s \in [1..Cardinality(S) -> S]
    /\ \A i, j \in 1..Cardinality(S) : i < j => k[s[i]] < k[s[j]]
Lists(s, S) ==
    /\ s \in [1..Cardinality(S) -> S]
    /\ \A i, j \in 1..Cardinality(S) : s[i] = s[j] => i = j
    /\ \A x \in S : \E i \in 1..Cardinality(S) : s[i] = x

\* A set that is listed in ascending order is listed in full and without repetition.
LEMMA ListIsComplete ==
    ASSUME NEW S, IsFiniteSet(S), NEW k, NEW s, Ascends(s, k, S)
    PROVE  Lists(s, S)
<1> DEFINE n == Cardinality(S)
<1>1. n \in Nat
  BY FS_CardinalityType
<1>2. ASSUME NEW i \in 1..n, NEW j \in 1..n, s[i] = s[j]
      PROVE  i = j
  <2>1. ~(i < j) /\ ~(j < i)
    <3>1. k[s[i]] \in Nat /\ k[s[i]] = k[s[j]]
      BY <1>2 DEF Ascends
    <3> QED
      BY <3>1 DEF Ascends
  <2> QED
    BY <1>1, <2>1
<1>3. IsFiniteSet(1..n) /\ Cardinality(1..n) = n
  BY <1>1, FS_Interval
<1>4. s \in Injection(1..n, S)
  BY <1>2 DEF Ascends, Injection, IsInjective
<1>5. s \in Surjection(1..n, S)
  BY <1>3, <1>4, FS_Injection
<1> QED
  BY <1>2, <1>5 DEF Ascends, Lists, Surjection

\* The two orders in which the rows of a batch are listed.
LEMMA OrdersExist ==
    ASSUME NEW S \in SUBSET RowSet, IsFiniteSet(S), Distinct(S)
    PROVE  Lists(InOrder(S), S) /\ Lists(ByAge(S), S)
<1> DEFINE n == Cardinality(S)
<1>1. \A r \in S : r.op \in Nat /\ r.at \in Nat
  <2>1. \A r \in RowSet : r.op \in Ids /\ r.at \in 1..MaxEdits
    BY DEF RowSet
  <2>2. Ids \subseteq Nat /\ 1..MaxEdits \subseteq Nat
    BY ServerAssumption, OutboxAssumption DEF ServerAssumption, OutboxAssumption
  <2> QED
    BY <2>1, <2>2
<1>2. Lists(InOrder(S), S)
  <2> DEFINE k == [c \in S |-> c.op]
  <2>1. k \in [S -> Nat] /\ \A x, y \in S : k[x] = k[y] => x = y
    BY <1>1 DEF Distinct
  <2>2. \E s \in [1..n -> S] : \A i, j \in 1..n : i < j => k[s[i]] < k[s[j]]
    BY <2>1, Listed
  <2>3. \E s \in Listings(S) : \A i, j \in DOMAIN s : i < j => s[i].op < s[j].op
    BY <2>2 DEF Listings
  <2>4. /\ InOrder(S) \in Listings(S)
        /\ \A i, j \in DOMAIN InOrder(S) : i < j => InOrder(S)[i].op < InOrder(S)[j].op
    BY <2>3 DEF InOrder
  <2>5. Ascends(InOrder(S), k, S)
    BY <2>1, <2>4 DEF Ascends, Listings
  <2> QED
    BY <2>5, ListIsComplete
<1>3. Lists(ByAge(S), S)
  <2> DEFINE k == [c \in S |-> c.at]
  <2>1. k \in [S -> Nat] /\ \A x, y \in S : k[x] = k[y] => x = y
    BY <1>1 DEF Distinct
  <2>2. \E s \in [1..n -> S] : \A i, j \in 1..n : i < j => k[s[i]] < k[s[j]]
    BY <2>1, Listed
  <2>3. \E s \in Listings(S) : \A i, j \in DOMAIN s : i < j => s[i].at < s[j].at
    BY <2>2 DEF Listings
  <2>4. /\ ByAge(S) \in Listings(S)
        /\ \A i, j \in DOMAIN ByAge(S) : i < j => ByAge(S)[i].at < ByAge(S)[j].at
    BY <2>3 DEF ByAge
  <2>5. Ascends(ByAge(S), k, S)
    BY <2>1, <2>4 DEF Ascends, Listings
  <2> QED
    BY <2>5, ListIsComplete
<1> QED
  BY <1>2, <1>3

----------------------------------------------------------------------------
(* What the server writes *)

\* What a set S of commands adds to the ledger and changes in the rows.
Added == Len(ledger) + 1..Len(ledger')
Says(i, c) == ledger'[i] = Event(c.ent, c.act, Successor(c), c.op)
Appends(S) ==
    /\ Len(ledger) <= Len(ledger')
    /\ \A i \in Places : ledger'[i] = ledger[i]
    /\ \A i \in Added : \E c \in S : Says(i, c)
    /\ \A c \in S : \E i \in Added : Says(i, c)
    /\ \A i, j \in Added : \A c \in S : Says(i, c) /\ Says(j, c) => i = j
Changes(S) ==
    \A e \in Entities :
        /\ (\A c \in S : c.ent # e) => srv'[e] = srv[e]
        /\ \A c \in S : c.ent = e =>
              /\ srv'[e].body = IF c.act = "delete" THEN NoBody ELSE Successor(c)
              /\ srv'[e].dead <=> srv[e].dead \/ c.act = "delete"

\* A command that may be written, and a set of such commands for one step.
Permitted(c) ==
    /\ c.ent \in Entities /\ c.act \in Acts /\ c.at \in Nat /\ c.op \in Ids \cup {0}
    /\ c.act = "create" => ~Present(c.ent) /\ ~srv[c.ent].dead
    /\ c.act # "create" => Present(c.ent)
Written(S) ==
    /\ \A c \in S : Permitted(c)
    /\ \A c, d \in S : c.ent = d.ent => c = d
    /\ Appends(S) /\ Changes(S)
    /\ ledger' \in Seq(Events) /\ srv' \in [Entities -> Rows]

\* Write adds one event of each command and changes its row, if each is about a row
\* of its own.
LEMMA WriteIsWritten ==
    ASSUME Typed, NEW S, IsFiniteSet(S), Lists(InOrder(S), S),
           \A c \in S : Permitted(c),
           \A c, d \in S : c.ent = d.ent => c = d,
           Write(S)
    PROVE  Written(S)
<1> DEFINE n == Cardinality(S)
           new == [i \in 1..n |-> Event(InOrder(S)[i].ent, InOrder(S)[i].act,
                                        Successor(InOrder(S)[i]), InOrder(S)[i].op)]
           l == Len(ledger)
<1>1. n \in Nat /\ l \in Nat /\ ledger \in Seq(Events)
  BY FS_CardinalityType DEF Typed
<1>2. ledger' = ledger \o new
  BY DEF Write
<1>3. \A c \in S : c.ent \in Entities /\ Successor(c) \in Bodies
                  /\ Event(c.ent, c.act, Successor(c), c.op) \in Events
  <2> SUFFICES ASSUME NEW c \in S
               PROVE  c.ent \in Entities /\ Successor(c) \in Bodies
                      /\ Event(c.ent, c.act, Successor(c), c.op) \in Events
    OBVIOUS
  <2>1. c.ent \in Entities /\ c.act \in Acts /\ c.at \in Nat /\ c.op \in Ids \cup {0}
    BY DEF Permitted
  <2>2. srv[c.ent].body.ver \in Nat
    BY <2>1 DEF Typed, Rows, Bodies
  <2>3. Successor(c) \in Bodies
    BY <2>1, <2>2 DEF Successor, Body, Bodies
  <2> QED
    BY <2>1, <2>3 DEF Event, Events
<1>4. \A i \in 1..n : InOrder(S)[i] \in S
  BY DEF Lists
<1>5. new \in Seq(Events) /\ Len(new) = n
  <2>1. new \in [1..n -> Events]
    BY <1>3, <1>4
  <2> QED
    BY <1>1, <2>1
<1>6. ledger' \in Seq(Events) /\ Len(ledger') = l + n
  BY <1>1, <1>2, <1>5
<1>7. \A i \in Places : ledger'[i] = ledger[i]
  BY <1>1, <1>2, <1>5 DEF Places
<1>8. \A k \in 1..n : ledger'[l + k] = new[k]
  BY <1>1, <1>2, <1>5
<1>9. \A k \in 1..n : l + k \in Added /\ Says(l + k, InOrder(S)[k])
  BY <1>1, <1>6, <1>8 DEF Added, Says
<1>10. \A i \in Added : i - l \in 1..n /\ i = l + (i - l)
  BY <1>1, <1>6 DEF Added
<1>11. \A i \in Added : Says(i, InOrder(S)[i - l]) /\ InOrder(S)[i - l] \in S
  BY <1>4, <1>9, <1>10
<1>12. \A c \in S : \E i \in Added : Says(i, c)
  BY <1>9 DEF Lists
<1>13. ASSUME NEW i \in Added, NEW j \in Added, NEW c \in S, Says(i, c), Says(j, c)
       PROVE  i = j
  <2>1. \A k \in Added : Says(k, c) => InOrder(S)[k - l] = c
    <3> SUFFICES ASSUME NEW k \in Added, Says(k, c)
                 PROVE  InOrder(S)[k - l] = c
      OBVIOUS
    <3>1. ledger'[k].ent = c.ent
      BY DEF Says, Event
    <3>2. InOrder(S)[k - l] \in S /\ Says(k, InOrder(S)[k - l])
      BY <1>11
    <3>3. ledger'[k].ent = InOrder(S)[k - l].ent
      BY <3>2 DEF Says, Event
    <3> QED
      BY <3>1, <3>2, <3>3
  <2>2. i - l = j - l
    BY <1>10, <1>13, <2>1 DEF Lists
  <2> QED
    BY <1>10, <2>2
<1>14. Appends(S)
  <2>1. l <= Len(ledger')
    BY <1>1, <1>6
  <2> QED
    BY <2>1, <1>7, <1>11, <1>12, <1>13 DEF Appends
<1>15. srv' \in [Entities -> Rows] /\ Changes(S)
  <2>1. \A e \in Entities : (\A c \in S : c.ent # e) => srv'[e] = srv[e]
    BY DEF Write
  <2>2. ASSUME NEW e \in Entities, NEW c \in S, c.ent = e
        PROVE  srv'[e] = [body |-> IF c.act = "delete" THEN NoBody ELSE Successor(c),
                          dead |-> srv[e].dead \/ c.act = "delete"]
    <3>1. c = CHOOSE d \in S : d.ent = e
      BY <2>2
    <3> QED
      BY <2>2, <3>1 DEF Write
  <2>3. ASSUME NEW e \in Entities
        PROVE  srv'[e] \in Rows
    <3>1. CASE \A c \in S : c.ent # e
      BY <2>1, <3>1 DEF Typed
    <3>2. CASE \E c \in S : c.ent = e
      <4>1. PICK c \in S : c.ent = e
        BY <3>2
      <4> DEFINE x == IF c.act = "delete" THEN NoBody ELSE Successor(c)
                 b == srv[e].dead \/ c.act = "delete"
      <4>2. srv[e].dead \in BOOLEAN /\ Successor(c) \in Bodies /\ NoBody \in Bodies
        BY <1>3 DEF Typed, Rows, NoBody, Body, Bodies
      <4>3. x \in Bodies /\ b \in BOOLEAN
        BY <4>2
      <4>4. srv'[e] = [body |-> x, dead |-> b]
        BY <2>2, <4>1
      <4> HIDE DEF x, b
      <4> QED
        BY <4>3, <4>4 DEF Rows
    <3> QED
      BY <3>1, <3>2
  <2>4. ASSUME NEW e \in Entities, NEW c \in S, c.ent = e
        PROVE  /\ srv'[e].body = IF c.act = "delete" THEN NoBody ELSE Successor(c)
               /\ srv'[e].dead <=> srv[e].dead \/ c.act = "delete"
    <3> DEFINE x == IF c.act = "delete" THEN NoBody ELSE Successor(c)
               b == srv[e].dead \/ c.act = "delete"
    <3>1. srv'[e] = [body |-> x, dead |-> b]
      BY <2>2, <2>4
    <3> HIDE DEF x, b
    <3>2. srv'[e].body = x /\ srv'[e].dead = b
      BY <3>1
    <3> USE DEF x, b
    <3> QED
      BY <3>2
  <2>5. srv' = [e \in Entities |-> srv'[e]]
    BY DEF Write
  <2> QED
    BY <2>1, <2>3, <2>4, <2>5 DEF Changes
<1> QED
  BY <1>6, <1>14, <1>15 DEF Written

\* To write nothing is to write the empty set.
LEMMA NothingIsWritten ==
    ASSUME Typed, UNCHANGED <<srv, ledger>>
    PROVE  Written({})
<1>1. Len(ledger) \in Nat /\ Len(ledger') = Len(ledger)
  BY DEF Typed
<1>2. Added = {}
  BY <1>1 DEF Added
<1>3. Appends({})
  BY <1>1, <1>2 DEF Appends
<1> QED
  BY <1>3 DEF Written, Changes, Typed

----------------------------------------------------------------------------
(* The events of one row *)

\* A row that has events has a last one.
LEMMA LastOf ==
    ASSUME Typed, NEW e, NEW k \in Places, ledger[k].ent = e
    PROVE  \E j \in Places : ledger[j].ent = e /\ \A i \in Places : ledger[i].ent = e => i <= j
<1> DEFINE A == {i \in Places : ledger[i].ent = e}
<1>1. Len(ledger) \in Nat
  BY DEF Typed
<1>2. A \subseteq 0..Len(ledger) /\ A # {}
  BY <1>1 DEF Places
<1>3. PICK j \in A : \A i \in A : i <= j
  BY <1>1, <1>2, Largest
<1> QED
  BY <1>3

\* The row of e is as old as its last event; the place of the last event is
\* the only one that History says it of.
LEMMA RowOf ==
    ASSUME Typed, NEW e \in Entities, History(e)
    PROVE  /\ srv[e].body.ver \in Nat
           /\ \A i \in Places : ledger[i].ent = e =>
                 ledger[i].body.ver \in Nat /\ (Present(e) => ledger[i].body.ver <= srv[e].body.ver)
           /\ Present(e) => \/ srv[e].body = Body(1, 0) /\ e \in Existing
                            \/ \E i \in Places : /\ ledger[i].ent = e /\ ledger[i].act # "delete"
                                                 /\ ledger[i].body = srv[e].body
           /\ Present(e) => ~srv[e].dead /\ \A i \in Places : ledger[i].ent = e => ledger[i].act # "delete"
           /\ Present(e) => srv[e].body.ver > (IF e \in Existing THEN 1 ELSE 0) \/ \A i \in Places : ledger[i].ent # e
           /\ ~Present(e) /\ ~srv[e].dead => e \notin Existing /\ \A i \in Places : ledger[i].ent # e
<1>1. \A i \in Places : ledger[i] \in Events
  BY DEF Typed, Places
<1>2. \A i \in Places : ledger[i].body.ver \in Nat
  BY <1>1 DEF Events, Bodies
<1>3. srv[e].body.ver \in Nat
  BY DEF Typed, Rows, Bodies
<1>4. Places \subseteq Nat
  BY DEF Places
<1>5. CASE \A i \in Places : ledger[i].ent # e
  <2>1. /\ srv[e].body = IF e \in Existing THEN Body(1, 0) ELSE NoBody
        /\ ~srv[e].dead
    BY <1>5 DEF History
  <2>2. Present(e) => e \in Existing
    BY <2>1 DEF Present
  <2>3. e \in Existing => Present(e)
    BY <2>1 DEF Present, NoBody, Body
  <2> QED
    BY <1>3, <1>5, <2>1, <2>2, <2>3
<1>6. CASE \E i \in Places : ledger[i].ent = e
  <2>1. PICK j \in Places : ledger[j].ent = e /\ \A i \in Places : ledger[i].ent = e => i <= j
    BY <1>6, LastOf
  <2>2. \A k \in Places : j < k => ledger[k].ent # e
    BY <1>4, <2>1
  <2>3. /\ srv[e].body = IF ledger[j].act = "delete" THEN NoBody ELSE ledger[j].body
        /\ srv[e].dead <=> ledger[j].act = "delete"
    BY <2>1, <2>2 DEF History
  <2>4. Present(e) <=> ledger[j].act # "delete"
    <3>1. ledger[j].body.ver > 0
      BY <1>2, <2>1 DEF History
    <3>2. ledger[j].body # NoBody
      BY <3>1 DEF NoBody, Body
    <3> QED
      BY <2>3, <3>2 DEF Present
  <2>5. ASSUME NEW i \in Places, ledger[i].ent = e, Present(e)
        PROVE  ledger[i].body.ver <= srv[e].body.ver /\ ledger[i].act # "delete"
    <3>1. i = j \/ i < j
      BY <1>4, <2>1, <2>5
    <3>2. srv[e].body = ledger[j].body
      BY <2>3, <2>4, <2>5
    <3>3. CASE i = j
      BY <1>2, <2>4, <2>5, <3>2, <3>3
    <3>4. CASE i < j
      <4>1. ledger[i].body.ver < ledger[j].body.ver /\ ledger[i].act # "delete"
        BY <2>1, <2>5, <3>4 DEF History
      <4> QED
        BY <1>2, <3>2, <4>1
    <3> QED
      BY <3>1, <3>3, <3>4
  <2>6. ledger[j].body.ver > IF e \in Existing THEN 1 ELSE 0
    BY <2>1 DEF History
  <2>7. Present(e) => /\ srv[e].body = ledger[j].body /\ ~srv[e].dead
                      /\ ledger[j].ent = e /\ ledger[j].act # "delete"
    BY <2>1, <2>3, <2>4
  <2>8. Present(e) => srv[e].body.ver > IF e \in Existing THEN 1 ELSE 0
    BY <2>6, <2>7
  <2>9. ~Present(e) => srv[e].dead
    BY <2>3, <2>4
  <2> QED
    BY <1>2, <1>3, <2>5, <2>7, <2>8, <2>9
<1> QED
  BY <1>5, <1>6

\* What is written continues the history of each row.
LEMMA WrittenHistory ==
    ASSUME Typed, NEW e \in Entities, History(e), NEW S, Written(S)
    PROVE  History(e)'
<1> DEFINE base == IF e \in Existing THEN 1 ELSE 0
<1>1. Len(ledger) \in Nat /\ Len(ledger') \in Nat /\ Len(ledger) <= Len(ledger')
  BY DEF Typed, Written, Appends
<1>2. /\ Places \subseteq Places' /\ Places' \subseteq Nat /\ \A i \in Places' : i \in Places \/ i \in Added
      /\ Added \subseteq Places' /\ \A i \in Places, j \in Added : i < j /\ i # j
  BY <1>1 DEF Places, Added
<1>3. \A i \in Places : ledger'[i] = ledger[i]
  BY DEF Written, Appends
<1>4. CASE \A c \in S : c.ent # e
  <2>1. \A i \in Added : ledger'[i].ent # e
    <3> SUFFICES ASSUME NEW i \in Added
                 PROVE  ledger'[i].ent # e
      OBVIOUS
    <3>1. PICK c \in S : Says(i, c)
      BY DEF Written, Appends
    <3> QED
      BY <1>4, <3>1 DEF Says, Event
  <2>2. srv'[e] = srv[e]
    BY <1>4 DEF Written, Changes
  <2>3. \A i \in Places' : ledger'[i].ent = e => i \in Places
    BY <1>2, <2>1
  <2>4. /\ \A i, j \in Places' : i < j /\ ledger'[i].ent = e /\ ledger'[j].ent = e
             => ledger'[i].body.ver < ledger'[j].body.ver /\ ledger'[i].act # "delete"
        /\ \A i \in Places' : ledger'[i].ent = e => ledger'[i].body.ver > base
    BY <1>3, <2>3 DEF History
  <2>5. ASSUME NEW j \in Places', ledger'[j].ent = e,
               \A k \in Places' : j < k => ledger'[k].ent # e
        PROVE  /\ srv'[e].body = IF ledger'[j].act = "delete" THEN NoBody ELSE ledger'[j].body
               /\ srv'[e].dead <=> ledger'[j].act = "delete"
    <3>1. j \in Places /\ ledger[j].ent = e /\ ledger'[j] = ledger[j]
      BY <1>3, <2>3, <2>5
    <3>2. \A k \in Places : j < k => ledger[k].ent # e
      BY <1>2, <1>3, <2>5
    <3>3. /\ srv[e].body = IF ledger[j].act = "delete" THEN NoBody ELSE ledger[j].body
          /\ srv[e].dead <=> ledger[j].act = "delete"
      BY <3>1, <3>2 DEF History
    <3> QED
      BY <2>2, <3>1, <3>3
  <2>6. ASSUME \A j \in Places' : ledger'[j].ent # e
        PROVE  /\ srv'[e].body = IF e \in Existing THEN Body(1, 0) ELSE NoBody
               /\ ~srv'[e].dead
    <3>1. \A j \in Places : ledger[j].ent # e
      BY <1>2, <1>3, <2>6
    <3>2. srv[e].body = (IF e \in Existing THEN Body(1, 0) ELSE NoBody) /\ ~srv[e].dead
      BY <3>1 DEF History
    <3> QED
      BY <2>2, <3>2
  <2> QED
    BY <2>4, <2>5, <2>6 DEF History
<1>5. CASE \E c \in S : c.ent = e
  <2>1. PICK c \in S : c.ent = e
    BY <1>5
  <2>2. PICK n \in Added : Says(n, c)
    BY DEF Written, Appends
  <2>3. Permitted(c)
    BY DEF Written
  <2>4. /\ ledger'[n].ent = e /\ ledger'[n].act = c.act
        /\ ledger'[n].body = Successor(c) /\ ledger'[n].body.ver = srv[e].body.ver + 1
    BY <2>1, <2>2 DEF Says, Event, Successor, Body
  <2>5. \A i \in Added : ledger'[i].ent = e => i = n
    <3> SUFFICES ASSUME NEW i \in Added, ledger'[i].ent = e
                 PROVE  i = n
      OBVIOUS
    <3>1. PICK d \in S : Says(i, d)
      BY DEF Written, Appends
    <3>2. d.ent = e
      BY <3>1 DEF Says, Event
    <3>3. d = c
      BY <2>1, <3>2 DEF Written
    <3> QED
      BY <2>2, <3>1, <3>3 DEF Written, Appends
  <2>6. /\ srv'[e].body = IF c.act = "delete" THEN NoBody ELSE Successor(c)
        /\ srv'[e].dead <=> srv[e].dead \/ c.act = "delete"
    BY <2>1 DEF Written, Changes
  <2>7. ~srv[e].dead
    BY <2>1, <2>3, RowOf DEF Permitted
  <2>8. \A i \in Places : ledger[i].ent = e =>
           ledger[i].body.ver < srv[e].body.ver + 1 /\ ledger[i].act # "delete"
    <3>1. CASE Present(e)
      BY <3>1, RowOf
    <3>2. CASE ~Present(e)
      BY <2>7, <3>2, RowOf
    <3> QED
      BY <3>1, <3>2
  <2>9. srv[e].body.ver + 1 > base
    <3>1. CASE Present(e)
      <4>1. srv[e].body.ver \in Nat
        BY RowOf
      <4>2. CASE srv[e].body.ver > base
        BY <4>1, <4>2
      <4>3. CASE \A i \in Places : ledger[i].ent # e
        <5>1. srv[e].body = Body(1, 0)
          BY <3>1, <4>3, RowOf
        <5> QED
          BY <5>1 DEF Body
      <4> QED
        BY <3>1, <4>2, <4>3, RowOf
    <3>2. CASE ~Present(e)
      BY <2>7, <3>2, RowOf
    <3> QED
      BY <3>1, <3>2
  <2>10. \A i \in Places' : ledger'[i].ent = e => (i \in Places /\ ledger[i].ent = e /\ ledger'[i] = ledger[i]) \/ i = n
    BY <1>2, <1>3, <2>5
  <2>11. n \in Places' /\ n \in Nat /\ ~(n < n) /\ \A i \in Places : ~(n < i)
    BY <1>2
  <2>12. /\ \A i, j \in Places' : i < j /\ ledger'[i].ent = e /\ ledger'[j].ent = e
              => ledger'[i].body.ver < ledger'[j].body.ver /\ ledger'[i].act # "delete"
         /\ \A i \in Places' : ledger'[i].ent = e => ledger'[i].body.ver > base
    <3>1. ASSUME NEW i \in Places', NEW j \in Places', i < j, ledger'[i].ent = e, ledger'[j].ent = e
          PROVE  ledger'[i].body.ver < ledger'[j].body.ver /\ ledger'[i].act # "delete"
      <4>1. i \in Places /\ ledger[i].ent = e /\ ledger'[i] = ledger[i]
        <5>1. i # n
          BY <2>10, <2>11, <3>1
        <5> QED
          BY <2>10, <3>1, <5>1
      <4>2. CASE j = n
        BY <2>4, <2>8, <4>1, <4>2
      <4>3. CASE j # n
        <5>1. j \in Places /\ ledger[j].ent = e /\ ledger'[j] = ledger[j]
          BY <2>10, <3>1, <4>3
        <5> QED
          BY <3>1, <4>1, <5>1 DEF History
      <4> QED
        BY <4>2, <4>3
    <3>2. ASSUME NEW i \in Places', ledger'[i].ent = e
          PROVE  ledger'[i].body.ver > base
      <4>1. CASE i = n
        BY <2>4, <2>9, <4>1
      <4>2. CASE i # n
        <5>1. i \in Places /\ ledger[i].ent = e /\ ledger'[i] = ledger[i]
          BY <2>10, <3>2, <4>2
        <5> QED
          BY <5>1 DEF History
      <4> QED
        BY <4>1, <4>2
    <3> QED
      BY <3>1, <3>2
  <2>13. ASSUME NEW j \in Places', ledger'[j].ent = e,
                \A k \in Places' : j < k => ledger'[k].ent # e
         PROVE  j = n
    BY <1>2, <2>4, <2>10, <2>11, <2>13
  <2>14. ~\A j \in Places' : ledger'[j].ent # e
    BY <2>4, <2>11
  <2>15. /\ srv'[e].body = IF ledger'[n].act = "delete" THEN NoBody ELSE ledger'[n].body
         /\ srv'[e].dead <=> ledger'[n].act = "delete"
    BY <2>4, <2>6, <2>7
  <2> QED
    BY <2>12, <2>13, <2>14, <2>15 DEF History
<1> QED
  BY <1>4, <1>5

----------------------------------------------------------------------------
(* Events are only added *)

\* New events make no copy wrong: those of a row that changed are still to be pulled.
LEMMA ScreenGrows ==
    ASSUME Typed, Screen, NEW S, Written(S), batches \subseteq batches',
           UNCHANGED <<outbox, local, cursor, owed, stale>>
    PROVE  Screen'
<1>1. Len(ledger) \in Nat /\ Len(ledger') \in Nat /\ Len(ledger) <= Len(ledger') /\ cursor \in 0..Len(ledger)
  BY DEF Typed, Written, Appends
<1>2. /\ Places \subseteq Places' /\ \A i \in Places' : i \in Places \/ i \in Added
      /\ Added \subseteq Places' /\ \A j \in Places' : j <= cursor => j \in Places
      /\ Added \subseteq cursor + 1..Len(ledger')
      /\ cursor + 1..Len(ledger) \subseteq Places /\ cursor + 1..Len(ledger) \subseteq cursor + 1..Len(ledger')
  BY <1>1 DEF Places, Added
<1>3. \A i \in Places : ledger'[i] = ledger[i]
  BY DEF Written, Appends
<1>4. ASSUME NEW e \in Entities
      PROVE  Shows(e)' /\ Current(e)' /\ Kept(e)'
  <2>1. RowsOf(e)' = RowsOf(e) /\ Queued(e)' = Queued(e)
    BY DEF RowsOf, Queued
  <2>2. Shows(e)'
    BY <2>1 DEF Screen, Shows
  <2>3. Phantom(e) => Phantom(e)'
    BY DEF Phantom, Children
  <2>4. Published(e, owed[e]) => Published(e, owed[e])'
    <3>1. DOMAIN ledger = Places /\ DOMAIN ledger' = Places'
      BY DEF Typed, Places, Written
    <3> QED
      BY <1>2, <1>3, <3>1 DEF Published
  <2>5. Kept(e)'
    BY <2>1, <2>3, <2>4 DEF Screen, Kept
  <2>6. News(e) \subseteq News(e)'
    BY <1>2, <1>3 DEF News
  <2>7. CASE \A c \in S : c.ent # e
    <3>1. srv'[e] = srv[e]
      BY <2>7 DEF Written, Changes
    <3>2. Matches(e)' = Matches(e)
      BY <3>1 DEF Matches, Present, Visible
    <3> QED
      BY <2>1, <2>2, <2>3, <2>5, <2>6, <3>2 DEF Screen, Current
  <2>8. CASE \E c \in S : c.ent = e
    <3>1. PICK c \in S, n \in Added : c.ent = e /\ Says(n, c)
      BY <2>8 DEF Written, Appends
    <3>2. n \in News(e)'
      BY <1>2, <3>1 DEF News, Says, Event
    <3> QED
      BY <2>2, <2>5, <3>2 DEF Current
  <2> QED
    BY <2>7, <2>8
<1>5. Skipped'
  <2>1. ASSUME NEW r \in outbox, NEW i \in Places', NEW j \in Places',
               i < j, j <= cursor, ledger'[i].op = r.op, ledger'[i].ent = r.ent, ledger'[j].ent = r.ent
        PROVE  r.ent \in stale
    <3>1. i <= cursor
      BY <1>1, <2>1 DEF Places
    <3>2. i \in Places /\ j \in Places
      BY <1>2, <2>1, <3>1
    <3> QED
      BY <1>3, <2>1, <3>2 DEF Screen, Skipped
  <2> QED
    BY <2>1 DEF Skipped
<1> QED
  BY <1>4, <1>5 DEF Screen

\* What was the server's row at some time stays so,
LEMMA SnapshotGrows ==
    ASSUME Typed, NEW S, Written(S), NEW e, NEW s, FromServer(e, s)
    PROVE  FromServer(e, s)'
<1>1. Len(ledger) \in Nat /\ Len(ledger') \in Nat /\ Len(ledger) <= Len(ledger')
  BY DEF Typed, Written, Appends
<1>2. Places \subseteq Places' /\ \A i \in Places : ledger'[i] = ledger[i]
  BY <1>1 DEF Places, Written, Appends
<1> QED
  BY <1>2 DEF FromServer

\* and the row it has now is one such.
LEMMA RowIsFromServer ==
    ASSUME Typed, NEW e \in Entities, History(e)
    PROVE  FromServer(e, srv[e].body)
  BY RowOf DEF FromServer, Present

\* A write of another client adds its event, which is of no batch, and changes its row.
LEMMA OthersAreServed ==
    ASSUME Typed, Served, NEW e \in Entities, NEW act \in {"update", "delete"},
           clock < MaxEdits, clock' = clock + 1, OtherWrite(e, act, clock')
    PROVE  /\ Served'
           /\ \E S : Written(S)
<1> DEFINE c == [op |-> 0, ent |-> e, act |-> act, exp |-> srv[e].body.ver, at |-> clock']
           S == {c}
<1>1. Write(S) /\ Present(e) /\ batches' = batches
  BY DEF OtherWrite
<1>2. clock \in Nat
  BY OutboxAssumption DEF Typed, OutboxAssumption
<1>3. \A d \in S : Permitted(d)
  BY <1>1, <1>2 DEF Permitted, Acts
<1>4. IsFiniteSet(S) /\ Cardinality(S) = 1
  BY FS_Singleton
<1>5. Lists(InOrder(S), S)
  <2>1. [i \in 1..1 |-> c] \in Listings(S)
    BY <1>4 DEF Listings
  <2>2. \A s \in Listings(S) : \A i, j \in DOMAIN s : i < j => s[i].op < s[j].op
    BY <1>4 DEF Listings
  <2>3. InOrder(S) \in Listings(S)
    BY <2>1, <2>2 DEF InOrder
  <2>4. InOrder(S) \in [1..1 -> S] /\ \A i \in 1..1 : i = 1
    BY <1>4, <2>3 DEF Listings
  <2>5. InOrder(S)[1] = c /\ 1 \in 1..1
    BY <2>4
  <2> HIDE DEF S, c
  <2>6. \A x \in S : x = c
    BY DEF S
  <2> QED
    BY <1>4, <2>4, <2>5, <2>6 DEF Lists
<1>6. Written(S)
  <2>1. \A d, f \in S : d.ent = f.ent => d = f
    OBVIOUS
  <2> HIDE DEF S
  <2> QED
    BY <1>1, <1>3, <1>4, <1>5, <2>1, WriteIsWritten
<1>7. \A f \in Entities : History(f)'
  BY <1>6, WrittenHistory DEF Served
<1>8. Len(ledger) \in Nat /\ Len(ledger') \in Nat /\ Len(ledger) <= Len(ledger')
  BY <1>6 DEF Typed, Written, Appends
<1>9. /\ Places \subseteq Places' /\ \A i \in Places' : i \in Places \/ i \in Added
      /\ \A i \in Places : ledger'[i] = ledger[i]
  BY <1>6, <1>8 DEF Places, Added, Written, Appends
<1>10. \A i \in Added : ledger'[i].op = 0 /\ ledger'[i].ent = e
  <2>1. \A i \in Added : Says(i, c)
    BY <1>6 DEF Written, Appends
  <2> QED
    BY <2>1 DEF Says, Event
<1>11. AppliedOnce'
  <2>1. DOMAIN ledger = Places /\ DOMAIN ledger' = Places'
    BY <1>6 DEF Typed, Places, Written
  <2>2. \A i \in Places' : ledger'[i].op # 0 => i \in Places /\ ledger'[i] = ledger[i]
    BY <1>9, <1>10
  <2> QED
    BY <2>1, <2>2 DEF Served, AppliedOnce
<1>12. Recorded'
  <2>1. ASSUME NEW i \in Places', ledger'[i].op # 0
        PROVE  \E b \in batches : b.state = "FINALIZED" /\ ledger'[i].op \in Children(b)
    BY <1>9, <1>10, <2>1 DEF Served, Recorded
  <2>2. ASSUME NEW b \in batches, NEW r \in b.rows, b.state = "FINALIZED", r.op \in Children(b)
        PROVE  \E i \in Places' : /\ ledger'[i].ent = r.ent /\ ledger'[i].act = r.act
                                  /\ ledger'[i].body.at = r.at /\ ledger'[i].op = r.op
    BY <1>9, <2>2 DEF Served, Recorded
  <2>3. ASSUME NEW i \in Places', ledger'[i].ent \notin Existing
        PROVE  \E b \in batches : \E r \in b.rows : r.ent = ledger'[i].ent
    <3>1. CASE i \in Places
      BY <1>9, <2>3, <3>1 DEF Served, Recorded
    <3>2. CASE i \in Added
      <4>1. ledger'[i].ent = e /\ e \notin Existing
        BY <1>10, <2>3, <3>2
      <4>2. \E j \in Places : ledger[j].ent = e
        BY <1>1, <4>1, RowOf DEF Served, Present
      <4> QED
        BY <4>1, <4>2 DEF Served, Recorded
    <3> QED
      BY <1>9, <3>1, <3>2
  <2> QED
    BY <1>1, <2>1, <2>2, <2>3 DEF Recorded, Children
<1> QED
  BY <1>6, <1>7, <1>11, <1>12 DEF Served

----------------------------------------------------------------------------
(* A batch is handled *)

\* The active receipt is handled for the first time, and S of it written.
BatchServed(S, st) ==
    /\ receipt # {} /\ ~Known(receipt) /\ ~BoundElsewhere(receipt)
    /\ batches' = batches \cup {Receipt(receipt, st)}
    /\ Written(S)
    /\ \/ st = "FINALIZED" /\ S = Accepted(receipt)
       \/ st # "FINALIZED" /\ S = {}

\* Compiling a command ends in one of three ways.
LEMMA VerdictType ==
    ASSUME NEW c
    PROVE  Verdict(c) \in {"applied", "conflict", "error"}
<1>1. CASE c.act # "delete" /\ srv[c.ent].dead
  BY <1>1 DEF Verdict
<1>2. CASE ~(c.act # "delete" /\ srv[c.ent].dead) /\ c.act = "create" /\ ~srv[c.ent].dead
  BY <1>2 DEF Verdict
<1>3. CASE /\ ~(c.act # "delete" /\ srv[c.ent].dead) /\ ~(c.act = "create" /\ ~srv[c.ent].dead)
           /\ c.act = "delete" /\ ~Present(c.ent)
  BY <1>3 DEF Verdict
<1>4. CASE /\ ~(c.act # "delete" /\ srv[c.ent].dead) /\ ~(c.act = "create" /\ ~srv[c.ent].dead)
           /\ ~(c.act = "delete" /\ ~Present(c.ent))
  BY <1>4 DEF Verdict
<1> QED
  BY <1>1, <1>2, <1>3, <1>4

\* What compilation accepts may be written.
LEMMA AcceptedIsPermitted ==
    ASSUME Typed, \A e \in Entities : History(e), NEW c \in RowSet, Verdict(c) = "applied"
    PROVE  Permitted(c)
<1>1. c.ent \in Entities /\ c.act \in Acts /\ c.at \in Nat /\ c.op \in Ids \cup {0}
  <2>1. c.at \in 1..MaxEdits /\ MaxEdits \in Nat
    BY OutboxAssumption DEF RowSet, OutboxAssumption
  <2> QED
    BY <2>1 DEF RowSet, Acts
<1>2. CASE c.act = "create"
  BY <1>1, <1>2 DEF Verdict, Permitted
<1>3. CASE c.act = "delete"
  BY <1>1, <1>3 DEF Verdict, Permitted
<1>4. CASE c.act = "update"
  BY <1>1, <1>4 DEF Verdict, Permitted
<1> QED
  BY <1>1, <1>2, <1>3, <1>4 DEF Acts

\* A request changes nothing, or it is the active receipt, handled for the first time:
\* every request given up that is not the active receipt has its batch.
LEMMA Executed ==
    ASSUME Typed, Served, Asked, NEW q, q \in late \/ (q = receipt /\ receipt # {}),
           Execute(q) \/ Interrupt(q)
    PROVE  UNCHANGED serverVars \/ \E S, st : BatchServed(S, st)
<1>1. q \in Frozen
  BY DEF Frozen
<1>2. q # {} /\ q \subseteq RowSet /\ IsFiniteSet(q) /\ Distinct(q)
  BY <1>1 DEF Asked, Requests
<1>3. ~Known(q) => q = receipt
  BY DEF Known, Asked, Requests, Receipts
<1>4. CASE UNCHANGED serverVars
  BY <1>4
<1>5. CASE Interrupt(q)
  <2>1. PICK st \in {"ABORTED", "COMPENSATED"} : batches' = batches \cup {Receipt(q, st)}
    BY <1>5 DEF Interrupt
  <2>2. Written({})
    BY <1>5, NothingIsWritten DEF Interrupt
  <2>3. ~Known(q) /\ ~BoundElsewhere(q)
    BY <1>5 DEF Interrupt
  <2>4. BatchServed({}, st)
    BY <1>2, <1>3, <2>1, <2>2, <2>3 DEF BatchServed
  <2> QED
    BY <2>4
<1>6. CASE Execute(q) /\ ~UNCHANGED serverVars
  <2> DEFINE S == Accepted(q)
             st == IF S = {} THEN "ABORTED" ELSE "FINALIZED"
  <2>1. ~Known(q) /\ ~BoundElsewhere(q) /\ batches' = batches \cup {Receipt(q, st)} /\ Write(S)
    BY <1>6 DEF Execute
  <2>2. S \in SUBSET RowSet /\ IsFiniteSet(S) /\ Distinct(S)
    BY <1>2, FS_Subset DEF Accepted, Distinct
  <2>3. \A c \in S : Permitted(c)
    BY <1>2, AcceptedIsPermitted DEF Accepted, Served
  <2>4. \A c, d \in S : c.ent = d.ent => c = d
    BY <2>2 DEF Distinct
  <2>5. Written(S)
    BY <2>1, <2>2, <2>3, <2>4, OrdersExist, WriteIsWritten
  <2>6. BatchServed(S, st)
    BY <1>2, <1>3, <2>1, <2>5 DEF BatchServed
  <2> QED
    BY <2>6
<1> QED
  BY <1>4, <1>5, <1>6

\* A batch that is carried out or undone leaves the requests and the events in order:
\* its operations are new to the ledger, because no other batch owns them.
LEMMA BatchIsServed ==
    ASSUME Typed, Served, Asked, NEW S, NEW st, BatchServed(S, st),
           UNCHANGED <<outbox, owed, receipt, clock>>, late' \subseteq late
    PROVE  Served' /\ Asked'
<1> DEFINE new == Receipt(receipt, st)
<1>1. /\ receipt # {} /\ ~Known(receipt) /\ ~BoundElsewhere(receipt)
      /\ batches' = batches \cup {new} /\ Written(S)
  BY DEF BatchServed
<1>2. receipt \in Frozen
  BY <1>1 DEF Frozen
<1>3. receipt \subseteq RowSet /\ Distinct(receipt)
  BY <1>2 DEF Asked, Requests
<1>4. /\ new.id = BatchId(receipt) /\ new.rows = receipt /\ new.state = st
      /\ DOMAIN new.outcome = Ops(receipt)
  BY DEF Receipt, Ops
<1>5. \A r \in receipt : new.outcome[r.op] = Outcome(r)
  <2> SUFFICES ASSUME NEW r \in receipt
               PROVE  new.outcome[r.op] = Outcome(r)
    OBVIOUS
  <2>1. \A c \in receipt : c.op = r.op => c = r
    BY <1>3 DEF Distinct
  <2>2. r = CHOOSE c \in receipt : c.op = r.op
    BY <2>1
  <2> QED
    BY <2>2 DEF Receipt
<1>6. \A r \in receipt : new.outcome[r.op].kind = Verdict(r)
  <2>1. \A r \in receipt : Outcome(r).kind = Verdict(r)
    BY DEF Outcome
  <2> HIDE DEF new
  <2> QED
    BY <1>5, <2>1
<1>7. \A r \in receipt : r.op \in Children(new) <=> r \in Accepted(receipt)
  BY <1>4, <1>6 DEF Children, Accepted, Ops
<1>8. \A b \in batches : b.rows # receipt
  BY <1>1 DEF Known, Asked, Receipts
<1>9. Len(ledger) \in Nat /\ Len(ledger') \in Nat /\ Len(ledger) <= Len(ledger')
  BY <1>1 DEF Typed, Written, Appends
<1>10. /\ Places \subseteq Places' /\ \A i \in Places' : i \in Places \/ i \in Added
       /\ Added \subseteq Places' /\ \A i \in Places : ledger'[i] = ledger[i]
  BY <1>1, <1>9 DEF Places, Added, Written, Appends
<1>11. S # {} => st = "FINALIZED" /\ S = Accepted(receipt)
  BY DEF BatchServed
<1>12. ASSUME NEW i \in Added
       PROVE  \E c \in S : c \in receipt /\ Says(i, c) /\ c.op \in Children(new) /\ new.state = "FINALIZED"
  <2>1. PICK c \in S : Says(i, c)
    BY <1>1 DEF Written, Appends
  <2>2. c \in receipt /\ c \in Accepted(receipt) /\ st = "FINALIZED"
    BY <1>11 DEF Accepted
  <2> QED
    BY <1>4, <1>7, <2>1, <2>2
<1>13. Recorded'
  <2>1. ASSUME NEW i \in Places', ledger'[i].op # 0
        PROVE  \E b \in batches' : b.state = "FINALIZED" /\ ledger'[i].op \in Children(b)
    <3>1. CASE i \in Places
      BY <1>1, <1>10, <2>1, <3>1 DEF Served, Recorded
    <3>2. CASE i \in Added
      <4>1. PICK c \in S : Says(i, c) /\ c.op \in Children(new) /\ new.state = "FINALIZED"
        BY <1>12, <3>2
      <4>2. ledger'[i].op = c.op
        BY <4>1 DEF Says, Event
      <4> HIDE DEF new
      <4> QED
        BY <1>1, <4>1, <4>2
    <3> QED
      BY <1>10, <3>1, <3>2
  <2>2. ASSUME NEW b \in batches', NEW r \in b.rows, b.state = "FINALIZED", r.op \in Children(b)
        PROVE  \E i \in Places' : /\ ledger'[i].ent = r.ent /\ ledger'[i].act = r.act
                                  /\ ledger'[i].body.at = r.at /\ ledger'[i].op = r.op
    <3>1. CASE b \in batches
      BY <1>10, <2>2, <3>1 DEF Served, Recorded
    <3>2. CASE b = new
      <4>1. r \in receipt /\ r \in S
        BY <1>4, <1>7, <2>2, <3>2 DEF BatchServed
      <4>2. PICK i \in Added : Says(i, r)
        BY <1>1, <4>1 DEF Written, Appends
      <4> QED
        BY <1>10, <4>2 DEF Says, Event, Successor, Body
    <3> QED
      BY <1>1, <3>1, <3>2
  <2>3. ASSUME NEW i \in Places', ledger'[i].ent \notin Existing
        PROVE  \E b \in batches' : \E r \in b.rows : r.ent = ledger'[i].ent
    <3>1. CASE i \in Places
      BY <1>1, <1>10, <2>3, <3>1 DEF Served, Recorded
    <3>2. CASE i \in Added
      <4>1. PICK c \in receipt : Says(i, c)
        BY <1>12, <3>2
      <4>2. ledger'[i].ent = c.ent
        BY <4>1 DEF Says, Event
      <4> HIDE DEF new
      <4> QED
        BY <1>1, <1>4, <4>1, <4>2
    <3> QED
      BY <1>10, <3>1, <3>2
  <2> QED
    BY <2>1, <2>2, <2>3 DEF Recorded, Children
<1>14. AppliedOnce'
  <2>1. DOMAIN ledger = Places /\ DOMAIN ledger' = Places'
    BY <1>1 DEF Typed, Places, Written
  <2>2. ASSUME NEW i \in Places, NEW j \in Added, ledger'[i].op # 0
        PROVE  ledger'[i].op # ledger'[j].op
    <3>1. PICK b \in batches : ledger[i].op \in Children(b)
      BY <1>10, <2>2 DEF Served, Recorded
    <3>2. PICK c \in receipt : Says(j, c)
      BY <1>12
    <3>3. c.op \notin Children(b)
      BY <1>1 DEF BoundElsewhere
    <3>4. ledger'[j].op = c.op
      BY <3>2 DEF Says, Event
    <3> QED
      BY <1>10, <3>1, <3>3, <3>4
  <2>3. ASSUME NEW i \in Added, NEW j \in Added, ledger'[i].op = ledger'[j].op
        PROVE  i = j
    <3>1. PICK c \in S : c \in receipt /\ Says(i, c)
      BY <1>12
    <3>2. PICK d \in S : d \in receipt /\ Says(j, d)
      BY <1>12
    <3>3. c.op = d.op
      BY <2>3, <3>1, <3>2 DEF Says, Event
    <3>4. c = d
      BY <1>3, <3>1, <3>2, <3>3 DEF Distinct
    <3> QED
      BY <1>1, <3>1, <3>2, <3>4 DEF Written, Appends
  <2> QED
    BY <1>10, <2>1, <2>2, <2>3 DEF Served, AppliedOnce
<1>15. \A e \in Entities : History(e)'
  BY <1>1, WrittenHistory DEF Served
<1>16. Queue'
  BY DEF Asked, Queue, Distinct
<1>17. Frozen' \subseteq Frozen
  BY <1>1, <1>2, <1>4 DEF Frozen
<1>18. Requests'
  <2>1. \A q \in late' : q = receipt' \/ \E b \in batches' : b.rows = q
    BY <1>1 DEF Asked, Requests
  <2> QED
    BY <1>17, <2>1 DEF Asked, Requests, Distinct, Ops
<1>19. Sendings'
  BY <1>17 DEF Asked, Sendings
<1>20. Receipts'
  <2>1. ASSUME NEW b \in batches'
        PROVE  /\ b.id = BatchId(b.rows) /\ DOMAIN b.outcome = Ops(b.rows)
               /\ \A o \in Ops(b.rows) : b.outcome[o].kind \in {"applied", "conflict", "error"}
    <3>1. CASE b \in batches
      BY <3>1 DEF Asked, Receipts
    <3>2. CASE b = new
      BY <1>4, <1>6, <3>2, VerdictType DEF Ops
    <3> QED
      BY <1>1, <3>1, <3>2
  <2>2. \A b, c \in batches' : b.rows = c.rows => b = c
    BY <1>1, <1>4, <1>8 DEF Asked, Receipts
  <2>3. \A b \in batches' : \A r \in outbox : r.op \in Children(b) => receipt = b.rows
    BY <1>1, <1>4 DEF Asked, Receipts
  <2> QED
    BY <2>1, <2>2, <2>3 DEF Receipts, Children, Ops, BatchId, ByAge, OpsIn, Listings
<1> QED
  BY <1>13, <1>14, <1>15, <1>16, <1>18, <1>19, <1>20 DEF Served, Asked

\* Conflicts keep what they show.
LEMMA SnapshotsServed ==
    ASSUME Typed, Served, Asked, Snapshots, NEW S, NEW st, BatchServed(S, st),
           panel' \subseteq panel, cycle'.found \subseteq cycle.found
    PROVE  Snapshots'
<1> DEFINE new == Receipt(receipt, st)
<1>1. batches' = batches \cup {new} /\ Written(S) /\ receipt \in Frozen
  BY DEF BatchServed, Frozen
<1>2. receipt \subseteq RowSet /\ Distinct(receipt) /\ new.rows = receipt
  BY <1>1 DEF Asked, Requests, Receipt
<1>3. \A e, s : FromServer(e, s) => FromServer(e, s)'
  BY <1>1, SnapshotGrows
<1>4. ASSUME NEW r \in receipt
      PROVE  FromServer(r.ent, new.outcome[r.op].snap)
  <2>1. \A c \in receipt : c.op = r.op => c = r
    BY <1>2 DEF Distinct
  <2>2. r = CHOOSE c \in receipt : c.op = r.op
    BY <2>1
  <2>3. new.outcome[r.op] = Outcome(r)
    BY <2>2 DEF Receipt
  <2>4. r.ent \in Entities
    BY <1>2 DEF RowSet
  <2>5. FromServer(r.ent, srv[r.ent].body)
    BY <2>4, RowIsFromServer DEF Served
  <2> QED
    BY <2>3, <2>5 DEF Outcome
<1>5. \A b \in batches' : \A r \in b.rows : FromServer(r.ent, b.outcome[r.op].snap)'
  BY <1>1, <1>2, <1>3, <1>4 DEF Snapshots
<1>6. \A c \in panel' \cup cycle'.found : c \in panel \cup cycle.found
  OBVIOUS
<1> QED
  BY <1>1, <1>3, <1>5, <1>6 DEF Snapshots

----------------------------------------------------------------------------
(* Steps that leave things alone *)

\* A step that leaves the server's events alone.
LEMMA ServerStays ==
    ASSUME Typed, Served, UNCHANGED serverVars
    PROVE  Served'
<1>1. Recorded'
  BY DEF Served, Recorded, serverVars, Places, Children
<1>2. AppliedOnce'
  BY DEF Served, AppliedOnce, serverVars
<1>3. \A e \in Entities : History(e)'
  BY DEF Served, History, serverVars, Places
<1> QED
  BY <1>1, <1>2, <1>3 DEF Served

\* A step that neither edits nor sends nor settles anything,
LEMMA AskedStays ==
    ASSUME Asked, UNCHANGED <<batches, outbox, receipt, late, clock, owed>>
    PROVE  Asked'
<1>1. Queue'
  BY DEF Asked, Queue, Distinct
<1>2. Frozen' = Frozen
  BY DEF Frozen
<1>3. Requests'
  BY <1>2 DEF Asked, Requests, Distinct, Ops
<1>4. Sendings'
  BY <1>2 DEF Asked, Sendings
<1>5. Receipts'
  BY DEF Asked, Receipts, Children, Ops
<1> QED
  BY <1>1, <1>3, <1>4, <1>5 DEF Asked

\* and one that changes neither the copies nor the server.
LEMMA ScreenStays ==
    ASSUME Screen, UNCHANGED <<serverVars, outbox, local, cursor, owed, stale>>
    PROVE  Screen'
<1>1. ASSUME NEW e \in Entities
      PROVE  Shows(e)' /\ Current(e)' /\ Kept(e)'
  <2>1. RowsOf(e)' = RowsOf(e) /\ Queued(e)' = Queued(e)
    BY DEF RowsOf, Queued
  <2>2. Shows(e)'
    BY <2>1 DEF Screen, Shows
  <2>3. Phantom(e)' = Phantom(e) /\ News(e)' = News(e) /\ Matches(e)' = Matches(e)
    BY DEF serverVars, Phantom, Children, News, Matches, Present, Visible
  <2>4. Current(e)'
    BY <2>1, <2>3 DEF Screen, Current
  <2>5. Published(e, owed[e])' = Published(e, owed[e])
    BY DEF Published, serverVars
  <2>6. Kept(e)'
    BY <2>1, <2>3, <2>5 DEF Screen, Kept
  <2> QED
    BY <2>2, <2>4, <2>6
<1>2. Skipped'
  BY DEF Screen, Skipped, Places, serverVars
<1> QED
  BY <1>1, <1>2 DEF Screen

----------------------------------------------------------------------------
(* The steps of a cycle that touch nothing else *)

CycleNames == {"pc", "chosen", "verdict", "attempted", "found", "fresh"}
Pcs == {"idle", "admit", "pull", "push", "receipt", "send", "apply"}

\* Mishaps are counted up to their bound.
LEMMA MishapsCounted ==
    ASSUME Typed, Mishap
    PROVE  mishaps' \in 0..MaxMishaps
  BY OutboxAssumption DEF Typed, Mishap, OutboxAssumption

\* Snapshots do not change while the server does not.
LEMMA SnapshotsStay ==
    ASSUME Snapshots, UNCHANGED serverVars,
           panel' \cup cycle'.found \subseteq panel \cup cycle.found
    PROVE  Snapshots'
<1>1. \A e, s : FromServer(e, s)' <=> FromServer(e, s)
  BY DEF serverVars, FromServer, Places
<1>2. batches' = batches
  BY DEF serverVars
<1>3. \A c \in panel' \cup cycle'.found : c \in panel \cup cycle.found
  OBVIOUS
<1> QED
  BY <1>1, <1>2, <1>3 DEF Snapshots

\* A step of a cycle that touches nothing but the cycle.
LEMMA Control ==
    ASSUME PushInv,
           UNCHANGED <<serverVars, local, outbox, receipt, evidence, cursor, late, clock, ghosts>>,
           marker' \in Markers,
           mishaps' \in 0..MaxMishaps,
           DOMAIN cycle' = CycleNames, cycle'.pc \in Pcs,
           panel' \cup cycle'.found \subseteq panel \cup cycle.found,
           Cycles'
    PROVE  PushInv'
<1>1. Typed'
  BY DEF PushInv, Typed, serverVars, ghosts, CycleNames, Pcs
<1>2. Served'
  BY ServerStays DEF PushInv
<1>3. Asked'
  BY AskedStays DEF PushInv, serverVars, ghosts
<1>4. Screen'
  BY ScreenStays DEF PushInv, ghosts
<1>5. Snapshots'
  BY SnapshotsStay DEF PushInv
<1> QED
  BY <1>1, <1>2, <1>3, <1>4, <1>5 DEF PushInv

\* Cycles that go on with nothing.
LEMMA Plain ==
    ASSUME cycle'.pc \notin {"receipt", "send", "apply"}
    PROVE  Cycles'
  BY DEF Cycles

\* A cycle that ends,
LEMMA Ended ==
    ASSUME EndCycle
    PROVE  DOMAIN cycle' = CycleNames /\ cycle'.pc \in Pcs /\ cycle'.found = {} /\ Cycles'
<1>1. DOMAIN cycle' = CycleNames /\ cycle'.pc = "idle" /\ cycle'.found = {}
  BY DEF EndCycle, Idle, CycleNames
<1> QED
  BY <1>1 DEF Cycles, Pcs

\* and one that goes on.
LEMMA Moved ==
    ASSUME Typed, NEW pc \in Pcs, At(pc)
    PROVE  DOMAIN cycle' = CycleNames /\ cycle'.pc = pc /\ cycle'.found = cycle.found
           /\ cycle'.chosen = cycle.chosen
  BY DEF Typed, At, CycleNames

\* Admission touches the marker alone.
LEMMA AdmissionSteps ==
    ASSUME PushInv, Admit \/ ResumeAdmission \/ AdmitReady \/ StartCycle
    PROVE  PushInv'
<1>1. UNCHANGED <<serverVars, local, outbox, receipt, evidence, cursor, late, clock, ghosts>>
      /\ panel' = panel /\ mishaps' = mishaps
  BY DEF Admit, ResumeAdmission, AdmitReady, StartCycle, disk
<1>2. marker' \in Markers
  <2>1. marker \in Markers /\ Ready \subseteq RowSet
    BY DEF PushInv, Typed, Ready
  <2>2. CASE Admit
    BY <2>1, <2>2 DEF Admit, Markers
  <2>3. CASE ResumeAdmission \/ StartCycle
    BY <2>1, <2>3 DEF ResumeAdmission, StartCycle, disk
  <2>4. CASE AdmitReady
    BY <2>1, <2>4 DEF AdmitReady, Markers
  <2> QED
    BY <2>2, <2>3, <2>4
<1>3. Typed /\ mishaps' \in 0..MaxMishaps
  BY <1>1 DEF PushInv, Typed
<1>4. EndCycle \/ \E pc \in {"admit", "pull"} : At(pc)
  BY DEF Admit, ResumeAdmission, AdmitReady, StartCycle
<1>5. CASE EndCycle
  BY <1>1, <1>2, <1>3, <1>5, Ended, Control
<1>6. CASE \E pc \in {"admit", "pull"} : At(pc)
  <2>1. PICK pc \in {"admit", "pull"} : At(pc)
    BY <1>6
  <2>2. pc \in Pcs
    BY DEF Pcs
  <2>3. DOMAIN cycle' = CycleNames /\ cycle'.pc = pc /\ cycle'.found = cycle.found
    BY <1>3, <2>1, <2>2, Moved
  <2>4. Cycles'
    BY <2>3, Plain
  <2> QED
    BY <1>1, <1>2, <1>3, <2>2, <2>3, <2>4, Control
<1> QED
  BY <1>4, <1>5, <1>6

\* Steps that end the cycle and leave everything else.
LEMMA EndingSteps ==
    ASSUME PushInv,
           NothingLeft \/ Blocked \/ DriftStopsPush \/ RejectResult \/ PageDies \/ RequestFails
    PROVE  PushInv'
<1>1. UNCHANGED <<serverVars, local, outbox, receipt, evidence, cursor, late, clock, ghosts>>
      /\ marker' = marker /\ EndCycle
  BY DEF NothingLeft, Blocked, DriftStopsPush, RejectResult, PageDies, RequestFails, disk, FinishCycle
<1>2. Typed /\ (mishaps' = mishaps \/ Mishap)
  BY DEF PushInv, NothingLeft, Blocked, DriftStopsPush, RejectResult, PageDies, RequestFails
<1>3. mishaps' \in 0..MaxMishaps
  BY <1>2, MishapsCounted DEF Typed
<1>4. panel' \subseteq panel \cup cycle.found
  BY DEF NothingLeft, Blocked, DriftStopsPush, RejectResult, PageDies, RequestFails, FinishCycle, Display
<1>5. marker' \in Markers
  BY <1>1, <1>2 DEF Typed
<1>6. DOMAIN cycle' = CycleNames /\ cycle'.pc \in Pcs /\ cycle'.found = {} /\ Cycles'
  BY <1>1, Ended
<1>7. panel' \cup cycle'.found \subseteq panel \cup cycle.found
  BY <1>4, <1>6
<1> QED
  BY <1>1, <1>3, <1>5, <1>6, <1>7, Control

\* A list of a batch's operations names its operations, and no others.
LEMMA FirstOfBatch ==
    ASSUME NEW S \in SUBSET RowSet, IsFiniteSet(S), Distinct(S), S # {}
    PROVE  BatchId(S)[1] \in Ops(S)
<1>1. Lists(ByAge(S), S)
  BY OrdersExist
<1>2. Cardinality(S) \in Nat /\ Cardinality(S) # 0
  BY FS_CardinalityType, FS_EmptySet
<1>3. 1 \in 1..Cardinality(S)
  BY <1>2
<1>4. ByAge(S)[1] \in S /\ DOMAIN ByAge(S) = 1..Cardinality(S)
  BY <1>1, <1>3 DEF Lists
<1>5. BatchId(S)[1] = ByAge(S)[1].op
  BY <1>3, <1>4 DEF BatchId, OpsIn
<1> QED
  BY <1>4, <1>5 DEF Ops

\* The rows of a unit can be listed.
LEMMA SelectionIsListed ==
    ASSUME Typed, Asked
    PROVE  Selection \in SUBSET RowSet /\ IsFiniteSet(Selection) /\ Distinct(Selection)
<1>1. CASE receipt # {}
  <2>1. receipt \in Frozen /\ Selection = receipt
    BY <1>1 DEF Frozen, Selection
  <2> QED
    BY <2>1 DEF Asked, Requests
<1>2. CASE receipt = {}
  <2>1. Selection \subseteq outbox
    BY <1>2 DEF Selection, Ready
  <2> QED
    BY <2>1, FS_Subset DEF Asked, Queue, Distinct, Typed
<1> QED
  BY <1>1, <1>2

\* The query sends on what the server does not know, and takes the result of what it
\* knows from the batch of its first operation.
LEMMA QueryStep ==
    ASSUME PushInv, Query
    PROVE  PushInv'
<1> DEFINE first == BatchOf(BatchId(Selection)[1])
<1>1. /\ UNCHANGED <<serverVars, local, outbox, receipt, evidence, cursor, late, clock, ghosts>>
      /\ marker' = marker /\ panel' = panel /\ mishaps' = mishaps /\ Selection # {}
  BY DEF Query, disk
<1>2. Typed /\ Asked /\ Cycles
  BY DEF PushInv
<1>3. marker' \in Markers
      /\ mishaps' \in 0..MaxMishaps
  BY <1>1, <1>2 DEF Typed
<1>4. batches' = batches /\ receipt' = receipt /\ Ready' = Ready /\ \A o : Bound(o)' = Bound(o)
  BY <1>1 DEF serverVars, Ready, Bound
<1>5. CASE /\ \A r \in Selection : ~Bound(r.op)
           /\ cycle' = [cycle EXCEPT !.pc = IF receipt # {} THEN "send" ELSE "receipt",
                                     !.chosen = Selection, !.fresh = receipt = {}]
  <2>1. /\ DOMAIN cycle' = CycleNames /\ cycle'.found = cycle.found /\ cycle'.chosen = Selection
        /\ cycle'.pc = IF receipt # {} THEN "send" ELSE "receipt"
    BY <1>2, <1>5 DEF Typed, CycleNames
  <2>2. Cycles'
    <3>1. CASE receipt # {}
      BY <1>4, <2>1, <3>1 DEF Cycles, Selection
    <3>2. CASE receipt = {}
      <4>1. Selection \subseteq Ready
        BY <3>2 DEF Selection
      <4>2. /\ receipt' = {} /\ cycle'.chosen # {} /\ cycle'.chosen \subseteq Ready'
            /\ \A r \in cycle'.chosen : ~Bound(r.op)'
        BY <1>1, <1>4, <1>5, <2>1, <3>2, <4>1
      <4> QED
        BY <2>1, <3>2, <4>2 DEF Cycles
    <3> QED
      BY <3>1, <3>2
  <2>3. cycle'.pc \in Pcs
    BY <2>1 DEF Pcs
  <2> QED
    BY <1>1, <1>3, <2>1, <2>2, <2>3, Control
<1>6. CASE /\ \A r \in Selection : Bound(r.op)
           /\ cycle' = [cycle EXCEPT !.pc = "apply", !.chosen = Selection, !.fresh = FALSE,
                                     !.verdict = [id |-> first.id, outcome |-> first.outcome]]
  <2>1. BatchId(Selection)[1] \in Ops(Selection)
    BY <1>1, <1>2, SelectionIsListed, FirstOfBatch
  <2>2. Bound(BatchId(Selection)[1])
    BY <1>6, <2>1 DEF Ops
  <2>3. first \in batches
    BY <2>2 DEF Bound, BatchOf
  <2>4. /\ DOMAIN cycle' = CycleNames /\ cycle'.found = cycle.found /\ cycle'.chosen = Selection
        /\ cycle'.pc = "apply" /\ cycle'.verdict = [id |-> first.id, outcome |-> first.outcome]
    BY <1>2, <1>6 DEF Typed, CycleNames
  <2>5. Cycles'
    <3>1. \E b \in batches' : cycle'.verdict.id = b.id /\ cycle'.verdict.outcome = b.outcome
      BY <1>4, <2>3, <2>4
    <3>2. receipt' # {} => cycle'.chosen = receipt'
      BY <1>4, <2>4 DEF Selection
    <3> QED
      BY <1>1, <2>4, <3>1, <3>2 DEF Cycles
  <2>6. cycle'.pc \in Pcs
    BY <2>4 DEF Pcs
  <2> QED
    BY <1>1, <1>3, <2>4, <2>5, <2>6, Control
<1>7. CASE EndCycle
  BY <1>1, <1>3, <1>7, Ended, Control
<1> QED
  BY <1>5, <1>6, <1>7 DEF Query

----------------------------------------------------------------------------
(* Requests and the writes of others *)

\* What the server does to a request: the cycle goes on, or the request was late.
LEMMA ServerActs ==
    ASSUME PushInv, NEW q, q \in late \/ (q = receipt /\ receipt # {}),
           Execute(q) \/ Interrupt(q),
           UNCHANGED <<disk, panel, clock, ghosts>>, late' \subseteq late,
           mishaps' \in 0..MaxMishaps,
           DOMAIN cycle' = CycleNames, cycle'.pc \in Pcs, cycle'.found \subseteq cycle.found,
           Cycles'
    PROVE  PushInv'
<1>1. UNCHANGED <<outbox, local, receipt, evidence, marker, cursor, owed, stale, clock, panel>>
  BY DEF disk, ghosts
<1>2. Typed /\ Served /\ Asked /\ Screen /\ Snapshots
  BY DEF PushInv
<1>3. CASE UNCHANGED serverVars
  <2>1. Typed'
    BY <1>1, <1>2, <1>3 DEF Typed, serverVars, CycleNames, Pcs
  <2>2. Served'
    BY <1>2, <1>3, ServerStays
  <2>3. Asked'
    <3>1. Frozen' \subseteq Frozen /\ batches' = batches
      BY <1>1, <1>3 DEF Frozen, serverVars
    <3>2. Queue'
      BY <1>1, <1>2 DEF Asked, Queue, Distinct
    <3>3. Requests'
      BY <1>1, <1>2, <3>1 DEF Asked, Requests, Distinct, Ops
    <3>4. Sendings'
      BY <1>1, <1>2, <3>1 DEF Asked, Sendings
    <3>5. Receipts'
      BY <1>1, <1>2, <3>1 DEF Asked, Receipts, Children, Ops
    <3> QED
      BY <3>2, <3>3, <3>4, <3>5 DEF Asked
  <2>4. Screen'
    BY <1>1, <1>2, <1>3, ScreenStays
  <2>5. Snapshots'
    BY <1>1, <1>2, <1>3, SnapshotsStay
  <2> QED
    BY <2>1, <2>2, <2>3, <2>4, <2>5 DEF PushInv
<1>4. CASE \E S, st : BatchServed(S, st)
  <2>1. PICK S, st : BatchServed(S, st)
    BY <1>4
  <2>2. Written(S) /\ batches \subseteq batches'
    BY <2>1 DEF BatchServed
  <2>3. Typed'
    <3>1. ledger' \in Seq(Events) /\ srv' \in [Entities -> Rows]
      BY <2>2 DEF Written
    <3>2. cursor' \in 0..Len(ledger')
      <4>1. Len(ledger) \in Nat /\ Len(ledger') \in Nat /\ Len(ledger) <= Len(ledger') /\ cursor \in 0..Len(ledger)
        BY <1>2, <2>2 DEF Typed, Written, Appends
      <4> QED
        BY <1>1, <4>1
    <3> QED
      BY <1>1, <1>2, <3>1, <3>2 DEF Typed, CycleNames, Pcs
  <2>4. Served' /\ Asked'
    BY <1>1, <1>2, <2>1, BatchIsServed
  <2>5. Screen'
    BY <1>1, <1>2, <2>2, ScreenGrows
  <2>6. Snapshots'
    BY <1>1, <1>2, <2>1, SnapshotsServed
  <2> QED
    BY <2>3, <2>4, <2>5, <2>6 DEF PushInv
<1> QED
  BY <1>2, <1>3, <1>4, Executed

\* The push of the active receipt,
LEMMA PushStep ==
    ASSUME PushInv, Push
    PROVE  PushInv'
<1>1. /\ Execute(receipt) /\ UNCHANGED <<disk, panel, clock, ghosts>> /\ late' = late
      /\ mishaps' = mishaps /\ cycle.pc = "send"
  BY DEF Push
<1>2. Typed /\ Cycles /\ receipt # {} /\ cycle.chosen = receipt
  BY <1>1 DEF PushInv, Cycles
<1>3. mishaps' \in 0..MaxMishaps
  BY <1>1, <1>2 DEF Typed
<1>4. CASE EndCycle
  BY <1>1, <1>2, <1>3, <1>4, Ended, ServerActs
<1>5. CASE \E b \in Answers(receipt) :
             cycle' = [cycle EXCEPT !.pc = "apply", !.verdict = [id |-> b.id, outcome |-> b.outcome]]
  <2>1. PICK b \in batches' :
             cycle' = [cycle EXCEPT !.pc = "apply", !.verdict = [id |-> b.id, outcome |-> b.outcome]]
    BY <1>5 DEF Answers
  <2>2. /\ DOMAIN cycle' = CycleNames /\ cycle'.found = cycle.found /\ cycle'.chosen = receipt
        /\ cycle'.pc = "apply" /\ cycle'.verdict = [id |-> b.id, outcome |-> b.outcome]
    BY <1>2, <2>1 DEF Typed, CycleNames
  <2>3. Cycles'
    <3>1. \E d \in batches' : cycle'.verdict.id = d.id /\ cycle'.verdict.outcome = d.outcome
      BY <2>1, <2>2
    <3>2. receipt' = receipt
      BY <1>1 DEF disk
    <3> QED
      BY <1>2, <2>2, <3>1, <3>2 DEF Cycles
  <2>4. cycle'.pc \in Pcs
    BY <2>2 DEF Pcs
  <2> QED
    BY <1>1, <1>2, <1>3, <2>2, <2>3, <2>4, ServerActs
<1> QED
  BY <1>4, <1>5 DEF Push

\* the push whose answer is lost,
LEMMA LoseAnswerStep ==
    ASSUME PushInv, LoseAnswer
    PROVE  PushInv'
<1>1. /\ Execute(receipt) \/ Interrupt(receipt)
      /\ UNCHANGED <<disk, panel, clock, ghosts>> /\ late' = late
      /\ Mishap /\ EndCycle /\ cycle.pc = "send"
  BY DEF LoseAnswer
<1>2. Typed /\ receipt # {}
  BY <1>1 DEF PushInv, Cycles
<1> QED
  BY <1>1, <1>2, Ended, MishapsCounted, ServerActs

\* a request that is served late,
LEMMA ServeLateStep ==
    ASSUME PushInv, NEW q \in late, ServeLate(q)
    PROVE  PushInv'
<1>1. /\ Execute(q) /\ UNCHANGED <<disk, panel, clock, ghosts>> /\ late' \subseteq late
      /\ mishaps' = mishaps /\ cycle' = cycle
  BY DEF ServeLate, memory
<1>2. Typed /\ Served /\ Asked /\ Cycles
  BY DEF PushInv
<1>3. receipt' = receipt /\ outbox' = outbox
  BY <1>1 DEF disk
<1>4. batches \subseteq batches' /\ (receipt = {} => batches' = batches)
  <2>1. CASE UNCHANGED serverVars
    BY <2>1 DEF serverVars
  <2>2. CASE \E S, st : BatchServed(S, st)
    BY <2>2 DEF BatchServed
  <2> QED
    BY <1>1, <1>2, <2>1, <2>2, Executed
<1>5. Cycles'
  BY <1>1, <1>2, <1>3, <1>4 DEF Cycles, Ready, Bound
<1>6. DOMAIN cycle' = CycleNames /\ cycle'.pc \in Pcs /\ mishaps' \in 0..MaxMishaps
  BY <1>1, <1>2 DEF Typed, CycleNames, Pcs
<1> QED
  BY <1>1, <1>5, <1>6, ServerActs

\* one that is given up,
LEMMA GiveUpStep ==
    ASSUME PushInv, GiveUp
    PROVE  PushInv'
<1>1. /\ UNCHANGED <<serverVars, local, outbox, receipt, evidence, marker, cursor, panel, clock, owed, stale>>
      /\ late' = late \cup {receipt} /\ Mishap /\ EndCycle /\ cycle.pc = "send"
  BY DEF GiveUp, disk, ghosts
<1>2. Typed /\ Served /\ Asked /\ Screen /\ Snapshots /\ receipt # {}
  BY <1>1 DEF PushInv, Cycles
<1>3. DOMAIN cycle' = CycleNames /\ cycle'.pc \in Pcs /\ cycle'.found = {} /\ Cycles'
  BY <1>1, Ended
<1>4. mishaps' \in 0..MaxMishaps
  BY <1>1, <1>2, MishapsCounted
<1>5. Typed'
  BY <1>1, <1>2, <1>3, <1>4 DEF Typed, serverVars, CycleNames, Pcs
<1>6. Served'
  BY <1>1, <1>2, ServerStays
<1>7. Asked'
  <2>1. Frozen' = Frozen /\ batches' = batches
    BY <1>1, <1>2 DEF Frozen, serverVars
  <2>2. Queue'
    BY <1>1, <1>2 DEF Asked, Queue, Distinct
  <2>3. Requests'
    BY <1>1, <1>2, <2>1 DEF Asked, Requests, Distinct, Ops
  <2>4. Sendings'
    BY <1>1, <1>2, <2>1 DEF Asked, Sendings
  <2>5. Receipts'
    BY <1>1, <1>2, <2>1 DEF Asked, Receipts, Children, Ops
  <2> QED
    BY <2>2, <2>3, <2>4, <2>5 DEF Asked
<1>8. Screen'
  BY <1>1, <1>2, ScreenStays
<1>9. Snapshots'
  BY <1>1, <1>2, <1>3, SnapshotsStay
<1> QED
  BY <1>3, <1>5, <1>6, <1>7, <1>8, <1>9 DEF PushInv

\* and the write of another client.
LEMMA OtherClientStep ==
    ASSUME PushInv, NEW e \in Entities, OtherClientWrites(e)
    PROVE  PushInv'
<1>1. PICK act \in {"update", "delete"} : OtherWrite(e, act, clock')
  BY DEF OtherClientWrites
<1>2. /\ UNCHANGED <<local, outbox, receipt, evidence, marker, cursor, cycle, panel, late, mishaps, owed, stale>>
      /\ clock < MaxEdits /\ clock' = clock + 1 /\ batches' = batches
  BY <1>1 DEF OtherClientWrites, OtherWrite, disk, memory, ghosts
<1>3. Typed /\ Served /\ Asked /\ Screen /\ Snapshots /\ Cycles
  BY DEF PushInv
<1>4. Served' /\ \E S : Written(S)
  BY <1>1, <1>2, <1>3, OthersAreServed
<1>5. PICK S : Written(S)
  BY <1>4
<1>6. clock \in Nat /\ clock' \in 0..MaxEdits
  BY <1>2, <1>3, OutboxAssumption DEF Typed, OutboxAssumption
<1>7. Typed'
  <2>1. ledger' \in Seq(Events) /\ srv' \in [Entities -> Rows]
    BY <1>5 DEF Written
  <2>2. cursor' \in 0..Len(ledger')
    <3>1. Len(ledger) \in Nat /\ Len(ledger') \in Nat /\ Len(ledger) <= Len(ledger') /\ cursor \in 0..Len(ledger)
      BY <1>3, <1>5 DEF Typed, Written, Appends
    <3> QED
      BY <1>2, <3>1
  <2> QED
    BY <1>2, <1>3, <1>6, <2>1, <2>2 DEF Typed
<1>8. Asked'
  <2>1. Frozen' = Frozen
    BY <1>2 DEF Frozen
  <2>2. Queue'
    <3>1. \A r \in outbox : r.at \in Nat
      <4>1. \A r \in RowSet : r.at \in 1..MaxEdits
        BY DEF RowSet
      <4>2. 1..MaxEdits \subseteq Nat
        BY OutboxAssumption DEF OutboxAssumption
      <4> QED
        BY <1>3, <4>1, <4>2 DEF Typed
    <3>2. \A r \in outbox : r.at <= clock'
      BY <1>2, <1>3, <1>6, <3>1 DEF Asked, Queue
    <3> QED
      BY <1>2, <1>3, <3>2 DEF Asked, Queue, Distinct
  <2>3. Requests'
    BY <1>2, <1>3, <2>1 DEF Asked, Requests, Distinct, Ops
  <2>4. Sendings'
    BY <1>2, <1>3, <2>1 DEF Asked, Sendings
  <2>5. Receipts'
    BY <1>2, <1>3 DEF Asked, Receipts, Children, Ops
  <2> QED
    BY <2>2, <2>3, <2>4, <2>5 DEF Asked
<1>9. Screen'
  BY <1>2, <1>3, <1>5, ScreenGrows
<1>10. Snapshots'
  <2>1. \A f, s : FromServer(f, s) => FromServer(f, s)'
    BY <1>3, <1>5, SnapshotGrows
  <2> QED
    BY <1>2, <1>3, <2>1 DEF Snapshots
<1>11. Cycles'
  BY <1>2, <1>3 DEF Cycles, Ready, Bound
<1> QED
  BY <1>4, <1>7, <1>8, <1>9, <1>10, <1>11 DEF PushInv

----------------------------------------------------------------------------
(* Receipt and pull *)

\* A new receipt has no operation in common with any request, because the server
\* knows none of its operations and no older request is unknown to the server.
LEMMA RecordReceiptStep ==
    ASSUME PushInv, RecordReceipt
    PROVE  PushInv'
<1> DEFINE chosen == cycle.chosen
<1>1. /\ UNCHANGED <<serverVars, local, outbox, marker, evidence, cursor, panel, late, clock, mishaps, ghosts>>
      /\ cycle.pc = "receipt"
  BY DEF RecordReceipt
<1>2. Typed /\ Served /\ Asked /\ Screen /\ Snapshots
  BY DEF PushInv
<1>3. /\ receipt = {} /\ chosen # {} /\ chosen \subseteq Ready
      /\ \A r \in chosen : ~Bound(r.op)
  BY <1>1 DEF PushInv, Cycles
<1>4. marker' \in Markers /\ mishaps' \in 0..MaxMishaps
  BY <1>1, <1>2 DEF Typed
<1>5. CASE EndCycle /\ UNCHANGED receipt
  <2>1. DOMAIN cycle' = CycleNames /\ cycle'.pc \in Pcs /\ cycle'.found = {} /\ Cycles'
    BY <1>5, Ended
  <2> QED
    BY <1>1, <1>4, <1>5, <2>1, Control
<1>6. CASE receipt' = chosen /\ At("send")
  <2>1. chosen \subseteq outbox
    BY <1>3 DEF Ready
  <2>2. batches' = batches /\ Frozen' = Frozen \cup {chosen}
    BY <1>1, <1>3, <1>6 DEF serverVars, Frozen
  <2>3. /\ DOMAIN cycle' = CycleNames /\ cycle'.pc = "send" /\ cycle'.found = cycle.found
        /\ cycle'.chosen = chosen
    BY <1>2, <1>6, Moved DEF Pcs
  <2>4. Cycles'
    BY <1>3, <1>6, <2>3 DEF Cycles
  <2>5. Typed'
    <3>1. outbox \subseteq RowSet
      BY <1>2 DEF Typed
    <3>2. receipt' \subseteq RowSet
      BY <1>6, <2>1, <3>1
    <3> QED
      BY <1>1, <1>2, <2>3, <3>2 DEF Typed, serverVars, CycleNames, ghosts
  <2>6. Served'
    BY <1>1, <1>2, ServerStays
  <2>7. Queue'
    BY <1>1, <1>2 DEF Asked, Queue, Distinct, ghosts
  <2>8. \A q \in late : \E b \in batches : b.rows = q
    <3>1. \A q \in late : q \in Frozen
      BY DEF Frozen
    <3> QED
      BY <1>2, <1>3, <3>1 DEF Asked, Requests
  <2>9. \A F \in Frozen : F = chosen \/ Ops(F) \cap Ops(chosen) = {}
    <3> SUFFICES ASSUME NEW F \in Frozen
                 PROVE  Ops(F) \cap Ops(chosen) = {}
      OBVIOUS
    <3>1. PICK b \in batches : F = b.rows
      BY <1>3, <2>8 DEF Frozen
    <3>2. DOMAIN b.outcome = Ops(F)
      BY <1>2, <3>1 DEF Asked, Receipts
    <3>3. \A r \in chosen : r.op \notin Ops(F)
      BY <1>3, <3>2 DEF Bound
    <3> QED
      BY <3>3 DEF Ops
  <2>10. IsFiniteSet(chosen) /\ Distinct(chosen) /\ chosen # {} /\ chosen \subseteq RowSet
    BY <1>2, <1>3, <2>1, FS_Subset DEF Asked, Queue, Distinct, Typed
  <2>11. Requests'
    <3>1. \A F \in Frozen' : F # {} /\ F \subseteq RowSet /\ IsFiniteSet(F) /\ Distinct(F)
      BY <1>2, <2>2, <2>10 DEF Asked, Requests
    <3>2. \A F, G \in Frozen' : F = G \/ Ops(F) \cap Ops(G) = {}
      BY <1>2, <2>2, <2>9 DEF Asked, Requests
    <3>3. \A q \in late' : \E b \in batches' : b.rows = q
      BY <1>1, <2>2, <2>8
    <3> QED
      BY <3>1, <3>2, <3>3 DEF Requests, Distinct, Ops
  <2>12. Sendings'
    <3>1. ASSUME NEW r \in outbox, NEW q \in chosen
          PROVE  /\ q.op = r.op => q.ent = r.ent
                 /\ r.act = "create" /\ q.ent = r.ent => q.op = r.op
      BY <1>2, <2>1, <3>1 DEF Asked, Queue, Distinct
    <3> QED
      BY <1>1, <1>2, <2>2, <3>1 DEF Asked, Sendings
  <2>13. Receipts'
    <3>1. \A b \in batches : b.rows # {}
      BY <1>2 DEF Asked, Requests, Frozen
    <3>2. \A b \in batches : \A r \in outbox : r.op \notin Children(b)
      BY <1>2, <1>3, <3>1 DEF Asked, Receipts
    <3>3. batches' = batches /\ outbox' = outbox
      BY <1>1, <2>2
    <3> QED
      BY <1>2, <3>2, <3>3 DEF Asked, Receipts, Children, Ops
  <2>14. Screen'
    BY <1>1, <1>2, ScreenStays DEF ghosts
  <2>15. Snapshots'
    BY <1>1, <1>2, <2>3, SnapshotsStay
  <2> QED
    BY <2>4, <2>5, <2>6, <2>7, <2>11, <2>12, <2>13, <2>14, <2>15 DEF PushInv, Asked
<1> QED
  BY <1>5, <1>6 DEF RecordReceipt

\* The first and the last of the events that are pulled of e.
LEMMA NewsOf ==
    ASSUME Typed, NEW e, News(e) # {}
    PROVE  /\ \E i \in Places : ledger[i].ent = e /\ Oldest(e) = ledger[i]
           /\ \E j \in Places : /\ ledger[j].ent = e /\ Newest(e) = ledger[j]
                                /\ \A k \in Places : j < k => ledger[k].ent # e
<1>1. Len(ledger) \in Nat /\ cursor \in Nat /\ cursor <= Len(ledger)
  BY DEF Typed
<1>2. News(e) \subseteq 0..Len(ledger) /\ News(e) \in SUBSET Nat /\ News(e) \subseteq Places
  BY <1>1 DEF News, Places
<1>3. \E i \in News(e) : \A j \in News(e) : i <= j
  BY <1>2, Smallest
<1>4. \E i \in News(e) : \A j \in News(e) : j <= i
  BY <1>1, <1>2, Largest
<1>5. PICK i \in News(e) : Oldest(e) = ledger[i]
  BY <1>3 DEF Oldest
<1>6. PICK j \in News(e) : Newest(e) = ledger[j] /\ \A k \in News(e) : k <= j
  BY <1>4 DEF Newest
<1>7. ASSUME NEW k \in Places, j < k
      PROVE  ledger[k].ent # e
  <2>1. j > cursor /\ j \in Nat /\ k \in Nat /\ k <= Len(ledger)
    BY <1>1, <1>2 DEF News, Places
  <2>2. k \in cursor + 1..Len(ledger)
    BY <1>1, <1>7, <2>1
  <2>3. k \notin News(e)
    BY <1>6, <1>7, <2>1
  <2> QED
    BY <2>2, <2>3 DEF News
<1>8. ledger[i].ent = e /\ ledger[j].ent = e /\ i \in Places /\ j \in Places
  BY <1>2 DEF News
<1> QED
  BY <1>5, <1>6, <1>7, <1>8

\* Pull brings clean rows up to date and leaves the others, whose events it passes.
LEMMA PullStep ==
    ASSUME PushInv, Pull
    PROVE  PushInv'
<1>1. /\ UNCHANGED <<serverVars, outbox, marker, receipt, evidence, late, clock, mishaps, owed>>
      /\ local' = [e \in Entities |-> Pulled(e)]
      /\ panel' = panel \cup {Conflict(0, e, Oldest(e).act, Oldest(e).body) : e \in PrePush}
      /\ stale' = {e \in stale : News(e) = {} \/ Protected(e)} \cup {e \in Entities : Overtaken(e)}
      /\ cursor' = Len(ledger) /\ At("push")
  BY DEF Pull
<1>2. Typed /\ Served /\ Asked /\ Screen /\ Snapshots
  BY DEF PushInv
<1>3. Len(ledger) \in Nat /\ cursor \in Nat /\ cursor <= Len(ledger)
  BY <1>2 DEF Typed
<1>4. \A i \in Places : ledger[i] \in Events
  BY <1>2 DEF Typed, Places
<1>5. DOMAIN cycle' = CycleNames /\ cycle'.pc = "push" /\ cycle'.found = cycle.found
  BY <1>1, <1>2, Moved DEF Pcs
<1>6. Cycles'
  BY <1>5, Plain
<1>7. \A e \in Entities : Pulled(e) \in Copies
  <2> SUFFICES ASSUME NEW e \in Entities
               PROVE  Pulled(e) \in Copies
    OBVIOUS
  <2>1. CASE News(e) = {} \/ Protected(e)
    BY <1>2, <2>1 DEF Pulled, Typed
  <2>2. CASE News(e) # {} /\ ~Protected(e)
    <3>1. Newest(e) \in Events
      BY <1>2, <1>4, <2>2, NewsOf
    <3> QED
      BY <2>2, <3>1 DEF Pulled, NoCopy, Copy, NoBody, Body, Copies, Bodies, Events
  <2> QED
    BY <2>1, <2>2
<1>8. Typed'
  <2>1. local' \in [Entities -> Copies] /\ stale' \subseteq Entities
    BY <1>1, <1>2, <1>7 DEF Typed
  <2>2. cursor' \in 0..Len(ledger') /\ ledger' = ledger /\ srv' = srv
    BY <1>1, <1>3 DEF serverVars
  <2> QED
    BY <1>1, <1>2, <1>5, <2>1, <2>2 DEF Typed, CycleNames
<1>9. Served'
  BY <1>1, <1>2, ServerStays
<1>10. Asked'
  BY <1>1, <1>2, AskedStays DEF serverVars
<1>11. ASSUME NEW e \in Entities
       PROVE  Shows(e)' /\ Current(e)' /\ Kept(e)'
  <2>1. RowsOf(e)' = RowsOf(e) /\ Queued(e)' = Queued(e) /\ local'[e] = Pulled(e)
    BY <1>1 DEF RowsOf, Queued
  <2>2. Queued(e) \/ local[e].dirty => local'[e] = local[e]
    BY <2>1 DEF Pulled, Protected
  <2>3. Queued(e) /\ e \in stale => e \in stale'
    BY <1>1 DEF Protected
  <2>4. ~Queued(e) => ~local'[e].dirty
    <3>1. CASE News(e) = {} \/ Protected(e)
      BY <1>2, <2>1, <3>1 DEF Pulled, Screen, Shows
    <3>2. CASE News(e) # {} /\ ~Protected(e)
      BY <2>1, <3>2 DEF Pulled, NoCopy, Copy
    <3> QED
      BY <3>1, <3>2
  <2>5. Shows(e)'
    <3>1. \A r \in RowsOf(e) : e \notin stale' =>
             /\ local'[e].body.at = r.at /\ local'[e].body # NoBody
             /\ local'[e].gone <=> r.act = "delete"
      <4> SUFFICES ASSUME NEW r \in RowsOf(e), e \notin stale'
                   PROVE  /\ local'[e].body.at = r.at /\ local'[e].body # NoBody
                          /\ local'[e].gone <=> r.act = "delete"
        OBVIOUS
      <4>1. Queued(e)
        BY DEF Queued
      <4>2. local'[e] = local[e] /\ e \notin stale
        BY <2>2, <2>3, <4>1
      <4>3. /\ local[e].body.at = r.at /\ local[e].body # NoBody
            /\ local[e].gone <=> r.act = "delete"
        BY <1>2, <4>2 DEF Screen, Shows
      <4> QED
        BY <4>2, <4>3
    <3> QED
      BY <2>1, <2>4, <3>1 DEF Shows
  <2>6. Phantom(e)' = Phantom(e) /\ Present(e)' = Present(e) /\ srv' = srv
    BY <1>1 DEF serverVars, Phantom, Children, Present
  <2>7. ASSUME ~Queued(e), e \notin stale', ~Phantom(e)
        PROVE  Matches(e)'
    <3>1. ~Protected(e)
      BY <1>2, <2>7 DEF Screen, Shows, Protected
    <3>2. CASE News(e) = {}
      <4>1. e \notin stale
        BY <1>1, <2>7, <3>2
      <4>2. Matches(e)
        BY <1>2, <2>7, <3>2, <4>1 DEF Screen, Current
      <4>3. local'[e] = local[e]
        BY <2>1, <3>2 DEF Pulled
      <4> QED
        BY <2>6, <4>2, <4>3 DEF Matches, Visible
    <3>3. CASE News(e) # {}
      <4>1. PICK j \in Places : /\ ledger[j].ent = e /\ Newest(e) = ledger[j]
                                /\ \A k \in Places : j < k => ledger[k].ent # e
        BY <1>2, <3>3, NewsOf
      <4>2. srv[e].body = IF ledger[j].act = "delete" THEN NoBody ELSE ledger[j].body
        BY <1>2, <4>1 DEF Served, History
      <4>3. local'[e] = IF ledger[j].act = "delete" THEN NoCopy ELSE Copy(ledger[j].body, FALSE, FALSE)
        BY <2>1, <3>1, <3>3, <4>1 DEF Pulled
      <4>4. CASE ledger[j].act = "delete"
        BY <2>6, <4>2, <4>3, <4>4 DEF Matches, Visible, Present, NoCopy, Copy
      <4>5. CASE ledger[j].act # "delete"
        <5>1. ledger[j].body.ver > IF e \in Existing THEN 1 ELSE 0
          BY <1>2, <4>1 DEF Served, History
        <5>2. ledger[j].body # NoBody
          BY <5>1 DEF NoBody, Body
        <5>3. local'[e].body = ledger[j].body /\ ~local'[e].gone /\ srv[e].body = ledger[j].body
          BY <4>2, <4>3, <4>5 DEF Copy
        <5> QED
          BY <2>6, <5>2, <5>3 DEF Matches, Visible, Present
      <4> QED
        BY <4>4, <4>5
    <3> QED
      BY <3>2, <3>3
  <2>8. Current(e)'
    BY <2>1, <2>6, <2>7 DEF Current
  <2>9. Kept(e)'
    <3>1. Published(e, owed[e])' = Published(e, owed[e])
      BY <1>1 DEF Published, serverVars
    <3> QED
      BY <1>1, <1>2, <2>1, <2>6, <3>1 DEF Screen, Kept
  <2> QED
    BY <2>5, <2>8, <2>9
<1>12. Skipped'
  <2>1. ASSUME NEW r \in outbox, NEW i \in Places, NEW j \in Places, i < j,
               ledger[i].op = r.op, ledger[i].ent = r.ent, ledger[j].ent = r.ent
        PROVE  r.ent \in stale'
    <3>1. r.ent \in Entities /\ Queued(r.ent) /\ r \in RowsOf(r.ent)
      BY <1>2 DEF Typed, RowSet, Queued, RowsOf
    <3>2. CASE j <= cursor
      <4>1. r.ent \in stale
        BY <1>2, <2>1, <3>2 DEF Screen, Skipped
      <4> QED
        BY <1>1, <3>1, <4>1 DEF Protected
    <3>3. CASE cursor < j
      <4>1. DOMAIN ledger = Places
        BY <1>2 DEF Typed, Places
      <4>2. Overtaken(r.ent)
        BY <2>1, <3>1, <3>3, <4>1 DEF Overtaken
      <4> QED
        BY <1>1, <3>1, <4>2
    <3> QED
      BY <1>3, <3>2, <3>3 DEF Places
  <2>2. Places' = Places /\ ledger' = ledger
    BY <1>1 DEF serverVars, Places
  <2> QED
    BY <1>1, <2>1, <2>2 DEF Skipped
<1>13. Snapshots'
  <2>1. \A e, s : FromServer(e, s)' <=> FromServer(e, s)
    BY <1>1 DEF serverVars, FromServer, Places
  <2>2. ASSUME NEW e \in PrePush, Oldest(e).act # "delete"
        PROVE  FromServer(e, Oldest(e).body)
    <3>1. News(e) # {}
      BY DEF PrePush
    <3> QED
      BY <1>2, <2>2, <3>1, NewsOf DEF FromServer
  <2>3. ASSUME NEW c \in panel' \cup cycle'.found
        PROVE  /\ c.ent \in Entities
               /\ c.op # 0 \/ c.kind # "delete" => FromServer(c.ent, c.snap)
               /\ c.op # 0 => \E b \in batches : \E q \in b.rows : q.op = c.op /\ q.ent = c.ent
    <3>1. CASE c \in panel \cup cycle.found
      BY <1>2, <3>1 DEF Snapshots
    <3>2. CASE c \notin panel \cup cycle.found
      <4>1. PICK e \in PrePush : c = Conflict(0, e, Oldest(e).act, Oldest(e).body)
        BY <1>1, <1>5, <3>2
      <4>2. c.op = 0 /\ c.ent = e /\ c.kind = Oldest(e).act /\ c.snap = Oldest(e).body
        BY <4>1 DEF Conflict
      <4> QED
        BY <2>2, <4>2 DEF PrePush
    <3> QED
      BY <3>1, <3>2
  <2>4. batches' = batches
    BY <1>1 DEF serverVars
  <2> QED
    BY <1>2, <2>1, <2>3, <2>4 DEF Snapshots
<1> QED
  BY <1>6, <1>8, <1>9, <1>10, <1>11, <1>12, <1>13 DEF PushInv, Screen

----------------------------------------------------------------------------
(* Rows leave the outbox *)

\* The image of a finite set is finite.
LEMMA ImageIsFinite ==
    ASSUME NEW S, IsFiniteSet(S), NEW f, DOMAIN f = S, f = [x \in S |-> f[x]]
    PROVE  IsFiniteSet({f[x] : x \in S})
<1> DEFINE T == {f[x] : x \in S}
<1>1. f \in Surjection(S, T)
  BY DEF Surjection
<1> QED
  BY <1>1, FS_Surjection

\* A step that takes rows out of the outbox, or changes their state.
Alike(n, r) == n.op = r.op /\ n.ent = r.ent /\ n.act = r.act /\ n.at = r.at
Thinned ==
    /\ outbox' \subseteq RowSet /\ IsFiniteSet(outbox')
    /\ \A n \in outbox' : \E r \in outbox : Alike(n, r)
    /\ \A n, m \in outbox' : n.op = m.op => n = m

\* Rows that stay as they are,
LEMMA ThinnedIsThinned ==
    ASSUME Typed, Queue, outbox' \subseteq outbox
    PROVE  Thinned
  BY FS_Subset DEF Typed, Queue, Distinct, Thinned, Alike

\* have operations, entities and times of their own,
LEMMA ThinnedQueue ==
    ASSUME Queue, Thinned, clock' = clock, \A n \in outbox' : owed'[n.ent] = owed[n.ent]
    PROVE  Queue'
<1>1. \A n \in outbox' : n.at <= clock' /\ n.at = owed'[n.ent]
  BY DEF Queue, Thinned, Alike
<1>2. ASSUME NEW n \in outbox', NEW m \in outbox', n.op = m.op \/ n.ent = m.ent \/ n.at = m.at
      PROVE  n = m
  <2>1. PICK r \in outbox, q \in outbox : Alike(n, r) /\ Alike(m, q)
    BY DEF Thinned
  <2>2. r = q
    BY <1>2, <2>1 DEF Queue, Distinct, Alike
  <2>3. n.op = m.op
    BY <2>1, <2>2 DEF Alike
  <2> QED
    BY <2>3 DEF Thinned
<1> QED
  BY <1>1, <1>2 DEF Queue, Distinct, Thinned

\* are about the entities they were sent for,
LEMMA ThinnedSendings ==
    ASSUME Sendings, Thinned, Frozen' \subseteq Frozen
    PROVE  Sendings'
<1>1. ASSUME NEW n \in outbox'
      PROVE  /\ n.act = "create" => n.ent \notin Existing
             /\ \A F \in Frozen' : \A q \in F :
                   /\ q.op = n.op => q.ent = n.ent
                   /\ n.act = "create" /\ q.ent = n.ent => q.op = n.op
  <2>1. PICK r \in outbox : Alike(n, r)
    BY DEF Thinned
  <2> QED
    BY <2>1 DEF Sendings, Alike
<1> QED
  BY <1>1 DEF Sendings

\* and have been overtaken by nothing new.
LEMMA ThinnedSkipped ==
    ASSUME Skipped, Thinned, UNCHANGED <<ledger, cursor>>, stale \subseteq stale'
    PROVE  Skipped'
<1>1. ASSUME NEW n \in outbox', NEW i \in Places, NEW j \in Places, i < j, j <= cursor,
             ledger[i].op = n.op, ledger[i].ent = n.ent, ledger[j].ent = n.ent
      PROVE  n.ent \in stale'
  <2>1. PICK r \in outbox : Alike(n, r)
    BY DEF Thinned
  <2> QED
    BY <1>1, <2>1 DEF Skipped, Alike
<1>2. Places' = Places
  BY DEF Places
<1> QED
  BY <1>1, <1>2 DEF Skipped

\* The rows of other entities do not notice.
LEMMA EntityStays ==
    ASSUME NEW e \in Entities, Shows(e), Current(e), Kept(e), Thinned,
           UNCHANGED <<serverVars, cursor>>,
           Queued(e) => Queued(e)',
           local'[e] = local[e], owed'[e] = owed[e], e \in stale' <=> e \in stale
    PROVE  Shows(e)' /\ Current(e)' /\ Kept(e)'
<1>1. ASSUME NEW n \in RowsOf(e)'
      PROVE  \E r \in RowsOf(e) : Alike(n, r)
  <2>1. n \in outbox' /\ n.ent = e
    BY DEF RowsOf
  <2>2. PICK r \in outbox : Alike(n, r)
    BY <2>1 DEF Thinned
  <2> QED
    BY <2>1, <2>2 DEF RowsOf, Alike
<1>2. Shows(e)'
  <2>1. ~Queued(e)' => ~local'[e].dirty
    BY DEF Shows
  <2>2. ASSUME NEW n \in RowsOf(e)', e \notin stale'
        PROVE  /\ local'[e].body.at = n.at /\ local'[e].body # NoBody
               /\ local'[e].gone <=> n.act = "delete"
    <3>1. PICK r \in RowsOf(e) : Alike(n, r)
      BY <1>1
    <3> QED
      BY <2>2, <3>1 DEF Shows, Alike
  <2> QED
    BY <2>1, <2>2 DEF Shows
<1>3. /\ Phantom(e)' = Phantom(e) /\ News(e)' = News(e) /\ Matches(e)' = Matches(e)
      /\ Published(e, owed[e])' = Published(e, owed[e])
  BY DEF serverVars, Phantom, Children, News, Matches, Present, Visible, Published
<1> QED
  BY <1>2, <1>3 DEF Current, Kept

\* A row that is dropped before it was sent was never on the server.
LEMMA DropStep ==
    ASSUME PushInv, NEW e \in Entities, DropRow(e)
    PROVE  PushInv'
<1>1. /\ UNCHANGED <<serverVars, marker, receipt, evidence, cursor, cycle, panel, late, clock, mishaps>>
      /\ outbox' = outbox \ RowsOf(e) /\ local' = [local EXCEPT ![e] = NoCopy]
      /\ owed' = [owed EXCEPT ![e] = 0]
      /\ stale' = IF \E r \in RowsOf(e) : Sent(r) THEN stale \cup {e} ELSE stale
      /\ cycle.pc = "idle"
  BY DEF DropRow, memory
<1>2. Typed /\ Served /\ Asked /\ Screen /\ Snapshots
  BY DEF PushInv
<1>3. Thinned
  BY <1>1, <1>2, ThinnedIsThinned DEF Asked
<1>4. batches' = batches /\ Frozen' = Frozen /\ ledger' = ledger /\ srv' = srv
  BY <1>1 DEF serverVars, Frozen
<1>5. /\ local' \in [Entities -> Copies] /\ local'[e] = NoCopy
      /\ \A f \in Entities : f # e => local'[f] = local[f]
  BY <1>1, <1>2 DEF Typed, NoCopy, Copy, NoBody, Body, Copies, Bodies
<1>6. /\ owed' \in [Entities -> 0..MaxEdits] /\ owed'[e] = 0
      /\ \A f \in Entities : f # e => owed'[f] = owed[f]
  <2>1. 0 \in 0..MaxEdits
    BY OutboxAssumption DEF OutboxAssumption
  <2> QED
    BY <1>1, <1>2, <2>1 DEF Typed
<1>7. stale' \subseteq Entities /\ stale \subseteq stale' /\ \A f \in Entities : f # e => (f \in stale' <=> f \in stale)
  BY <1>1, <1>2 DEF Typed
<1>8. Typed'
  <2>1. outbox' \subseteq RowSet
    BY <1>3 DEF Thinned
  <2> QED
    BY <1>1, <1>2, <1>5, <1>6, <1>7, <2>1 DEF Typed, serverVars
<1>9. Served'
  BY <1>1, <1>2, ServerStays
<1>10. Asked'
  <2>1. \A n \in outbox' : n.ent \in Entities /\ n.ent # e
    BY <1>1, <1>2 DEF RowsOf, Typed, RowSet
  <2>2. Queue'
    BY <1>1, <1>2, <1>3, <1>6, <2>1, ThinnedQueue DEF Asked
  <2>3. Requests'
    BY <1>1, <1>2, <1>4 DEF Asked, Requests, Distinct, Ops
  <2>4. Sendings'
    BY <1>2, <1>3, <1>4, ThinnedSendings DEF Asked
  <2>5. Receipts'
    BY <1>1, <1>2, <1>4 DEF Asked, Receipts, Children, Ops
  <2> QED
    BY <2>2, <2>3, <2>4, <2>5 DEF Asked
<1>11. ASSUME NEW f \in Entities
       PROVE  Shows(f)' /\ Current(f)' /\ Kept(f)'
  <2>1. CASE f # e
    <3>1. RowsOf(f)' = RowsOf(f)
      BY <1>1, <2>1 DEF RowsOf
    <3> QED
      BY <1>1, <1>2, <1>3, <1>5, <1>6, <1>7, <2>1, <3>1, EntityStays DEF Screen, Queued
  <2>2. CASE f = e
    <3>1. RowsOf(e)' = {} /\ ~Queued(e)'
      BY <1>1 DEF RowsOf, Queued
    <3>2. Shows(e)' /\ Kept(e)'
      BY <1>5, <1>6, <3>1 DEF Shows, Kept, NoCopy, Copy
    <3>3. ASSUME e \notin stale'
          PROVE  ~Present(e)
      <4>1. PICK r \in RowsOf(e) : r.act = "create"
        BY DEF DropRow
      <4>2. r \in outbox /\ r.ent = e /\ e \notin Existing
        BY <1>2, <4>1 DEF RowsOf, Asked, Sendings
      <4>3. ~Sent(r)
        BY <1>1, <3>3, <4>1
      <4>4. \A b \in batches : \A q \in b.rows : q.ent # e
        <5> SUFFICES ASSUME NEW b \in batches, NEW q \in b.rows, q.ent = e
                     PROVE  FALSE
          OBVIOUS
        <5>1. b.rows \in Frozen
          BY DEF Frozen
        <5>2. q.op = r.op
          BY <1>2, <4>1, <4>2, <5>1 DEF Asked, Sendings
        <5>3. r.op \in Ops(b.rows)
          BY <5>2 DEF Ops
        <5> QED
          BY <4>3, <5>3 DEF Sent
      <4>5. \A i \in Places : ledger[i].ent # e
        BY <1>2, <4>2, <4>4 DEF Served, Recorded
      <4> QED
        BY <1>2, <4>2, <4>5 DEF Served, History, Present
    <3>4. ~Visible(e)'
      BY <1>5 DEF Visible, NoCopy, Copy
    <3>5. Present(e)' = Present(e)
      BY <1>4 DEF Present
    <3>6. Current(e)'
      BY <3>3, <3>4, <3>5 DEF Current, Matches
    <3> QED
      BY <2>2, <3>2, <3>6
  <2> QED
    BY <2>1, <2>2
<1>12. Skipped'
  BY <1>1, <1>2, <1>3, <1>4, <1>7, ThinnedSkipped DEF Screen
<1>13. Snapshots'
  BY <1>1, <1>2, SnapshotsStay
<1>14. Cycles'
  BY <1>1, Plain
<1> QED
  BY <1>8, <1>9, <1>10, <1>11, <1>12, <1>13, <1>14 DEF PushInv, Screen

----------------------------------------------------------------------------
(* Edits *)

\* The row that takes up an edit of e: a new one, or the one there is.
Takes(e, act, n) ==
    /\ n \in RowSet /\ n.ent = e /\ n.at = clock'
    /\ outbox' = {r \in outbox : r.ent # e} \cup {n}
    /\ \/ n.op \in FreshIds /\ ~Queued(e) /\ n.act = act
       \/ \E r \in RowsOf(e) : n.op = r.op /\ n.act = IF r.act = "update" THEN act ELSE r.act

\* Exactly one row takes up the edit.
LEMMA EditIsTaken ==
    ASSUME Typed, Queue, NEW e \in Entities, NEW act \in Acts, NEW exp \in Nat,
           clock' \in 1..MaxEdits, Enqueue(e, act, exp, clock')
    PROVE  \E n : Takes(e, act, n)
<1>1. outbox \subseteq RowSet
  BY DEF Typed
<1>2. CASE ~Queued(e)
  <2>1. PICK o \in FreshIds : outbox' = outbox \cup {NewRow(o, e, act, exp, clock')}
    BY <1>2 DEF Enqueue
  <2> DEFINE n == NewRow(o, e, act, exp, clock')
  <2>2. n \in RowSet /\ n.ent = e /\ n.at = clock' /\ n.op = o /\ n.act = act
    BY DEF NewRow, RowSet, FreshIds, Acts
  <2>3. {r \in outbox : r.ent # e} = outbox
    BY <1>2 DEF Queued, RowsOf
  <2> HIDE DEF n
  <2>4. Takes(e, act, n)
    BY <1>2, <2>1, <2>2, <2>3 DEF Takes, n
  <2> QED
    BY <2>4
<1>3. CASE Queued(e)
  <2>1. PICK r \in RowsOf(e) : TRUE
    BY <1>3 DEF Queued
  <2>2. RowsOf(e) = {r}
    BY DEF Queue, Distinct, RowsOf
  <2> DEFINE n == Merged(r, act, exp, clock')
  <2>3. outbox' = (outbox \ RowsOf(e)) \cup {n}
    BY <1>3, <2>2 DEF Enqueue
  <2>4. outbox \ RowsOf(e) = {q \in outbox : q.ent # e}
    BY DEF RowsOf
  <2>5. r \in RowSet /\ r.ent = e
    BY <1>1 DEF RowsOf
  <2>6. /\ n \in RowSet /\ n.ent = e /\ n.at = clock' /\ n.op = r.op
        /\ n.act = IF r.act = "update" THEN act ELSE r.act
    BY <2>5 DEF Merged, RowSet, Acts
  <2> HIDE DEF n
  <2>7. Takes(e, act, n)
    BY <2>1, <2>3, <2>4, <2>6 DEF Takes
  <2> QED
    BY <2>7
<1> QED
  BY <1>2, <1>3

\* What every edit leaves in order; what differs is what the copy shows.
LEMMA EditKeeps ==
    ASSUME PushInv, NEW e \in Entities, NEW act \in Acts, NEW n, Takes(e, act, n),
           EditStep(e), local' \in [Entities -> Copies],
           \A f \in Entities : f # e => local'[f] = local[f],
           act = "create" => /\ e \notin Existing
                             /\ \A F \in Frozen : \A q \in F : q.ent # e,
           e \notin stale => /\ local'[e].body.at = n.at /\ local'[e].body # NoBody
                             /\ local'[e].gone <=> n.act = "delete"
    PROVE  PushInv'
<1>1. /\ UNCHANGED <<serverVars, marker, receipt, evidence, cursor, cycle, panel, late, mishaps, stale>>
      /\ clock' = clock + 1 /\ clock < MaxEdits /\ cycle.pc = "idle"
      /\ owed' = [owed EXCEPT ![e] = clock']
  BY DEF EditStep, memory
<1>2. Typed /\ Served /\ Asked /\ Screen /\ Snapshots
  BY DEF PushInv
<1>3. clock \in Nat /\ clock' \in Nat /\ clock' \in 0..MaxEdits /\ clock < clock' /\ clock' # 0
  BY <1>1, <1>2, OutboxAssumption DEF Typed, OutboxAssumption
<1>4. /\ n \in RowSet /\ n.ent = e /\ n.at = clock'
      /\ outbox' = {r \in outbox : r.ent # e} \cup {n}
  BY DEF Takes
<1>5. /\ owed' \in [Entities -> 0..MaxEdits] /\ owed'[e] = clock'
      /\ \A f \in Entities : f # e => owed'[f] = owed[f]
  BY <1>1, <1>2, <1>3 DEF Typed
<1>6. \A r \in outbox : r \in RowSet /\ r.ent \in Entities /\ r.op \in Ids /\ r.at \in Nat
  <2>1. \A r \in RowSet : r.ent \in Entities /\ r.op \in Ids /\ r.at \in 1..MaxEdits
    BY DEF RowSet
  <2>2. 1..MaxEdits \subseteq Nat
    BY OutboxAssumption DEF OutboxAssumption
  <2> QED
    BY <1>2, <2>1, <2>2 DEF Typed
<1>7. Typed'
  <2>1. outbox' \subseteq RowSet
    BY <1>4, <1>6
  <2> QED
    BY <1>1, <1>2, <1>3, <1>5, <2>1 DEF Typed, serverVars
<1>8. Served'
  BY <1>1, <1>2, ServerStays
<1>9. batches' = batches /\ Frozen' = Frozen /\ ledger' = ledger /\ srv' = srv
  BY <1>1 DEF serverVars, Frozen
\* n is new to everybody, or it has the operation of the row there was.
<1>10. n.op \in FreshIds \/ \E r \in outbox : r.ent = e /\ r.op = n.op
  BY DEF Takes, RowsOf
<1>11. n.op \in FreshIds =>
          /\ \A r \in outbox : r.op # n.op
          /\ \A F \in Frozen : n.op \notin Ops(F)
          /\ \A b \in batches : n.op \notin DOMAIN b.outcome
  <2> SUFFICES ASSUME n.op \in FreshIds
               PROVE  /\ \A r \in outbox : r.op # n.op
                      /\ \A F \in Frozen : n.op \notin Ops(F)
                      /\ \A b \in batches : n.op \notin DOMAIN b.outcome
    OBVIOUS
  <2>1. \A r \in Traces : r.op # n.op
    BY DEF FreshIds, Ops
  <2>2. \A F \in Frozen : F \subseteq Traces
    BY DEF Frozen, Traces
  <2>3. \A F \in Frozen : n.op \notin Ops(F)
    BY <2>1, <2>2 DEF Ops
  <2>4. \A b \in batches : b.rows \in Frozen /\ DOMAIN b.outcome = Ops(b.rows)
    BY <1>2 DEF Frozen, Asked, Receipts
  <2> QED
    BY <2>1, <2>3, <2>4 DEF Traces
<1>12. \A r \in outbox : r.op = n.op => r.ent = e
  BY <1>2, <1>10, <1>11 DEF Asked, Queue, Distinct
<1>13. Queue'
  <2>1. IsFiniteSet(outbox')
    <3>1. IsFiniteSet({r \in outbox : r.ent # e})
      BY <1>2, FS_Subset DEF Asked, Queue
    <3> QED
      BY <1>4, <3>1, FS_AddElement
  <2>2. \A r \in outbox : r.at <= clock /\ r.at # clock' /\ r.at <= clock'
    BY <1>2, <1>3, <1>6 DEF Asked, Queue
  <2>3. Distinct(outbox')
    <3>1. \A r \in outbox : r.ent # e => r.op # n.op /\ r.at # n.at
      BY <1>4, <1>12, <2>2
    <3> QED
      BY <1>2, <1>4, <3>1 DEF Asked, Queue, Distinct
  <2>4. \A r \in outbox' : r.at <= clock' /\ r.at = owed'[r.ent]
    BY <1>2, <1>3, <1>4, <1>5, <1>6, <2>2 DEF Asked, Queue
  <2> QED
    BY <2>1, <2>3, <2>4 DEF Queue, Distinct
<1>14. Requests'
  BY <1>1, <1>2, <1>9 DEF Asked, Requests, Distinct, Ops
<1>15. Sendings'
  <2>1. n.act = "create" => e \notin Existing
    BY <1>2 DEF Takes, RowsOf, Asked, Sendings
  <2>2. ASSUME NEW F \in Frozen, NEW q \in F
        PROVE  /\ q.op = n.op => q.ent = e
               /\ n.act = "create" /\ q.ent = e => q.op = n.op
    <3>1. CASE n.op \in FreshIds /\ ~Queued(e) /\ n.act = act
      <4>1. q.op # n.op
        BY <1>11, <3>1 DEF Ops
      <4> QED
        BY <3>1, <4>1
    <3>2. CASE \E r \in RowsOf(e) : n.op = r.op /\ n.act = IF r.act = "update" THEN act ELSE r.act
      <4>1. PICK r \in RowsOf(e) : n.op = r.op /\ n.act = IF r.act = "update" THEN act ELSE r.act
        BY <3>2
      <4>2. r \in outbox /\ r.ent = e
        BY DEF RowsOf
      <4>3. /\ q.op = r.op => q.ent = e
            /\ r.act = "create" /\ q.ent = e => q.op = r.op
        BY <1>2, <4>2 DEF Asked, Sendings
      <4> QED
        BY <4>1, <4>3
    <3> QED
      BY <3>1, <3>2 DEF Takes
  <2> QED
    BY <1>2, <1>4, <1>9, <2>1, <2>2 DEF Asked, Sendings
<1>16. Receipts'
  <2>1. \A b \in batches : n.op \in Children(b) => receipt = b.rows
    <3>1. CASE n.op \in FreshIds
      BY <1>11, <3>1 DEF Children
    <3>2. CASE \E r \in outbox : r.ent = e /\ r.op = n.op
      BY <1>2, <3>2 DEF Asked, Receipts
    <3> QED
      BY <1>10, <3>1, <3>2
  <2> QED
    BY <1>1, <1>2, <1>4, <1>9, <2>1 DEF Asked, Receipts, Children, Ops
<1>17. ASSUME NEW f \in Entities
       PROVE  Shows(f)' /\ Current(f)' /\ Kept(f)'
  <2>1. CASE f = e
    <3>1. RowsOf(e)' = {n} /\ Queued(e)'
      BY <1>4 DEF RowsOf, Queued
    <3>2. Shows(e)'
      BY <1>1, <3>1 DEF Shows
    <3> QED
      BY <2>1, <3>1, <3>2 DEF Current, Kept
  <2>2. CASE f # e
    <3>1. RowsOf(f)' = RowsOf(f) /\ Queued(f)' = Queued(f)
      BY <1>4, <2>2 DEF RowsOf, Queued
    <3>2. local'[f] = local[f] /\ owed'[f] = owed[f]
      BY <1>5, <2>2
    <3>3. Shows(f)'
      BY <1>1, <1>2, <3>1, <3>2 DEF Screen, Shows
    <3>4. /\ Phantom(f)' = Phantom(f) /\ News(f)' = News(f) /\ Matches(f)' = Matches(f)
          /\ Published(f, owed[f])' = Published(f, owed[f])
      BY <1>1, <1>9, <3>2 DEF Phantom, Children, News, Matches, Present, Visible, Published
    <3>5. Current(f)'
      BY <1>1, <1>2, <3>1, <3>4 DEF Screen, Current
    <3>6. Kept(f)'
      BY <1>2, <3>1, <3>2, <3>4 DEF Screen, Kept
    <3> QED
      BY <3>3, <3>5, <3>6
  <2> QED
    BY <2>1, <2>2
<1>18. Skipped'
  <2>1. ASSUME NEW i \in Places, NEW j \in Places, i < j, j <= cursor,
               ledger[i].op = n.op, ledger[i].ent = e, ledger[j].ent = e
        PROVE  e \in stale
    <3>1. CASE n.op \in FreshIds
      <4>1. n.op # 0
        BY <3>1, ServerAssumption DEF ServerAssumption, FreshIds
      <4>2. \E b \in batches : n.op \in Children(b)
        BY <1>2, <2>1, <4>1 DEF Served, Recorded
      <4> QED
        BY <1>11, <3>1, <4>2 DEF Children
    <3>2. CASE \E r \in outbox : r.ent = e /\ r.op = n.op
      BY <1>2, <2>1, <3>2 DEF Screen, Skipped
    <3> QED
      BY <1>10, <3>1, <3>2
  <2>2. Places' = Places
    BY <1>9 DEF Places
  <2> QED
    BY <1>1, <1>2, <1>4, <1>9, <2>1, <2>2 DEF Screen, Skipped
<1>19. Snapshots'
  BY <1>1, <1>2, SnapshotsStay
<1>20. Cycles'
  BY <1>1, Plain
<1> QED
  BY <1>7, <1>8, <1>13, <1>14, <1>15, <1>16, <1>17, <1>18, <1>19, <1>20 DEF PushInv, Asked, Screen

\* The time of an edit is a new one.
LEMMA TimeOfEdit ==
    ASSUME Typed, NEW e \in Entities, EditStep(e)
    PROVE  clock' \in 1..MaxEdits /\ clock' \in Nat /\ clock' # 0
  BY OutboxAssumption DEF Typed, EditStep, OutboxAssumption

\* A row is created,
LEMMA CreateStep ==
    ASSUME PushInv, NEW e \in Entities, CreateRow(e)
    PROVE  PushInv'
<1>1. /\ e \notin Existing /\ EditStep(e)
      /\ local' = [local EXCEPT ![e] = Copy(Body(1, clock'), TRUE, FALSE)]
      /\ Enqueue(e, "create", 0, clock')
  BY DEF CreateRow
<1>2. Typed /\ Queue
  BY DEF PushInv, Asked
<1>3. clock' \in 1..MaxEdits /\ clock' \in Nat /\ clock' # 0
  BY <1>1, <1>2, TimeOfEdit
<1>4. PICK n : Takes(e, "create", n)
  BY <1>1, <1>2, <1>3, EditIsTaken DEF Acts
<1>5. \A r \in Traces : r.ent # e
  BY DEF CreateRow
<1>6. \A F \in Frozen : \A q \in F : q.ent # e
  <2>1. \A F \in Frozen : F \subseteq Traces
    BY DEF Frozen, Traces
  <2> QED
    BY <1>5, <2>1
<1>7. RowsOf(e) = {}
  BY <1>5 DEF Traces, RowsOf
<1>8. n.act = "create" /\ n.at = clock'
  BY <1>4, <1>7 DEF Takes
<1>9. Copy(Body(1, clock'), TRUE, FALSE) \in Copies
  BY <1>3 DEF Copy, Body, Copies, Bodies
<1>10. local' \in [Entities -> Copies] /\ \A f \in Entities : f # e => local'[f] = local[f]
  BY <1>1, <1>2, <1>9 DEF Typed
<1>11. local'[e].body = Body(1, clock') /\ ~local'[e].gone
  BY <1>1, <1>2 DEF Typed, Copy
<1>12. /\ local'[e].body.at = n.at /\ local'[e].body # NoBody
       /\ local'[e].gone <=> n.act = "delete"
  BY <1>3, <1>8, <1>11 DEF Body, NoBody
<1> QED
  BY <1>1, <1>4, <1>6, <1>10, <1>12, EditKeeps DEF Acts

\* updated or deleted.
LEMMA ChangeStep ==
    ASSUME PushInv, NEW e \in Entities, UpdateRow(e) \/ DeleteRow(e)
    PROVE  PushInv'
<1>1. PICK act \in {"update", "delete"}, gone \in BOOLEAN :
         /\ Visible(e) /\ EditStep(e) /\ (gone <=> act = "delete")
         /\ local' = [local EXCEPT ![e] = Copy(Body(local[e].body.ver + 1, clock'), TRUE, gone)]
         /\ Enqueue(e, act, local[e].body.ver, clock')
         /\ act = "delete" => \A r \in RowsOf(e) : r.act # "create"
  <2>1. CASE UpdateRow(e)
    BY <2>1 DEF UpdateRow
  <2>2. CASE DeleteRow(e)
    BY <2>2 DEF DeleteRow
  <2> QED
    BY <2>1, <2>2
<1>2. Typed /\ Queue /\ Screen /\ act \in Acts
  BY DEF PushInv, Asked, Acts
<1>3. clock' \in 1..MaxEdits /\ clock' \in Nat /\ clock' # 0
  BY <1>1, <1>2, TimeOfEdit
<1>4. local[e].body.ver \in Nat
  BY <1>2 DEF Typed, Copies, Bodies
<1>5. PICK n : Takes(e, act, n)
  BY <1>1, <1>2, <1>3, <1>4, EditIsTaken
<1>6. n.at = clock'
  BY <1>5 DEF Takes
<1>7. e \notin stale => (gone <=> n.act = "delete")
  <2>1. CASE n.act = act
    BY <1>1, <2>1
  <2>2. CASE \E r \in RowsOf(e) : n.act = r.act /\ r.act # "update"
    <3>1. PICK r \in RowsOf(e) : n.act = r.act /\ r.act # "update"
      BY <2>2
    <3>2. ~local[e].gone
      BY <1>1 DEF Visible
    <3>3. e \notin stale => r.act # "delete"
      BY <1>2, <3>2 DEF Screen, Shows
    <3>4. r.act = "create" \/ r.act = "delete"
      BY <1>2, <3>1 DEF Typed, RowsOf, RowSet
    <3> QED
      BY <1>1, <3>1, <3>3, <3>4
  <2> QED
    BY <1>5, <2>1, <2>2 DEF Takes
<1>8. Copy(Body(local[e].body.ver + 1, clock'), TRUE, gone) \in Copies
  BY <1>3, <1>4 DEF Copy, Body, Copies, Bodies
<1>9. local' \in [Entities -> Copies] /\ \A f \in Entities : f # e => local'[f] = local[f]
  BY <1>1, <1>2, <1>8 DEF Typed
<1>10. local'[e].body = Body(local[e].body.ver + 1, clock') /\ local'[e].gone = gone
  BY <1>1, <1>2 DEF Typed, Copy
<1>11. local'[e].body.at = clock' /\ local'[e].body # NoBody
  BY <1>3, <1>10 DEF Body, NoBody
<1>12. e \notin stale => /\ local'[e].body.at = n.at /\ local'[e].body # NoBody
                         /\ local'[e].gone <=> n.act = "delete"
  BY <1>6, <1>7, <1>10, <1>11
<1>13. act # "create"
  OBVIOUS
<1> QED
  BY <1>1, <1>2, <1>5, <1>9, <1>12, <1>13, EditKeeps

----------------------------------------------------------------------------
(* Conflicts are resolved *)

\* Keeping the local row makes the rejected one ready again.
LEMMA KeepStep ==
    ASSUME PushInv, NEW c \in panel, KeepLocal(c)
    PROVE  PushInv'
<1> DEFINE kept(r) == IF c.op # 0 /\ r.op = c.op THEN [r EXCEPT !.state = "ready"] ELSE r
<1>1. /\ UNCHANGED <<serverVars, local, marker, receipt, evidence, cursor, cycle, late, clock, mishaps, owed, stale>>
      /\ outbox' = {kept(r) : r \in outbox} /\ panel' = panel \ {c} /\ cycle.pc = "idle"
  BY DEF KeepLocal, ghosts
<1>2. Typed /\ Served /\ Asked /\ Screen /\ Snapshots
  BY DEF PushInv
<1>3. \A r \in outbox : kept(r) \in RowSet /\ Alike(kept(r), r)
  BY <1>2 DEF Typed, RowSet, Alike
<1> HIDE DEF kept
<1>4. Thinned
  <2>1. outbox' \subseteq RowSet /\ \A n \in outbox' : \E r \in outbox : Alike(n, r)
    BY <1>1, <1>3
  <2>2. IsFiniteSet(outbox')
    <3> DEFINE f == [r \in outbox |-> kept(r)]
    <3>1. outbox' = {f[r] : r \in outbox}
      BY <1>1
    <3>2. IsFiniteSet(outbox) /\ DOMAIN f = outbox /\ f = [r \in outbox |-> f[r]]
      BY <1>2 DEF Asked, Queue
    <3> HIDE DEF f
    <3> QED
      BY <3>1, <3>2, ImageIsFinite
  <2>3. \A n, m \in outbox' : n.op = m.op => n = m
    BY <1>1, <1>2, <1>3 DEF Asked, Queue, Distinct, Alike
  <2> QED
    BY <2>1, <2>2, <2>3 DEF Thinned
<1>5. batches' = batches /\ Frozen' = Frozen /\ ledger' = ledger /\ srv' = srv
  BY <1>1 DEF serverVars, Frozen
<1>6. Typed'
  <2>1. outbox' \subseteq RowSet
    BY <1>4 DEF Thinned
  <2> QED
    BY <1>1, <1>2, <2>1 DEF Typed, serverVars
<1>7. Served'
  BY <1>1, <1>2, ServerStays
<1>8. Asked'
  <2>1. Queue'
    BY <1>1, <1>2, <1>4, ThinnedQueue DEF Asked
  <2>2. Requests'
    BY <1>1, <1>2, <1>5 DEF Asked, Requests, Distinct, Ops
  <2>3. Sendings'
    BY <1>2, <1>4, <1>5, ThinnedSendings DEF Asked
  <2>4. Receipts'
    <3>1. \A b \in batches : \A n \in outbox' : n.op \in Children(b) => receipt = b.rows
      BY <1>2, <1>4 DEF Asked, Receipts, Thinned, Alike
    <3> QED
      BY <1>1, <1>2, <1>5, <3>1 DEF Asked, Receipts, Children, Ops
  <2> QED
    BY <2>1, <2>2, <2>3, <2>4 DEF Asked
<1>9. ASSUME NEW e \in Entities
      PROVE  Shows(e)' /\ Current(e)' /\ Kept(e)'
  <2>1. Queued(e) => Queued(e)'
    <3> SUFFICES ASSUME Queued(e)
                 PROVE  Queued(e)'
      OBVIOUS
    <3>1. PICK r \in outbox : r.ent = e
      BY DEF Queued, RowsOf
    <3>2. kept(r) \in outbox' /\ kept(r).ent = e
      BY <1>1, <1>3, <3>1 DEF Alike
    <3> QED
      BY <3>2 DEF Queued, RowsOf
  <2> QED
    BY <1>1, <1>2, <1>4, <2>1, EntityStays DEF Screen
<1>10. Skipped'
  BY <1>1, <1>2, <1>4, <1>5, ThinnedSkipped DEF Screen
<1>11. Snapshots'
  BY <1>1, <1>2, SnapshotsStay
<1>12. Cycles'
  BY <1>1, Plain
<1> QED
  BY <1>6, <1>7, <1>8, <1>9, <1>10, <1>11, <1>12 DEF PushInv, Screen

\* A body that came from the server and is not outdated is the server's row,
\* unless there is news of it.
LEMMA AcceptedIsCurrent ==
    ASSUME Typed, NEW e \in Entities, History(e), NEW s, s # NoBody, FromServer(e, s),
           ~Outdated(e, s), News(e) = {}
    PROVE  srv[e].body = s
<1>1. Len(ledger) \in Nat /\ cursor \in Nat /\ cursor <= Len(ledger)
  BY DEF Typed
<1>2. \A i \in Places : ledger[i].ent = e => i \in 1..cursor
  BY <1>1 DEF News, Places
<1>3. \A i \in Places : ledger[i].body.ver \in Nat
  <2>1. \A i \in Places : ledger[i] \in Events
    BY DEF Typed, Places
  <2> QED
    BY <2>1 DEF Events, Bodies
<1>4. \A i \in Places : ledger[i].ent = e => ~(ledger[i].body.ver > s.ver)
  BY <1>2 DEF Outdated
<1>5. CASE s = Body(1, 0) /\ e \in Existing
  <2>1. \A i \in Places : ledger[i].ent # e
    <3> SUFFICES ASSUME NEW i \in Places, ledger[i].ent = e
                 PROVE  FALSE
      OBVIOUS
    <3>1. ledger[i].body.ver > 1
      BY <1>5 DEF History
    <3>2. s.ver = 1
      BY <1>5 DEF Body
    <3> QED
      BY <1>4, <3>1, <3>2
  <2> QED
    BY <1>5, <2>1 DEF History
<1>6. CASE \E i \in Places : ledger[i].ent = e /\ ledger[i].act # "delete" /\ ledger[i].body = s
  <2>1. PICK i \in Places : ledger[i].ent = e /\ ledger[i].act # "delete" /\ ledger[i].body = s
    BY <1>6
  <2>2. \A k \in Places : i < k => ledger[k].ent # e
    <3> SUFFICES ASSUME NEW k \in Places, i < k, ledger[k].ent = e
                 PROVE  FALSE
      OBVIOUS
    <3>1. ledger[i].body.ver < ledger[k].body.ver
      BY <2>1 DEF History
    <3>2. ~(ledger[k].body.ver > s.ver) /\ s.ver = ledger[i].body.ver
      BY <1>4, <2>1
    <3> QED
      BY <1>3, <3>1, <3>2
  <2> QED
    BY <2>1, <2>2 DEF History
<1> QED
  BY <1>5, <1>6 DEF FromServer

\* Accepting the server's row drops the edit and shows the row, unless it is outdated.
LEMMA AcceptStep ==
    ASSUME PushInv, NEW c \in panel, AcceptRemote(c)
    PROVE  PushInv'
<1> DEFINE e == c.ent
<1>1. /\ UNCHANGED <<serverVars, marker, receipt, evidence, cursor, cycle, late, clock, mishaps>>
      /\ outbox' = {r \in outbox : IF c.op = 0 THEN r.ent # e ELSE r.op # c.op}
      /\ local' = [local EXCEPT ![e] =
           IF c.snap # NoBody THEN Copy(c.snap, FALSE, FALSE) ELSE [local[e] EXCEPT !.dirty = FALSE]]
      /\ panel' = panel \ {c} /\ cycle.pc = "idle" /\ (c.op # 0 \/ c.kind # "delete")
  BY DEF AcceptRemote
<1>2. /\ owed' = IF Queued(e)' THEN owed ELSE [owed EXCEPT ![e] = 0]
      /\ stale' = IF c.snap = NoBody \/ Outdated(e, c.snap) \/ Queued(e)' THEN stale \cup {e} ELSE stale
  BY DEF AcceptRemote
<1>3. Typed /\ Served /\ Asked /\ Screen /\ Snapshots
  BY DEF PushInv
<1>4. e \in Entities /\ FromServer(e, c.snap)
      /\ (c.op # 0 => \E b \in batches : \E q \in b.rows : q.op = c.op /\ q.ent = e)
  BY <1>1, <1>3 DEF Snapshots
<1>5. Thinned
  BY <1>1, <1>3, ThinnedIsThinned DEF Asked
<1>6. batches' = batches /\ Frozen' = Frozen /\ ledger' = ledger /\ srv' = srv
  BY <1>1 DEF serverVars, Frozen
<1>7. c.snap \in Bodies
  <2>1. \A i \in Places : ledger[i] \in Events
    BY <1>3 DEF Typed, Places
  <2>2. \A i \in Places : ledger[i].body \in Bodies
    BY <2>1 DEF Events
  <2>3. NoBody \in Bodies /\ Body(1, 0) \in Bodies
    BY DEF Bodies, NoBody, Body
  <2> QED
    BY <1>4, <2>2, <2>3 DEF FromServer
<1>8. /\ local' \in [Entities -> Copies]
      /\ \A f \in Entities : f # e => local'[f] = local[f]
      /\ local'[e] = IF c.snap # NoBody THEN Copy(c.snap, FALSE, FALSE) ELSE [local[e] EXCEPT !.dirty = FALSE]
  <2>1. local[e] \in Copies
    BY <1>3, <1>4 DEF Typed
  <2>2. [local[e] EXCEPT !.dirty = FALSE] \in Copies /\ Copy(c.snap, FALSE, FALSE) \in Copies
    BY <1>7, <2>1 DEF Copies, Copy
  <2> QED
    BY <1>1, <1>3, <1>4, <2>2 DEF Typed
<1>9. ~local'[e].dirty
  <2>1. local[e] \in Copies
    BY <1>3, <1>4 DEF Typed
  <2> QED
    BY <1>8, <2>1 DEF Copy, Copies
<1>10. /\ owed' \in [Entities -> 0..MaxEdits]
       /\ \A f \in Entities : f # e \/ Queued(e)' => owed'[f] = owed[f]
       /\ ~Queued(e)' => owed'[e] = 0
  <2>1. 0 \in 0..MaxEdits
    BY OutboxAssumption DEF OutboxAssumption
  <2> QED
    BY <1>2, <1>3, <1>4, <2>1 DEF Typed
<1>11. stale' \subseteq Entities /\ stale \subseteq stale' /\ \A f \in Entities : f # e => (f \in stale' <=> f \in stale)
  BY <1>2, <1>3, <1>4 DEF Typed
<1>12. Typed'
  <2>1. outbox' \subseteq RowSet
    BY <1>5 DEF Thinned
  <2> QED
    BY <1>1, <1>3, <1>8, <1>10, <1>11, <2>1 DEF Typed, serverVars
<1>13. Served'
  BY <1>1, <1>3, ServerStays
<1>14. Asked'
  <2>1. \A n \in outbox' : n.ent \in Entities /\ (n.ent = e => Queued(e)')
    BY <1>5 DEF Thinned, RowSet, Queued, RowsOf
  <2>2. Queue'
    BY <1>1, <1>3, <1>5, <1>10, <2>1, ThinnedQueue DEF Asked
  <2>3. Requests'
    BY <1>1, <1>3, <1>6 DEF Asked, Requests, Distinct, Ops
  <2>4. Sendings'
    BY <1>3, <1>5, <1>6, ThinnedSendings DEF Asked
  <2>5. Receipts'
    BY <1>1, <1>3, <1>6 DEF Asked, Receipts, Children, Ops
  <2> QED
    BY <2>2, <2>3, <2>4, <2>5 DEF Asked
<1>15. ASSUME NEW f \in Entities
       PROVE  Shows(f)' /\ Current(f)' /\ Kept(f)'
  <2>1. CASE f # e
    <3>1. \A r \in outbox : r.ent = f => r \in outbox'
      <4> SUFFICES ASSUME NEW r \in outbox, r.ent = f
                   PROVE  r \in outbox'
        OBVIOUS
      <4>1. CASE c.op = 0
        BY <1>1, <2>1, <4>1
      <4>2. CASE c.op # 0
        <5>1. PICK b \in batches : \E q \in b.rows : q.op = c.op /\ q.ent = e
          BY <1>4, <4>2
        <5>2. b.rows \in Frozen
          BY DEF Frozen
        <5>3. r.op # c.op
          BY <1>3, <2>1, <5>1, <5>2 DEF Asked, Sendings
        <5> QED
          BY <1>1, <4>2, <5>3
      <4> QED
        BY <4>1, <4>2
    <3>2. Queued(f) => Queued(f)'
      BY <3>1 DEF Queued, RowsOf
    <3>3. Shows(f) /\ Current(f) /\ Kept(f)
      BY <1>3 DEF Screen
    <3> QED
      BY <1>1, <1>5, <1>8, <1>10, <1>11, <2>1, <3>2, <3>3, EntityStays
  <2>2. CASE f = e
    <3>1. Queued(e)' => e \in stale'
      BY <1>2
    <3>2. RowsOf(e)' # {} => Queued(e)'
      BY DEF Queued
    <3>3. Shows(e)'
      BY <1>9, <3>1, <3>2 DEF Shows
    <3>4. Kept(e)'
      BY <1>10 DEF Kept
    <3>5. ASSUME ~Queued(e)', e \notin stale', News(e) = {}
          PROVE  Matches(e)'
      <4>1. c.snap # NoBody /\ ~Outdated(e, c.snap)
        BY <1>2, <3>5
      <4>2. srv[e].body = c.snap
        BY <1>3, <1>4, <3>5, <4>1, AcceptedIsCurrent DEF Served
      <4>3. local'[e].body = c.snap /\ ~local'[e].gone
        BY <1>8, <4>1 DEF Copy
      <4> QED
        BY <1>6, <4>1, <4>2, <4>3 DEF Matches, Present, Visible
    <3>6. News(e)' = News(e)
      BY <1>1, <1>6 DEF News
    <3>7. Current(e)'
      BY <3>5, <3>6 DEF Current
    <3> QED
      BY <2>2, <3>3, <3>4, <3>7
  <2> QED
    BY <2>1, <2>2
<1>16. Skipped'
  BY <1>1, <1>3, <1>5, <1>6, <1>11, ThinnedSkipped DEF Screen
<1>17. Snapshots'
  BY <1>1, <1>3, SnapshotsStay
<1>18. Cycles'
  BY <1>1, Plain
<1> QED
  BY <1>12, <1>13, <1>14, <1>15, <1>16, <1>17, <1>18 DEF PushInv, Screen

----------------------------------------------------------------------------
(* Results are applied *)

\* A batch's id tells its operations.
LEMMA SameOperations ==
    ASSUME NEW S \in SUBSET RowSet, IsFiniteSet(S), Distinct(S),
           NEW T \in SUBSET RowSet, IsFiniteSet(T), Distinct(T), BatchId(S) = BatchId(T)
    PROVE  Ops(S) \subseteq Ops(T)
<1>1. Lists(ByAge(S), S) /\ Lists(ByAge(T), T)
  BY OrdersExist
<1>2. /\ DOMAIN BatchId(S) = 1..Cardinality(S) /\ DOMAIN BatchId(T) = 1..Cardinality(T)
      /\ \A i \in 1..Cardinality(S) : BatchId(S)[i] = ByAge(S)[i].op
      /\ \A i \in 1..Cardinality(T) : BatchId(T)[i] = ByAge(T)[i].op
  BY <1>1 DEF Lists, BatchId, OpsIn
<1>3. ASSUME NEW r \in S
      PROVE  r.op \in Ops(T)
  <2>1. PICK i \in 1..Cardinality(S) : ByAge(S)[i] = r
    BY <1>1 DEF Lists
  <2>2. i \in 1..Cardinality(T) /\ ByAge(T)[i].op = r.op
    BY <1>2, <2>1
  <2>3. ByAge(T)[i] \in T
    BY <1>1, <2>2 DEF Lists
  <2> QED
    BY <2>2, <2>3 DEF Ops
<1> QED
  BY <1>3 DEF Ops

\* The receipt a result comes from, and what it says of the rows chosen.
Result(b) ==
    /\ b \in batches /\ cycle.verdict.id = b.id /\ cycle.verdict.outcome = b.outcome
    /\ Ops(cycle.chosen) = Ops(b.rows)
    /\ cycle.chosen # {} /\ cycle.chosen \subseteq outbox
    /\ receipt # {} => receipt = cycle.chosen /\ receipt = b.rows

\* A result that is applicable is that of a batch of the same operations, and that of
\* the active receipt if there is one.
LEMMA ResultOf ==
    ASSUME PushInv, cycle.pc = "apply", Applicable
    PROVE  \E b : Result(b)
<1> DEFINE chosen == cycle.chosen
<1>1. Typed /\ Asked
  BY DEF PushInv
<1>2. chosen # {} /\ (receipt # {} => chosen = receipt)
  BY DEF PushInv, Cycles
<1>3. PICK b \in batches : cycle.verdict.id = b.id /\ cycle.verdict.outcome = b.outcome
  BY DEF PushInv, Cycles
<1>4. chosen \subseteq outbox /\ cycle.verdict.id = BatchId(chosen)
  BY DEF Applicable, Unchanged
<1>5. b.rows \in Frozen /\ b.id = BatchId(b.rows)
  BY <1>1 DEF Frozen, Asked, Receipts
<1>6. b.rows \in SUBSET RowSet /\ IsFiniteSet(b.rows) /\ Distinct(b.rows) /\ b.rows # {}
  BY <1>1, <1>5 DEF Asked, Requests
<1>7. chosen \in SUBSET RowSet /\ IsFiniteSet(chosen) /\ Distinct(chosen)
  BY <1>1, <1>4, FS_Subset DEF Typed, Asked, Queue, Distinct
<1>8. BatchId(chosen) = BatchId(b.rows)
  BY <1>3, <1>4, <1>5
<1>9. Ops(chosen) \subseteq Ops(b.rows) /\ Ops(b.rows) \subseteq Ops(chosen)
  BY <1>6, <1>7, <1>8, SameOperations
<1>10. receipt # {} => receipt = b.rows
  <2> SUFFICES ASSUME receipt # {}
               PROVE  receipt = b.rows
    OBVIOUS
  <2>1. receipt \in Frozen /\ Ops(receipt) = Ops(b.rows)
    BY <1>2, <1>9 DEF Frozen
  <2>2. Ops(receipt) \cap Ops(b.rows) # {}
    BY <1>6, <2>1 DEF Ops
  <2> QED
    BY <1>1, <1>5, <2>1, <2>2 DEF Asked, Requests
<1>11. Ops(chosen) = Ops(b.rows)
  BY <1>9
<1>12. Result(b)
  BY <1>2, <1>3, <1>4, <1>10, <1>11 DEF Result
<1> QED
  BY <1>12

\* A row is won only if it is what was sent.
LEMMA WonAndLost ==
    ASSUME PushInv, NEW b, Result(b)
    PROVE  /\ \A r \in cycle.chosen : OutcomeOf(r).kind \in {"applied", "conflict", "error"}
           /\ \A r \in Won(cycle.chosen) : r \in outbox /\ r \in b.rows /\ r.op \in Children(b)
           /\ \A d \in batches : \A r \in outbox : r.op \in Children(d) => r \in Won(cycle.chosen)
<1> DEFINE chosen == cycle.chosen
<1>1. Typed /\ Asked
  BY DEF PushInv
<1>2. /\ b \in batches /\ cycle.verdict.outcome = b.outcome
      /\ Ops(chosen) = Ops(b.rows) /\ chosen \subseteq outbox
      /\ receipt # {} => receipt = chosen /\ receipt = b.rows
  BY DEF Result
<1>3. /\ DOMAIN b.outcome = Ops(b.rows)
      /\ \A o \in Ops(b.rows) : b.outcome[o].kind \in {"applied", "conflict", "error"}
  BY <1>1, <1>2 DEF Asked, Receipts
<1>4. \A r \in chosen : r.op \in Ops(b.rows) /\ OutcomeOf(r) = b.outcome[r.op]
  BY <1>2 DEF Ops, OutcomeOf
<1>5. ASSUME NEW d \in batches, NEW r \in outbox, r.op \in Children(d)
      PROVE  receipt = d.rows /\ receipt # {} /\ d = b
  <2>1. receipt = d.rows
    BY <1>1, <1>5 DEF Asked, Receipts
  <2>2. d.rows # {}
    BY <1>1 DEF Asked, Requests, Frozen
  <2>3. b.rows = d.rows
    BY <1>2, <2>1, <2>2
  <2> QED
    BY <1>1, <1>2, <2>1, <2>2, <2>3 DEF Asked, Receipts
<1>6. ASSUME NEW r \in Won(chosen)
      PROVE  r \in outbox /\ r \in b.rows /\ r.op \in Children(b)
  <2>1. r \in chosen /\ r \in outbox /\ b.outcome[r.op].kind = "applied"
    BY <1>2, <1>4 DEF Won
  <2>2. r.op \in Children(b)
    BY <1>3, <1>4, <2>1 DEF Children
  <2> QED
    BY <1>2, <1>5, <2>1, <2>2
<1>7. ASSUME NEW d \in batches, NEW r \in outbox, r.op \in Children(d)
      PROVE  r \in Won(chosen)
  <2>1. receipt = chosen /\ d = b /\ r.op \in DOMAIN b.outcome /\ b.outcome[r.op].kind = "applied"
    BY <1>2, <1>5, <1>7 DEF Children
  <2>2. r.op \in Ops(chosen)
    BY <1>2, <1>3, <2>1
  <2>3. r \in chosen
    BY <1>1, <1>2, <2>2 DEF Ops, Asked, Queue, Distinct
  <2> QED
    BY <1>4, <2>1, <2>3 DEF Won
<1> QED
  BY <1>3, <1>4, <1>6, <1>7

\* Applying a result lets go of what the server has applied: its event is in the
\* ledger, and the copy shows what the event says unless something came after it.
LEMMA ApplyStep ==
    ASSUME PushInv, ApplyResult
    PROVE  PushInv'
<1> DEFINE chosen == cycle.chosen
           won == Won(chosen)
           lost == Lost(chosen)
           found == cycle.found \cup {Conflict(r.op, r.ent, "push", OutcomeOf(r).snap) :
                                        r \in {r \in lost : OutcomeOf(r).kind = "conflict"}}
           left == {q \in outbox : q.op \notin Ops(won)}
           kept(r) == IF r.op \in Ops(lost) THEN [r EXCEPT !.state = OutcomeOf(r).kind] ELSE r
<1>1. /\ UNCHANGED <<serverVars, marker, cursor, late, clock, mishaps, owed, stale>>
      /\ outbox' = {kept(r) : r \in left}
      /\ local' = [e \in Entities |-> IF \E r \in won : r.ent = e THEN Settled(local[e]) ELSE local[e]]
      /\ evidence' = evidence \cup chosen /\ receipt' = {}
      /\ cycle.pc = "apply" /\ Applicable
  BY DEF ApplyResult, ghosts
<1>2. \/ FinishCycle(found)
      \/ /\ cycle' = [cycle EXCEPT !.pc = "push", !.chosen = {}, !.verdict = NoVerdict,
                                   !.found = found, !.attempted = @ \cup Ops(chosen)]
         /\ UNCHANGED panel
  BY DEF ApplyResult
<1>3. Typed /\ Served /\ Asked /\ Screen /\ Snapshots
  BY DEF PushInv
<1>4. PICK b : Result(b)
  BY <1>1, ResultOf
<1>5. /\ b \in batches /\ cycle.verdict.outcome = b.outcome /\ chosen \subseteq outbox
      /\ Ops(chosen) = Ops(b.rows) /\ (receipt # {} => receipt = chosen /\ receipt = b.rows)
  BY <1>4 DEF Result
<1>6. /\ \A r \in chosen : OutcomeOf(r).kind \in {"applied", "conflict", "error"}
      /\ \A r \in won : r \in outbox /\ r \in b.rows /\ r.op \in Children(b)
      /\ \A d \in batches : \A r \in outbox : r.op \in Children(d) => r \in won
  BY <1>4, WonAndLost
<1>7. won \subseteq chosen /\ lost \subseteq chosen /\ \A r \in lost : OutcomeOf(r).kind \in {"conflict", "error"}
  BY <1>6 DEF Won, Lost
<1>8. \A r \in left : kept(r) \in RowSet /\ Alike(kept(r), r)
  <2> SUFFICES ASSUME NEW r \in left
               PROVE  kept(r) \in RowSet /\ Alike(kept(r), r)
    OBVIOUS
  <2>1. r \in RowSet
    BY <1>3 DEF Typed
  <2>2. CASE r.op \notin Ops(lost)
    BY <2>1, <2>2 DEF Alike
  <2>3. CASE r.op \in Ops(lost)
    <3>1. OutcomeOf(r).kind \in {"conflict", "error"}
      <4>1. PICK q \in lost : q.op = r.op
        BY <2>3 DEF Ops
      <4> QED
        BY <1>7, <4>1 DEF OutcomeOf
    <3> QED
      BY <2>1, <2>3, <3>1 DEF Alike, RowSet
  <2> QED
    BY <2>2, <2>3
<1>9. \A r \in outbox : r \in left \/ r \in won
  BY <1>3, <1>6 DEF Ops, Asked, Queue, Distinct
<1> HIDE DEF kept, left
<1>10. left \subseteq outbox /\ \A r \in left : r \notin won
  BY DEF left, Ops
<1>11. Thinned
  <2>1. outbox' \subseteq RowSet /\ \A n \in outbox' : \E r \in outbox : Alike(n, r)
    BY <1>1, <1>8, <1>10
  <2>2. IsFiniteSet(outbox')
    <3> DEFINE f == [r \in left |-> kept(r)]
    <3>1. outbox' = {f[r] : r \in left}
      BY <1>1
    <3>2. IsFiniteSet(left) /\ DOMAIN f = left /\ f = [r \in left |-> f[r]]
      BY <1>3, <1>10, FS_Subset DEF Asked, Queue
    <3> HIDE DEF f
    <3> QED
      BY <3>1, <3>2, ImageIsFinite
  <2>3. \A n, m \in outbox' : n.op = m.op => n = m
    <3>1. ASSUME NEW r \in left, NEW q \in left, kept(r).op = kept(q).op
          PROVE  r = q
      BY <1>3, <1>8, <1>10, <3>1 DEF Asked, Queue, Distinct, Alike
    <3> QED
      BY <1>1, <3>1
  <2> QED
    BY <2>1, <2>2, <2>3 DEF Thinned
<1>12. batches' = batches /\ ledger' = ledger /\ srv' = srv /\ Frozen' \subseteq Frozen
  BY <1>1 DEF serverVars, Frozen
<1>13. local' \in [Entities -> Copies]
  <2>1. \A e \in Entities : local[e] \in Copies /\ Settled(local[e]) \in Copies
    BY <1>3 DEF Typed, Settled, Copies
  <2> QED
    BY <1>1, <2>1
<1>14. DOMAIN cycle' = CycleNames /\ cycle'.pc \in {"idle", "push"} /\ panel' \cup cycle'.found \subseteq panel \cup found
  <2>1. CASE FinishCycle(found)
    BY <2>1 DEF FinishCycle, Display, EndCycle, Idle, CycleNames
  <2>2. CASE /\ cycle' = [cycle EXCEPT !.pc = "push", !.chosen = {}, !.verdict = NoVerdict,
                                       !.found = found, !.attempted = @ \cup Ops(chosen)]
             /\ UNCHANGED panel
    <3>1. DOMAIN cycle' = CycleNames /\ cycle'.pc = "push" /\ cycle'.found = found
      BY <1>3, <2>2 DEF Typed, CycleNames
    <3> QED
      BY <2>2, <3>1
  <2> QED
    BY <1>2, <2>1, <2>2
<1>15. Typed'
  <2>1. outbox' \subseteq RowSet /\ evidence' \subseteq RowSet /\ receipt' \subseteq RowSet
    BY <1>1, <1>3, <1>5, <1>11 DEF Typed, Thinned
  <2> QED
    BY <1>1, <1>3, <1>12, <1>13, <1>14, <2>1 DEF Typed, CycleNames
<1>16. Served'
  BY <1>1, <1>3, ServerStays
<1>17. Asked'
  <2>1. Queue'
    BY <1>1, <1>3, <1>11, ThinnedQueue DEF Asked
  <2>2. Requests'
    <3>1. \A q \in late : \E d \in batches : d.rows = q
      <4> SUFFICES ASSUME NEW q \in late
                   PROVE  \E d \in batches : d.rows = q
        OBVIOUS
      <4>1. q # {}
        BY <1>3 DEF Asked, Requests, Frozen
      <4>2. q = receipt => b.rows = q
        BY <1>5, <4>1
      <4> QED
        BY <1>3, <1>5, <4>2 DEF Asked, Requests
    <3>2. late' = late
      BY <1>1
    <3> QED
      BY <1>3, <1>12, <3>1, <3>2 DEF Asked, Requests, Distinct, Ops
  <2>3. Sendings'
    BY <1>3, <1>11, <1>12, ThinnedSendings DEF Asked
  <2>4. Receipts'
    <3>1. ASSUME NEW d \in batches, NEW n \in outbox', n.op \in Children(d)
          PROVE  FALSE
      <4>1. PICK r \in left : n = kept(r)
        BY <1>1
      <4>2. r.op = n.op /\ r \in outbox /\ r \notin won
        BY <1>8, <1>10, <4>1 DEF Alike
      <4> QED
        BY <1>6, <3>1, <4>2
    <3> QED
      BY <1>3, <1>12, <3>1 DEF Asked, Receipts, Children, Ops
  <2> QED
    BY <2>1, <2>2, <2>3, <2>4 DEF Asked
<1>18. ASSUME NEW e \in Entities
       PROVE  Shows(e)' /\ Current(e)' /\ Kept(e)'
  <2>1. CASE \A r \in won : r.ent # e
    <3>1. Queued(e) => Queued(e)'
      <4> SUFFICES ASSUME Queued(e)
                   PROVE  Queued(e)'
        OBVIOUS
      <4>1. PICK r \in outbox : r.ent = e
        BY DEF Queued, RowsOf
      <4>2. r \in left
        BY <1>9, <2>1, <4>1
      <4>3. kept(r) \in outbox' /\ kept(r).ent = e
        BY <1>1, <1>8, <4>1, <4>2 DEF Alike
      <4> QED
        BY <4>3 DEF Queued, RowsOf
    <3>2. local'[e] = local[e]
      BY <1>1, <2>1
    <3>3. Shows(e) /\ Current(e) /\ Kept(e)
      BY <1>3 DEF Screen
    <3> QED
      BY <1>1, <1>11, <3>1, <3>2, <3>3, EntityStays
  <2>2. CASE \E r \in won : r.ent = e
    <3>1. PICK r \in won : r.ent = e
      BY <2>2
    <3>2. r \in outbox /\ r \in b.rows /\ r.op \in Children(b) /\ r \in RowsOf(e)
      BY <1>6, <3>1 DEF RowsOf
    <3>3. RowsOf(e)' = {} /\ ~Queued(e)'
      <4>1. ASSUME NEW n \in outbox', n.ent = e
            PROVE  FALSE
        <5>1. PICK q \in left : n = kept(q)
          BY <1>1
        <5>2. q.ent = e /\ q \in outbox /\ q \notin won
          BY <1>8, <1>10, <4>1, <5>1 DEF Alike
        <5>3. q = r
          BY <1>3, <3>1, <3>2, <5>2 DEF Asked, Queue, Distinct
        <5> QED
          BY <5>2, <5>3
      <4> QED
        BY <4>1 DEF RowsOf, Queued
    <3>4. local'[e] = Settled(local[e])
      BY <1>1, <2>2
    <3>5. local'[e].body = local[e].body /\ local'[e].gone = local[e].gone /\ ~local'[e].dirty
      BY <1>3, <3>4 DEF Typed, Settled, Copies
    <3>6. Shows(e)'
      BY <3>3, <3>5 DEF Shows
    <3>7. Phantom(e)' = Phantom(e) /\ News(e)' = News(e) /\ Published(e, owed[e])' = Published(e, owed[e])
      BY <1>1, <1>12 DEF Phantom, Children, News, Published
    <3>8. ASSUME ~Phantom(e)
          PROVE  \E i \in Places : /\ ledger[i].ent = e /\ ledger[i].act = r.act
                                   /\ ledger[i].body.at = r.at /\ ledger[i].op = r.op
      <4>1. b.state = "FINALIZED"
        BY <1>5, <3>1, <3>2, <3>8 DEF Phantom
      <4> QED
        BY <1>3, <1>5, <3>1, <3>2, <4>1 DEF Served, Recorded
    <3>9. Kept(e)'
      <4>1. r.at = owed[e]
        BY <1>3, <3>1, <3>2 DEF Asked, Queue
      <4>2. DOMAIN ledger = Places
        BY <1>3 DEF Typed, Places
      <4>3. Published(e, owed[e]) \/ Phantom(e)
        BY <3>8, <4>1, <4>2 DEF Published
      <4>4. owed'[e] = owed[e]
        BY <1>1
      <4> QED
        BY <3>7, <4>3, <4>4 DEF Kept
    <3>10. ASSUME e \notin stale, ~Phantom(e), News(e) = {}
           PROVE  Matches(e)'
      <4>1. PICK i \in Places : /\ ledger[i].ent = e /\ ledger[i].act = r.act
                                /\ ledger[i].body.at = r.at /\ ledger[i].op = r.op
        BY <3>8, <3>10
      <4>2. \A k \in Places : i < k => ledger[k].ent # e
        <5> SUFFICES ASSUME NEW k \in Places, i < k, ledger[k].ent = e
                     PROVE  FALSE
          OBVIOUS
        <5>1. k <= cursor
          <6>1. Len(ledger) \in Nat /\ cursor \in Nat
            BY <1>3 DEF Typed
          <6> QED
            BY <3>10, <6>1 DEF News, Places
        <5> QED
          BY <1>3, <3>1, <3>2, <3>10, <4>1, <5>1 DEF Screen, Skipped
      <4>3. srv[e].body = IF r.act = "delete" THEN NoBody ELSE ledger[i].body
        BY <1>3, <4>1, <4>2 DEF Served, History
      <4>4. local[e].body.at = r.at /\ local[e].body # NoBody /\ (local[e].gone <=> r.act = "delete")
        BY <1>3, <3>2, <3>10 DEF Screen, Shows
      <4>5. ledger[i].body # NoBody
        <5>1. ledger[i].body.ver > IF e \in Existing THEN 1 ELSE 0
          BY <1>3, <4>1 DEF Served, History
        <5> QED
          BY <5>1 DEF NoBody, Body
      <4>6. CASE r.act = "delete"
        BY <1>12, <3>5, <4>3, <4>4, <4>6 DEF Matches, Present, Visible
      <4>7. CASE r.act # "delete"
        BY <1>12, <3>5, <4>1, <4>3, <4>4, <4>5, <4>7 DEF Matches, Present, Visible
      <4> QED
        BY <4>6, <4>7
    <3>11. Current(e)'
      BY <1>1, <3>7, <3>10 DEF Current
    <3> QED
      BY <3>6, <3>9, <3>11
  <2> QED
    BY <2>1, <2>2
<1>19. Skipped'
  BY <1>1, <1>3, <1>11, <1>12, ThinnedSkipped DEF Screen
<1>20. Snapshots'
  <2>1. \A e, s : FromServer(e, s)' <=> FromServer(e, s)
    BY <1>12 DEF FromServer, Places
  <2>2. ASSUME NEW c \in panel' \cup cycle'.found
        PROVE  /\ c.ent \in Entities
               /\ c.op # 0 \/ c.kind # "delete" => FromServer(c.ent, c.snap)
               /\ c.op # 0 => \E d \in batches : \E q \in d.rows : q.op = c.op /\ q.ent = c.ent
    <3>1. CASE c \in panel \cup cycle.found
      BY <1>3, <3>1 DEF Snapshots
    <3>2. CASE c \notin panel \cup cycle.found
      <4>1. PICK r \in lost : c = Conflict(r.op, r.ent, "push", OutcomeOf(r).snap)
        BY <1>14, <3>2
      <4>2. c.op = r.op /\ c.ent = r.ent /\ c.snap = b.outcome[r.op].snap
        BY <1>5, <4>1 DEF Conflict, OutcomeOf
      <4>3. r \in outbox /\ r.ent \in Entities /\ r.op \in Ops(b.rows)
        <5>1. r \in chosen /\ r \in outbox /\ r \in RowSet
          BY <1>3, <1>5, <1>7 DEF Typed
        <5>2. r.op \in Ops(chosen)
          BY <5>1 DEF Ops
        <5>3. r.ent \in Entities
          BY <5>1 DEF RowSet
        <5> QED
          BY <1>5, <5>1, <5>2, <5>3
      <4>4. PICK q \in b.rows : q.op = r.op
        BY <4>3 DEF Ops
      <4>5. q.ent = r.ent
        BY <1>3, <1>5, <4>3, <4>4 DEF Asked, Sendings, Frozen
      <4>6. FromServer(q.ent, b.outcome[q.op].snap)
        BY <1>3, <1>5 DEF Snapshots
      <4>7. FromServer(c.ent, c.snap)
        BY <4>2, <4>4, <4>5, <4>6
      <4> QED
        BY <1>5, <4>2, <4>3, <4>4, <4>5, <4>7
    <3> QED
      BY <3>1, <3>2
  <2> QED
    BY <1>3, <1>12, <2>1, <2>2 DEF Snapshots
<1>21. Cycles'
  BY <1>14, Plain
<1> QED
  BY <1>15, <1>16, <1>17, <1>18, <1>19, <1>20, <1>21 DEF PushInv, Screen

----------------------------------------------------------------------------
(* The theorems *)

\* At the start, nothing is queued or sent and the copies are the server's.
LEMMA PushInit ==
    ASSUME Init
    PROVE  PushInv
<1>1. /\ srv = [e \in Entities |-> [body |-> IF e \in Existing THEN Body(1, 0) ELSE NoBody, dead |-> FALSE]]
      /\ ledger = <<>> /\ batches = {}
      /\ local = [e \in Entities |-> IF e \in Existing THEN Copy(Body(1, 0), FALSE, FALSE) ELSE NoCopy]
      /\ outbox = {} /\ marker = [state |-> "none", roots |-> {}] /\ receipt = {} /\ evidence = {}
      /\ cursor = 0 /\ cycle = Idle /\ panel = {} /\ late = {} /\ clock = 0 /\ mishaps = 0
      /\ owed = [e \in Entities |-> 0] /\ stale = {}
  BY DEF Init, ServerInit
<1>2. Body(1, 0) \in Bodies /\ NoBody \in Bodies /\ Body(1, 0) # NoBody
  BY DEF Body, NoBody, Bodies
<1>3. Len(ledger) = 0 /\ Places = {} /\ ledger \in Seq(Events)
  BY <1>1 DEF Places
<1>4. cycle.pc = "idle" /\ cycle.found = {} /\ DOMAIN cycle = CycleNames
  BY <1>1 DEF Idle, CycleNames
<1>5. Typed
  <2>1. srv \in [Entities -> Rows]
    <3>1. \A e \in Entities : [body |-> IF e \in Existing THEN Body(1, 0) ELSE NoBody, dead |-> FALSE] \in Rows
      BY <1>2 DEF Rows
    <3> QED
      BY <1>1, <3>1
  <2>2. local \in [Entities -> Copies]
    <3>1. \A e \in Entities : (IF e \in Existing THEN Copy(Body(1, 0), FALSE, FALSE) ELSE NoCopy) \in Copies
      BY <1>2 DEF Copies, Copy, NoCopy
    <3> QED
      BY <1>1, <3>1
  <2>3. 0 \in 0..MaxEdits /\ 0 \in 0..MaxMishaps
    BY OutboxAssumption DEF OutboxAssumption
  <2>4. marker \in Markers /\ cursor \in 0..Len(ledger)
    BY <1>1, <1>3 DEF Markers
  <2>5. /\ outbox \subseteq RowSet /\ receipt \subseteq RowSet /\ evidence \subseteq RowSet
        /\ stale \subseteq Entities /\ clock \in 0..MaxEdits /\ mishaps \in 0..MaxMishaps
    BY <1>1, <2>3
  <2>6. owed \in [Entities -> 0..MaxEdits]
    BY <1>1, <2>3
  <2> QED
    BY <1>3, <1>4, <2>1, <2>2, <2>4, <2>5, <2>6 DEF Typed, CycleNames
<1>6. Served
  <2>1. \A e \in Entities : History(e)
    BY <1>1, <1>3 DEF History
  <2>2. Recorded
    BY <1>1, <1>3 DEF Recorded
  <2>3. AppliedOnce
    BY <1>1 DEF AppliedOnce
  <2> QED
    BY <2>1, <2>2, <2>3 DEF Served
<1>7. Asked
  <2>1. Frozen = {}
    BY <1>1 DEF Frozen
  <2>2. IsFiniteSet(outbox)
    BY <1>1, FS_EmptySet
  <2> QED
    BY <1>1, <2>1, <2>2 DEF Asked, Queue, Distinct, Requests, Sendings, Receipts
<1>8. Screen
  <2>1. ASSUME NEW e \in Entities
        PROVE  Shows(e) /\ Current(e) /\ Kept(e)
    <3>1. RowsOf(e) = {} /\ ~Queued(e)
      BY <1>1 DEF RowsOf, Queued
    <3>2. ~local[e].dirty /\ ~local[e].gone /\ local[e].body = srv[e].body
      BY <1>1 DEF NoCopy, Copy
    <3>3. Shows(e)
      BY <3>1, <3>2 DEF Shows
    <3>4. Matches(e)
      BY <3>2 DEF Matches, Visible, Present
    <3> QED
      BY <1>1, <3>3, <3>4 DEF Current, Kept
  <2>2. Skipped
    BY <1>1 DEF Skipped
  <2> QED
    BY <2>1, <2>2 DEF Screen
<1>9. Cycles /\ Snapshots
  BY <1>1, <1>4 DEF Cycles, Snapshots
<1> QED
  BY <1>5, <1>6, <1>7, <1>8, <1>9 DEF PushInv

\* Every step keeps the invariant.
LEMMA PushNext ==
    ASSUME PushInv, [Next]_vars
    PROVE  PushInv'
<1>1. CASE UNCHANGED vars
  <2>1. /\ UNCHANGED <<serverVars, local, outbox, receipt, evidence, cursor, late, clock, ghosts>>
        /\ marker' = marker /\ mishaps' = mishaps /\ cycle' = cycle /\ panel' = panel
    BY <1>1 DEF vars, disk, memory
  <2>2. Typed /\ Cycles
    BY DEF PushInv
  <2>3. Cycles'
    BY <2>1, <2>2 DEF Cycles, Ready, Bound, serverVars
  <2>4. marker' \in Markers /\ mishaps' \in 0..MaxMishaps /\ DOMAIN cycle' = CycleNames /\ cycle'.pc \in Pcs
    BY <2>1, <2>2 DEF Typed, CycleNames, Pcs
  <2> QED
    BY <2>1, <2>3, <2>4, Control
<1>2. CASE \E e \in Entities : Edit(e)
  BY <1>2, CreateStep, ChangeStep, DropStep DEF Edit
<1>3. CASE \E e \in Entities : OtherClientWrites(e)
  BY <1>3, OtherClientStep
<1>4. CASE CycleStep
  BY <1>4, AdmissionSteps, PullStep, QueryStep, EndingSteps, RecordReceiptStep, PushStep, ApplyStep
     DEF CycleStep
<1>5. CASE Misfortune
  BY <1>5, EndingSteps, LoseAnswerStep, GiveUpStep DEF Misfortune
<1>6. CASE \E q \in late : ServeLate(q)
  BY <1>6, ServeLateStep
<1>7. CASE Resolve
  BY <1>7, AcceptStep, KeepStep DEF Resolve
<1> QED
  BY <1>1, <1>2, <1>3, <1>4, <1>5, <1>6, <1>7 DEF Next

\* The inductive invariant: the outbox and what was sent of it, the receipts and the
\* events agree, and every clean copy is the server's or will be pulled (enqueueOutbox,
\* pushActivePendingBatch, applyTerminalResultTwoPhase, runPullLoopV2).
THEOREM PushInvariance == Spec => []PushInv
<1>1. Init => PushInv
  BY PushInit
<1>2. PushInv /\ [Next]_vars => PushInv'
  BY PushNext
<1> QED
  BY <1>1, <1>2, PTL DEF Spec

\* Every variable keeps its type, and enqueueOutbox keeps one row of an entity.
THEOREM TypeCorrect == Spec => []TypeOK
<1>1. PushInv => TypeOK
  <2> SUFFICES ASSUME PushInv
               PROVE  TypeOK
    OBVIOUS
  <2>1. Typed /\ Asked
    BY DEF PushInv
  <2>2. marker.state \in {"none", "meta_pending", "ready"} /\ marker.roots \subseteq RowSet
    BY <2>1 DEF Typed, Markers
  <2>3. \A q \in late : q \subseteq RowSet
    BY <2>1 DEF Asked, Requests, Frozen
  <2>4. ASSUME NEW e \in Entities
        PROVE  Cardinality(RowsOf(e)) <= 1
    <3>1. CASE RowsOf(e) = {}
      BY <3>1, FS_EmptySet
    <3>2. CASE RowsOf(e) # {}
      <4>1. PICK r : r \in RowsOf(e)
        BY <3>2
      <4>2. RowsOf(e) = {r}
        BY <2>1, <4>1 DEF RowsOf, Asked, Queue, Distinct
      <4> QED
        BY <4>2, FS_Singleton
    <3> QED
      BY <3>1, <3>2
  <2> QED
    BY <2>1, <2>2, <2>3, <2>4 DEF Typed, TypeOK
<1> QED
  BY <1>1, PushInvariance, PTL

\* An operation takes effect once, however often its batch is sent, served late or sent
\* again in other company (find_batch, find_operation_batch_bindings).
THEOREM OperationsApplyOnce == Spec => []AppliedOnce
<1>1. PushInv => AppliedOnce
  BY DEF PushInv, Served
<1> QED
  BY <1>1, PushInvariance, PTL

\* No edit is lost: what the outbox let go of is on the server or was given up, and a
\* clean row shows what the server has (applyTerminalOutcomesWithoutDeletingSuccessors,
\* applySyncEventRecord).
THEOREM EditsSurvive == Spec => []NoEditIsLost
<1>1. PushInv => NoEditIsLost
  <2> SUFFICES ASSUME PushInv
               PROVE  NoEditIsLost
    OBVIOUS
  <2>1. Typed /\ Screen
    BY DEF PushInv
  <2>2. EditsAreKept
    BY <2>1 DEF EditsAreKept, Screen, Kept
  <2>3. ASSUME cursor = Len(ledger), NEW e \in Entities, ~Queued(e), e \notin stale, ~Phantom(e)
        PROVE  Matches(e)
    <3>1. News(e) = {}
      <4>1. Len(ledger) \in Nat
        BY <2>1 DEF Typed
      <4> QED
        BY <2>3, <4>1 DEF News
    <3> QED
      BY <2>1, <2>3, <3>1 DEF Screen, Current
  <2>4. CleanIsCurrent
    BY <2>3 DEF CleanIsCurrent, Matches
  <2> QED
    BY <2>2, <2>4 DEF NoEditIsLost
<1> QED
  BY <1>1, PushInvariance, PTL
=============================================================================
