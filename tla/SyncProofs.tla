----------------------------- MODULE SyncProofs -----------------------------
(***************************************************************************)
(* Proofs about the sync cycle of SyncDevice and its server, for any       *)
(* number of devices, writes and mishaps and any page and snapshot size:   *)
(* an accepted cursor hides no write, retention takes away only what every *)
(* active replica and every snapshot has, and no replica ever loses a      *)
(* write.                                                                  *)
(*                                                                         *)
(* As long as no id is handed out twice, ids are the numbers of the        *)
(* writes, and a cursor stands for a prefix of them (Reflects) wherever it *)
(* is kept: in a replica, in a recovery, in an answer, in a request given  *)
(* up, in what a device has acknowledged and in the waterline of a         *)
(* snapshot.  The floor stays below the last two (Pinned).  Generations    *)
(* order the snapshots of a device that was never forgotten (Replica,      *)
(* Fits), so that what is installed contains what it replaces.             *)
(*                                                                         *)
(* And about the one active focus session of ActiveSession and the         *)
(* authority over its recovery, for any sessions, Spaces, commands, tasks, *)
(* and mishaps: the locator, the phases and the verdicts tell what is so   *)
(* (CoordinatorInv), and the effort of a work item is that of the sessions *)
(* that count (EffortInv).  Coordinator handlers know between two steps    *)
(* what their lease protects (Compiled) and what only one of them can be   *)
(* doing: a session that a handler is about to start, to end, to release   *)
(* or to let win is still the one the locator names (UnderLocator).        *)
(***************************************************************************)
EXTENDS SyncDevice, RecoveryAuthority, FiniteSetTheorems, WellFoundedInduction, TLAPS

Seqs == 0..cursor

\* S has every published write up to s.
Reflects(S, s) == reused \/ \A n \in final : n <= s => n \in S

\* A request as a device sends it.
Request(r) ==
    /\ r.from \in Devices /\ r.kind \in {"pull", "ack", "recover"}
    /\ r.seq \in Seqs /\ r.gen \in Nat /\ r.token \in Nat /\ r.next \in 0..Chunks

\* Ids are handed out in order as long as none is handed out twice, and
\* retention takes events away from the old end only.
Ordered ==
    /\ \A id \in Ids : ledger[id] # 0 => id <= cursor /\ ledger[id] \in final
    /\ ~reused => /\ cursor = written
                  /\ \A id \in Ids : ledger[id] \in {0, id}
                  /\ \A n \in final : ledger[n] = n \/ n <= floor

\* Retention stays below what active devices and snapshots stand for.
Pinned(d) ==
    /\ reg[d].gen <= tokens[d]
    /\ ~reg[d].needs => reg[d].known /\ floor <= reg[d].ack
    /\ reg[d].token # 0 => floor <= reg[d].line /\ Reflects(reg[d].snap, reg[d].line)

\* A cursor stands for a prefix of the writes, wherever it is kept: in the
\* replica of d, in its recovery, and in what the server believes d has.
\* Generations order the snapshots of d: a later one contains what d had of
\* earlier ones.
Replica(d) ==
    /\ Reflects(have[d], mark[d].seq)
    /\ rec[d].state = "none" <=> rec[d].token = 0
    /\ rec[d].state # "none" => Reflects(rec[d].snap, rec[d].line)
    /\ Continuous(d) =>
          /\ mark[d].gen <= reg[d].gen
          /\ ~reg[d].needs => Reflects(have[d], reg[d].ack)
          /\ rec[d].state # "none" => /\ mark[d].gen < rec[d].gen /\ rec[d].gen <= reg[d].gen
                                      /\ have[d] \subseteq rec[d].snap
          /\ reg[d].token # 0 =>
                /\ mark[d].gen < reg[d].gen => have[d] \subseteq reg[d].snap
                /\ rec[d].state # "none" /\ rec[d].gen < reg[d].gen
                      => rec[d].snap \subseteq reg[d].snap

\* The same of an answer m on its way to d.
Fits(d, m) ==
    /\ m.kind \in {"none", "events", "acked", "page", "expired"}
    /\ m.seq \in Seqs /\ m.got \subseteq final /\ m.next \in 0..Chunks
    /\ m.kind = "page" => m.token # 0 /\ Reflects(m.got, m.seq)
    /\ m.kind = "events" => Reflects(have[d] \cup m.got, m.seq)
    /\ Continuous(d) /\ m.kind \in {"events", "page"} =>
          /\ m.gen <= reg[d].gen
          /\ m.kind = "events" => rec[d].state = "none" /\ m.gen = mark[d].gen
          /\ m.kind = "page" => mark[d].gen < m.gen /\ have[d] \subseteq m.got
          /\ reg[d].token # 0 /\ m.gen < reg[d].gen => m.got \subseteq reg[d].snap

\* And of a request given up, which the server may still take up.
Pending(r) ==
    /\ Request(r)
    /\ Continuous(r.from) /\ r.kind # "recover" => Reflects(have[r.from], r.seq)

SyncInv ==
    /\ TypeOK /\ Ordered
    /\ \A d \in Devices : Pinned(d) /\ Replica(d) /\ Fits(d, answer[d])
    /\ \A r \in late : Pending(r)

----------------------------------------------------------------------------
(* Least and greatest elements *)

\* The order of the naturals, as a relation.
Less == {ss \in Nat \X Nat : ss[1] < ss[2]}

\* The order of the naturals has no infinite descent.
LEMMA LessIsWellFounded == IsWellFoundedOn(Less, Nat)
  BY NatLessThanWellFounded DEF OpToRel, Less

\* A set of naturals has a smallest element.
LEMMA Smallest ==
    ASSUME NEW S \in SUBSET Nat, S # {}
    PROVE  \E x \in S : \A y \in S : x <= y
<1>1. \E x \in S : \A y \in S : ~(<<y, x>> \in Less)
  BY LessIsWellFounded, WFMin
<1>2. \A x, y \in Nat : <<y, x>> \in Less <=> y < x
  BY DEF Less
<1>3. PICK x \in S : \A y \in S : ~(<<y, x>> \in Less)
  BY <1>1
<1>4. ASSUME NEW y \in S
      PROVE  x <= y
  <2>1. x \in Nat /\ y \in Nat /\ ~(y < x)
    BY <1>2, <1>3
  <2> QED
    BY <2>1
<1> QED
  BY <1>4

\* and a bounded one a largest.
LEMMA Largest ==
    ASSUME NEW S, NEW n \in Nat, S \subseteq 0..n, S # {}
    PROVE  \E x \in S : \A y \in S : y <= x
<1> DEFINE T == {n - y : y \in S}
<1>1. T \in SUBSET Nat /\ T # {}
  <2>1. \A y \in S : n - y \in Nat
    OBVIOUS
  <2> QED
    BY <2>1
<1>2. PICK t \in T : \A u \in T : t <= u
  BY <1>1, Smallest
<1>3. PICK x \in S : t = n - x
  OBVIOUS
<1>4. \A y \in S : n - x <= n - y
  BY <1>2, <1>3
<1> QED
  BY <1>4

----------------------------------------------------------------------------
(* Maintenance of the registry *)

\* The rows of the registry, as TypeOK has them.
Entry == [known : BOOLEAN, ack : Seqs, needs : BOOLEAN, gen : Nat, expired : BOOLEAN,
          token : Nat, line : Seqs, snap : SUBSET final, done : BOOLEAN,
          stale : BOOLEAN]

\* Q is what maintenance and a touch may leave of R: a manifest is dropped as a
\* whole, an active device stays as it is.
Reduced(Q, R) ==
    /\ Q.gen = R.gen \/ (Q.gen = 0 /\ Q.token = 0 /\ Q.needs)
    /\ Q.token # 0 => Q.token = R.token /\ Q.line = R.line /\ Q.snap = R.snap
    /\ ~Q.needs => ~R.needs /\ Q.ack = R.ack /\ (R.known => Q.known)

\* A row whose manifest is dropped stays a row.
LEMMA UnpinnedEntry ==
    ASSUME 0 \in Seqs, NEW R \in Entry
    PROVE  /\ Unpinned(R) \in Entry
           /\ Unpinned(R).token = 0 /\ Unpinned(R).needs /\ Unpinned(R).gen = R.gen
  BY DEF Entry, Unpinned

\* register_or_touch drops the manifest of a device that had expired.
LEMMA TouchReduces ==
    ASSUME 0 \in Seqs, NEW R \in Entry
    PROVE  /\ Touch(R) \in Entry /\ Reduced(Touch(R), R) /\ Touch(R).gen = R.gen
<1>1. CASE ~R.known
  BY <1>1 DEF Entry, Touch, Reduced
<1>2. CASE R.known /\ R.expired
  <2>1. [Unpinned(R) EXCEPT !.expired = FALSE] \in Entry
    BY UnpinnedEntry DEF Entry
  <2>2. Touch(R) = [Unpinned(R) EXCEPT !.expired = FALSE]
    BY <1>2 DEF Touch
  <2>3. Touch(R).token = 0 /\ Touch(R).needs /\ Touch(R).gen = R.gen
    BY <2>2, UnpinnedEntry DEF Entry
  <2> QED
    BY <1>2, <2>1, <2>2, <2>3 DEF Reduced
<1>3. CASE R.known /\ ~R.expired
  BY <1>3 DEF Touch, Reduced
<1> QED
  BY <1>1, <1>2, <1>3

\* expire_inactive takes a device off the active ones,
LEMMA ExpireReduces ==
    ASSUME 0 \in Seqs, NEW R \in Entry
    PROVE  /\ ExpireInactive(R) \in Entry /\ Reduced(ExpireInactive(R), R)
           /\ ExpireInactive(R).gen = R.gen
  BY UnpinnedEntry DEF ExpireInactive, Reduced

\* collect_expired_recovery drops a manifest whose lifetime is over,
LEMMA CollectReduces ==
    ASSUME 0 \in Seqs, NEW R \in Entry
    PROVE  /\ CollectExpired(R) \in Entry /\ Reduced(CollectExpired(R), R)
           /\ CollectExpired(R).gen = R.gen
  BY UnpinnedEntry DEF CollectExpired, Reduced

\* and delete_expired_registrations a whole row.
LEMMA DeleteReduces ==
    ASSUME 0 \in Seqs, NEW R \in Entry
    PROVE  DeleteExpired(R) \in Entry /\ Reduced(DeleteExpired(R), R)
<1>1. CASE R.needs /\ R.expired /\ R.token = 0
  BY <1>1 DEF DeleteExpired, Unregistered, Entry, Reduced
<1>2. CASE ~(R.needs /\ R.expired /\ R.token = 0)
  BY <1>2 DEF DeleteExpired, Reduced
<1> QED
  BY <1>1, <1>2

\* One sweep after the other reduces a row as one does.
LEMMA ReducedTwice ==
    ASSUME NEW P, NEW Q, NEW R, Reduced(P, Q), Reduced(Q, R)
    PROVE  Reduced(P, R)
  BY DEF Reduced

----------------------------------------------------------------------------
(* Requests of a device *)

ServerTypes == /\ 0 \in Seqs /\ cursor \in Seqs /\ reg \in [Devices -> Entry]
               /\ tokens \in [Devices -> Nat]

\* What handling a request may do to the registry and to the tokens.
Maintains(Q, T) == /\ \A x \in Devices : Reduced(Q[x], reg[x]) /\ Q[x].gen = reg[x].gen
                   /\ T = tokens
Activates(Q, T, r) ==
    LET d == r.from IN
    /\ \A x \in Devices \ {d} : Q[x] = reg[x]
    /\ T = tokens
    /\ r.kind = "ack" /\ r.gen = reg[d].gen /\ floor <= r.seq
    /\ Q[d].gen = reg[d].gen /\ Q[d].token = 0 /\ Q[d].known /\ Q[d].ack = r.seq
Creates(Q, T, r) ==
    LET d == r.from IN
    /\ \A x \in Devices \ {d} : Reduced(Q[x], reg[x]) /\ Q[x].gen = reg[x].gen
    /\ T = [tokens EXCEPT ![d] = tokens[d] + 1]
    /\ Q[d].gen = reg[d].gen + 1 /\ Q[d].token = tokens[d] + 1 /\ Q[d].needs
    /\ Q[d].line = cursor /\ Q[d].snap = final

\* And what the answer may be.
Events(m, r) ==
    /\ ~reg[r.from].needs /\ r.gen = reg[r.from].gen /\ floor <= r.seq /\ r.seq <= cursor
    /\ m = Message(r.from, "events", PageEnd(r.seq), reg[r.from].gen, 0, 0,
                   {ledger[id] : id \in PageIds(r.seq)})
Resumed(m, r) ==
    LET d == r.from IN
    /\ reg[d].token # 0 /\ r.token # 0 /\ r.gen = reg[d].gen
    /\ \E k \in 0..Chunks :
          m = Message(d, "page", reg[d].line, reg[d].gen, reg[d].token, k, reg[d].snap)
Started(m, r) ==
    LET d == r.from IN
    /\ r.token = 0
    /\ m = Message(d, "page", cursor, reg[d].gen + 1, tokens[d] + 1, 1, final)

\* A pull touches the device; its events are those above the cursor.
LEMMA PullEffect ==
    ASSUME ServerTypes, NEW r, Request(r)
    PROVE  /\ Pull(r).reg \in [Devices -> Entry] /\ Maintains(Pull(r).reg, Pull(r).tokens)
           /\ Pull(r).answer = Rejection(r.from) \/ Events(Pull(r).answer, r)
<1> DEFINE d == r.from
           R == Touch(reg[d])
<1>1. d \in Devices /\ reg[d] \in Entry
  BY DEF ServerTypes, Request
<1>2. R \in Entry /\ Reduced(R, reg[d]) /\ R.gen = reg[d].gen
  BY <1>1, TouchReduces DEF ServerTypes
<1>3. Pull(r).reg = [reg EXCEPT ![d] = R] /\ Pull(r).tokens = tokens
  BY DEF Pull, Outcome
<1>4. \A x \in Devices : Reduced(reg[x], reg[x])
  BY DEF Reduced
<1>5. Pull(r).reg \in [Devices -> Entry] /\ Maintains(Pull(r).reg, Pull(r).tokens)
  BY <1>1, <1>2, <1>3, <1>4 DEF ServerTypes, Maintains
<1>6. CASE AcceptsCursor(R, r.seq, r.gen)
  <2>1. Pull(r).answer = Message(d, "events", PageEnd(r.seq), R.gen, 0, 0,
                                 {ledger[id] : id \in PageIds(r.seq)})
    BY <1>6 DEF Pull, Outcome
  <2> QED
    BY <1>2, <1>5, <1>6, <2>1 DEF Events, AcceptsCursor, Reduced
<1>7. CASE ~AcceptsCursor(R, r.seq, r.gen)
  BY <1>5, <1>7 DEF Pull, Outcome
<1> QED
  BY <1>6, <1>7

\* An acknowledgement activates the device at the cursor it names.
LEMMA AckEffect ==
    ASSUME ServerTypes, NEW r, Request(r), r.kind = "ack"
    PROVE  /\ Ack(r).reg \in [Devices -> Entry]
           /\ \/ Maintains(Ack(r).reg, Ack(r).tokens)
              \/ Activates(Ack(r).reg, Ack(r).tokens, r)
           /\ Ack(r).answer \in {Rejection(r.from), Message(r.from, "acked", 0, 0, 0, 0, {})}
<1> DEFINE d == r.from
           R == reg[d]
           Q == [Unpinned(R) EXCEPT !.needs = FALSE, !.ack = r.seq]
<1>1. d \in Devices /\ R \in Entry /\ r.seq \in Seqs
  BY DEF ServerTypes, Request
<1>2. CASE AcceptsAck(R, r.seq, r.gen)
  <2>1. Ack(r).reg = [reg EXCEPT ![d] = Q] /\ Ack(r).tokens = tokens
        /\ Ack(r).answer = Message(d, "acked", 0, 0, 0, 0, {})
    BY <1>2 DEF Ack, Outcome
  <2>2. Unpinned(R) \in Entry /\ Unpinned(R).token = 0 /\ Unpinned(R).gen = R.gen
    BY <1>1, UnpinnedEntry DEF ServerTypes
  <2>3. Unpinned(R).known = R.known
    BY <1>1 DEF Unpinned, Entry
  <2>4. Q \in Entry /\ Q.gen = R.gen /\ Q.token = 0 /\ Q.known = R.known /\ Q.ack = r.seq
    BY <1>1, <2>2, <2>3 DEF Entry
  <2> HIDE DEF Q
  <2>5. Ack(r).reg \in [Devices -> Entry]
    BY <1>1, <2>1, <2>4 DEF ServerTypes
  <2>6. Activates(Ack(r).reg, Ack(r).tokens, r)
    BY <1>1, <1>2, <2>1, <2>4 DEF ServerTypes, Activates, AcceptsAck
  <2> QED
    BY <2>1, <2>5, <2>6
<1>3. CASE ~AcceptsAck(R, r.seq, r.gen)
  <2>1. Ack(r).reg = reg /\ Ack(r).tokens = tokens /\ Ack(r).answer = Rejection(d)
    BY <1>1, <1>3 DEF Ack, Outcome, ServerTypes
  <2> QED
    BY <2>1 DEF Maintains, Reduced, ServerTypes
<1> QED
  BY <1>2, <1>3

\* Serving a page changes neither the generation nor the manifest of a row.
LEMMA PageEntry ==
    ASSUME 0 \in Seqs, NEW R \in Entry, NEW k
    PROVE  /\ AfterPage(R, k) \in Entry
           /\ AfterPage(R, k).gen = R.gen /\ AfterPage(R, k).token = R.token
           /\ AfterPage(R, k).line = R.line /\ AfterPage(R, k).snap = R.snap
           /\ AfterPage(R, k).needs = R.needs /\ AfterPage(R, k).ack = R.ack
           /\ AfterPage(R, k).known = R.known
<1>1. (R.done \/ k + 1 = Chunks) \in BOOLEAN
  OBVIOUS
<1> DEFINE b == R.done \/ k + 1 = Chunks
<1>2. AfterPage(R, k) = [R EXCEPT !.done = b, !.expired = FALSE]
  BY DEF AfterPage
<1> HIDE DEF b
<1> QED
  BY <1>1, <1>2 DEF Entry, b

\* A new snapshot has the next generation and the next token.
LEMMA CreatedEntry ==
    ASSUME ServerTypes, NEW d \in Devices, NEW R \in Entry
    PROVE  /\ Created(d, R) \in Entry
           /\ Created(d, R).gen = R.gen + 1 /\ Created(d, R).token = tokens[d] + 1
           /\ Created(d, R).line = cursor /\ Created(d, R).snap = final
           /\ Created(d, R).needs
<1>1. R.gen + 1 \in Nat /\ tokens[d] + 1 \in Nat
  BY DEF Entry, ServerTypes
<1> QED
  BY <1>1 DEF Created, Entry, ServerTypes

\* A recovery is refused, continued, or begins with a snapshot of all rows.
LEMMA RecoverEffect ==
    ASSUME ServerTypes, NEW r, Request(r), Chunks \in Nat \ {0}
    PROVE  /\ Recover(r).reg \in [Devices -> Entry]
           /\ \/ /\ Maintains(Recover(r).reg, Recover(r).tokens)
                 /\ Recover(r).answer = Rejection(r.from) \/ Resumed(Recover(r).answer, r)
              \/ /\ Creates(Recover(r).reg, Recover(r).tokens, r)
                 /\ Started(Recover(r).answer, r)
<1> DEFINE d == r.from
           swept == [x \in Devices |->
                       CollectExpired(IF x = d THEN Touch(ExpireInactive(reg[x]))
                                      ELSE ExpireInactive(reg[x]))]
<1>1. d \in Devices /\ 0 \in Seqs /\ \A x \in Devices : reg[x] \in Entry
  BY DEF ServerTypes, Request
<1>2. ASSUME NEW x \in Devices
      PROVE  swept[x] \in Entry /\ Reduced(swept[x], reg[x]) /\ swept[x].gen = reg[x].gen
  <2>1. /\ ExpireInactive(reg[x]) \in Entry /\ Reduced(ExpireInactive(reg[x]), reg[x])
        /\ ExpireInactive(reg[x]).gen = reg[x].gen
    BY <1>1, ExpireReduces
  <2>2. PICK R \in Entry : /\ Reduced(R, reg[x]) /\ R.gen = reg[x].gen
                           /\ swept[x] = CollectExpired(R)
    BY <1>1, <2>1, TouchReduces, ReducedTwice
  <2> QED
    BY <1>1, <2>2, CollectReduces, ReducedTwice
<1> HIDE DEF swept
<1>3. CASE r.token = 0
  <2> DEFINE R == Created(d, swept[d])
  <2>1. /\ Recover(r).reg = [swept EXCEPT ![d] = AfterPage(R, 0)]
        /\ Recover(r).tokens = [tokens EXCEPT ![d] = @ + 1]
        /\ Recover(r).answer = PageOf(d, R, 0)
    BY <1>3 DEF Recover, swept
  <2>2. /\ R \in Entry /\ R.gen = reg[d].gen + 1 /\ R.token = tokens[d] + 1
        /\ R.line = cursor /\ R.snap = final /\ R.needs
    BY <1>1, <1>2, CreatedEntry
  <2> HIDE DEF R
  <2>3. AfterPage(R, 0) \in Entry
    BY <1>1, <2>2, PageEntry
  <2>4. Recover(r).reg \in [Devices -> Entry]
    BY <1>2, <2>1, <2>3 DEF swept
  <2>5. Creates(Recover(r).reg, Recover(r).tokens, r)
    <3>1. /\ AfterPage(R, 0).gen = reg[d].gen + 1 /\ AfterPage(R, 0).token = tokens[d] + 1
          /\ AfterPage(R, 0).needs /\ AfterPage(R, 0).line = cursor
          /\ AfterPage(R, 0).snap = final
      BY <1>1, <2>2, PageEntry
    <3>2. Recover(r).reg[d] = AfterPage(R, 0)
      BY <1>1, <2>1 DEF swept
    <3>3. \A x \in Devices \ {d} : Recover(r).reg[x] = swept[x]
      BY <2>1 DEF swept
    <3> QED
      BY <1>2, <2>1, <3>1, <3>2, <3>3 DEF Creates
  <2>6. Started(Recover(r).answer, r)
    BY <1>3, <2>1, <2>2 DEF Started, PageOf
  <2> QED
    BY <2>4, <2>5, <2>6
<1>4. CASE r.token # 0 /\ ServesPage(swept[d], r)
  <2> DEFINE R == swept[d]
  <2>1. /\ Recover(r).reg = [swept EXCEPT ![d] = AfterPage(R, r.next)]
        /\ Recover(r).tokens = tokens
        /\ Recover(r).answer = PageOf(d, R, r.next)
    BY <1>4 DEF Recover, swept
  <2>2. AfterPage(R, r.next) \in Entry /\ Reduced(AfterPage(R, r.next), reg[d])
        /\ AfterPage(R, r.next).gen = reg[d].gen
    BY <1>1, <1>2, PageEntry DEF Reduced
  <2>3. Recover(r).reg \in [Devices -> Entry] /\ Maintains(Recover(r).reg, Recover(r).tokens)
    BY <1>1, <1>2, <2>1, <2>2 DEF swept, Maintains
  <2>4. Resumed(Recover(r).answer, r)
    <3>1. r.next + 1 \in 0..Chunks
      BY <1>4 DEF ServesPage, Request
    <3>2. /\ R.token # 0 /\ r.gen = R.gen
      BY <1>4 DEF ServesPage
    <3>3. R.token = reg[d].token /\ R.line = reg[d].line /\ R.snap = reg[d].snap
          /\ R.gen = reg[d].gen
      BY <1>1, <1>2, <3>2 DEF Reduced
    <3> QED
      BY <1>4, <2>1, <3>1, <3>2, <3>3 DEF Resumed, PageOf
  <2> QED
    BY <2>3, <2>4
<1>5. CASE r.token # 0 /\ ~ServesPage(swept[d], r)
  <2>1. /\ Recover(r).reg = [swept EXCEPT ![d] = swept[d]]
        /\ Recover(r).tokens = tokens /\ Recover(r).answer = Rejection(d)
    BY <1>5 DEF Recover, swept
  <2>2. Recover(r).reg \in [Devices -> Entry] /\ Maintains(Recover(r).reg, Recover(r).tokens)
    BY <1>1, <1>2, <2>1 DEF swept, Maintains
  <2> QED
    BY <2>1, <2>2
<1> QED
  BY <1>3, <1>4, <1>5

----------------------------------------------------------------------------
(* Pages and ids *)

\* Ids are bounded, as the smallest and the largest of them need.
LEMMA AboveIsBounded ==
    ASSUME MaxWrites \in Nat, NEW s
    PROVE  Above(s) \subseteq 0..MaxWrites /\ Rows \subseteq 0..MaxWrites
  BY DEF Above, Rows, Ids

\* The end of a page: no event between the cursor it starts from and its end is
\* left out, and there is a first event on it.
LEMMA PageIsFull ==
    ASSUME SyncAssumption, NEW s \in Nat, Above(s) # {}
    PROVE  /\ PageEnd(s) \in PageIds(s)
           /\ \A id \in Above(s) : id <= PageEnd(s) => id \in PageIds(s)
<1> USE SyncAssumption DEF SyncAssumption
<1>1. Above(s) \subseteq 0..MaxWrites
  BY AboveIsBounded
<1>2. PICK m \in Above(s) : \A x \in Above(s) : m <= x
  BY <1>1, Smallest
<1>3. {x \in Above(s) : x <= m} = {m}
  BY <1>1, <1>2
<1>4. m \in PageIds(s)
  BY <1>2, <1>3, FS_Singleton DEF PageIds
<1>5. PageIds(s) \subseteq 0..MaxWrites
  BY <1>1 DEF PageIds
<1>6. \E id \in PageIds(s) : \A x \in PageIds(s) : x <= id
  BY <1>4, <1>5, Largest
<1>7. PageEnd(s) \in PageIds(s)
  BY <1>6 DEF PageEnd
<1>8. ASSUME NEW id \in Above(s), id <= PageEnd(s)
      PROVE  id \in PageIds(s)
  <2> DEFINE low == {x \in Above(s) : x <= id}
             all == {x \in Above(s) : x <= PageEnd(s)}
  <2>1. IsFiniteSet(0..MaxWrites)
    BY FS_Interval
  <2>2. IsFiniteSet(all)
    BY <1>1, <2>1, FS_Subset
  <2>3. PageEnd(s) \in Nat /\ \A x \in Above(s) : x \in Nat
    BY <1>1, <1>5, <1>7
  <2>4. low \subseteq all
    BY <1>8, <2>3
  <2>5. Cardinality(low) <= Cardinality(all) /\ IsFiniteSet(low)
    BY <2>2, <2>4, FS_Subset
  <2>6. Cardinality(all) <= PageSize
    BY <1>7 DEF PageIds
  <2>7. Cardinality(low) \in Nat /\ Cardinality(all) \in Nat
    BY <2>2, <2>5, FS_CardinalityType
  <2> QED
    BY <2>5, <2>6, <2>7 DEF PageIds
<1> QED
  BY <1>7, <1>8

\* A page holds published writes only and ends at or below the cursor; unless
\* an id was given out twice, it holds all of them up to its end.
LEMMA PageIsPrefix ==
    ASSUME SyncAssumption, TypeOK, Ordered, NEW s \in Seqs, floor <= s
    PROVE  /\ PageEnd(s) \in Seqs
           /\ {ledger[id] : id \in PageIds(s)} \subseteq final
           /\ ~reused => \A n \in final : s < n /\ n <= PageEnd(s)
                             => n \in {ledger[id] : id \in PageIds(s)}
<1> USE SyncAssumption DEF SyncAssumption
<1>1. s \in Nat /\ cursor \in Nat /\ floor \in Nat
  BY DEF Seqs, TypeOK
<1>2. \A id \in PageIds(s) : id \in Ids /\ ledger[id] # 0
  BY DEF PageIds, Above, Rows
<1>3. PageEnd(s) \in Seqs
  <2>1. CASE Above(s) = {}
    BY <2>1 DEF PageEnd
  <2>2. CASE Above(s) # {}
    BY <1>1, <1>2, <2>2, PageIsFull DEF Ordered, Seqs, Ids
  <2> QED
    BY <2>1, <2>2
<1>4. {ledger[id] : id \in PageIds(s)} \subseteq final
  BY <1>2 DEF Ordered
<1>5. ASSUME ~reused, NEW n \in final, s < n, n <= PageEnd(s)
      PROVE  n \in {ledger[id] : id \in PageIds(s)}
  <2>1. n \in Ids /\ n \in Nat
    BY DEF TypeOK, Ids
  <2>2. ledger[n] = n
    BY <1>1, <1>5, <2>1 DEF Ordered
  <2>3. n \in Above(s)
    BY <1>5, <2>1, <2>2 DEF Above, Rows, Ids
  <2>4. n \in PageIds(s)
    BY <1>1, <1>5, <2>3, PageIsFull
  <2> QED
    BY <2>2, <2>4
<1> QED
  BY <1>3, <1>4, <1>5

\* SQLite's next id is the one after the largest.
LEMMA NextIdIsNew ==
    ASSUME SyncAssumption, TypeOK, Ordered
    PROVE  /\ NextId \in Nat \ {0}
           /\ \A id \in Rows : id < NextId
           /\ NextId <= cursor + 1
<1> USE SyncAssumption DEF SyncAssumption
<1>1. CASE Rows = {}
  BY <1>1 DEF NextId, TypeOK
<1>2. CASE Rows # {}
  <2>1. Rows \subseteq 0..MaxWrites
    BY AboveIsBounded
  <2>2. \E id \in Rows : \A x \in Rows : x <= id
    BY <1>2, <2>1, Largest
  <2> DEFINE m == CHOOSE id \in Rows : \A x \in Rows : x <= id
  <2>3. m \in Rows /\ \A x \in Rows : x <= m
    BY <2>2
  <2>4. NextId = 1 + m
    BY <1>2 DEF NextId
  <2>5. m \in Nat /\ m <= cursor
    BY <2>1, <2>3 DEF Rows, Ordered
  <2> HIDE DEF m
  <2> QED
    BY <2>1, <2>3, <2>4, <2>5 DEF TypeOK
<1> QED
  BY <1>1, <1>2

----------------------------------------------------------------------------
(* What the server may do to a device *)

\* What a step of the server may do to the row of d.
Change(d) ==
    \/ Reduced(reg'[d], reg[d]) /\ tokens'[d] = tokens[d]
    \/ /\ reg'[d].gen = reg[d].gen /\ tokens'[d] = tokens[d]
       /\ reg'[d].token = 0 /\ reg'[d].known /\ floor <= reg'[d].ack
       /\ Continuous(d) => Reflects(have[d], reg'[d].ack)
    \/ /\ reg'[d].gen = reg[d].gen + 1 /\ tokens'[d] = tokens[d] + 1
       /\ reg'[d].token # 0 /\ reg'[d].needs
       /\ reg'[d].line = cursor /\ reg'[d].snap = final

\* The types of single rows, cursors and recoveries.
LEMMA Typing ==
    ASSUME SyncInv
    PROVE  /\ ServerTypes /\ cursor \in Nat /\ floor \in 0..cursor
           /\ \A d \in Devices :
                 /\ reg[d].gen \in Nat /\ reg[d].token \in Nat /\ reg[d].ack \in Seqs
                 /\ reg[d].line \in Seqs /\ reg[d].snap \subseteq final /\ tokens[d] \in Nat
                 /\ reg[d] \in Entry
                 /\ mark[d].gen \in Nat /\ mark[d].seq \in Seqs /\ have[d] \subseteq final
                 /\ rec[d].gen \in Nat /\ rec[d].token \in Nat /\ rec[d].line \in Seqs
                 /\ rec[d].snap \subseteq final /\ rec[d].next \in 0..Chunks
                 /\ rec[d].state \in {"none", "downloading", "ready"}
                 /\ answer[d] \in Messages
<1>1. cursor \in Nat /\ floor \in 0..cursor
  BY DEF SyncInv, TypeOK
<1>2. 0 \in Seqs /\ cursor \in Seqs
  BY <1>1 DEF Seqs
<1>3. reg \in [Devices -> Entry] /\ tokens \in [Devices -> Nat]
  BY DEF SyncInv, TypeOK, Entry, Seqs
<1>4. ASSUME NEW d \in Devices
      PROVE  /\ reg[d].gen \in Nat /\ reg[d].token \in Nat /\ reg[d].ack \in Seqs
             /\ reg[d].line \in Seqs /\ reg[d].snap \subseteq final /\ tokens[d] \in Nat
             /\ reg[d] \in Entry
  BY <1>3 DEF Entry
<1>5. ASSUME NEW d \in Devices
      PROVE  /\ mark[d].gen \in Nat /\ mark[d].seq \in Seqs /\ have[d] \subseteq final
             /\ answer[d] \in Messages
  BY DEF SyncInv, TypeOK, Seqs
<1>6. ASSUME NEW d \in Devices
      PROVE  /\ rec[d].gen \in Nat /\ rec[d].token \in Nat /\ rec[d].line \in Seqs
             /\ rec[d].snap \subseteq final /\ rec[d].next \in 0..Chunks
             /\ rec[d].state \in {"none", "downloading", "ready"}
  BY DEF SyncInv, TypeOK, Seqs
<1> QED
  BY <1>1, <1>2, <1>3, <1>4, <1>5, <1>6 DEF ServerTypes

\* A registration that counts from the start again is never continuous later.
LEMMA ContinuousBefore ==
    ASSUME SyncInv, NEW d \in Devices, Change(d), Continuous(d)'
    PROVE  Continuous(d) /\ reg[d].gen <= reg'[d].gen
  BY Typing DEF SyncInv, Change, Continuous, Reduced, Pinned

\* The replicas, answers and requests under way stay as good as they were.
LEMMA ReplicaAfterChange ==
    ASSUME SyncInv, NEW d \in Devices, Change(d), UNCHANGED <<outboxes, local>>
    PROVE  Replica(d)'
<1> USE DEF outboxes, local, SyncInv
<1>1. Continuous(d)' => Continuous(d) /\ reg[d].gen <= reg'[d].gen
  BY ContinuousBefore
<1>2. \A S, s : Reflects(S, s)' <=> Reflects(S, s)
  BY DEF Reflects
<1>3. CASE Reduced(reg'[d], reg[d])
  BY <1>1, <1>3, Typing DEF Replica, Reflects, Reduced
<1>4. CASE /\ reg'[d].gen = reg[d].gen /\ reg'[d].token = 0
           /\ Continuous(d) => Reflects(have[d], reg'[d].ack)
  BY <1>1, <1>4, Typing DEF Replica, Reflects
<1>5. CASE /\ reg'[d].gen = reg[d].gen + 1 /\ reg'[d].needs
           /\ reg'[d].line = cursor /\ reg'[d].snap = final
  BY <1>1, <1>5, Typing DEF Replica, Reflects
<1> QED
  BY <1>3, <1>4, <1>5 DEF Change

\* The same of the answer under way to d,
LEMMA FitsAfterChange ==
    ASSUME SyncInv, NEW d \in Devices, Change(d), UNCHANGED <<outboxes, local>>,
           answer'[d] = answer[d]
    PROVE  Fits(d, answer[d])'
<1> USE DEF outboxes, local, SyncInv
<1>1. Continuous(d)' => Continuous(d) /\ reg[d].gen <= reg'[d].gen
  BY ContinuousBefore
<1>2. answer[d].gen \in Nat
  BY Typing DEF Messages
<1>3. CASE Reduced(reg'[d], reg[d])
  BY <1>1, <1>2, <1>3, Typing DEF Fits, Reflects, Reduced, Seqs
<1>4. CASE reg'[d].gen = reg[d].gen /\ reg'[d].token = 0
  BY <1>1, <1>2, <1>4, Typing DEF Fits, Reflects, Seqs
<1>5. CASE reg'[d].gen = reg[d].gen + 1 /\ reg'[d].snap = final
  BY <1>1, <1>2, <1>5, Typing DEF Fits, Reflects, Seqs
<1> QED
  BY <1>3, <1>4, <1>5 DEF Change

\* of the requests that were given up,
LEMMA PendingAfterChange ==
    ASSUME SyncInv, NEW r \in late, \A d \in Devices : Change(d), UNCHANGED <<outboxes, local>>
    PROVE  Pending(r)'
  BY ContinuousBefore DEF outboxes, local, SyncInv, Pending, Request, Reflects, Seqs

\* and of the row of d itself.
LEMMA PinnedAfterChange ==
    ASSUME SyncInv, NEW d \in Devices, Change(d), UNCHANGED <<outboxes, floor>>
    PROVE  Pinned(d)'
  BY Typing DEF outboxes, SyncInv, Pinned, Change, Reduced, Reflects, Seqs

----------------------------------------------------------------------------
(* Handling a request *)

\* Whatever request is served, every row changes as Change says.
LEMMA ServeEffect ==
    ASSUME SyncAssumption, SyncInv, NEW r, Pending(r), Serve(r)
    PROVE  /\ reg' \in [Devices -> Entry] /\ tokens' \in [Devices -> Nat]
           /\ \A d \in Devices : Change(d)
           /\ outboxes' = outboxes /\ floor' = floor
<1> DEFINE e == r.from
<1>1. ServerTypes /\ Request(r) /\ e \in Devices /\ tokens \in [Devices -> Nat]
  BY Typing DEF Pending, Request, ServerTypes
<1>2. reg' = Handled(r).reg /\ tokens' = Handled(r).tokens
  BY DEF Serve
<1>3. \/ Maintains(reg', tokens')
      \/ Activates(reg', tokens', r)
      \/ Creates(reg', tokens', r)
  BY <1>1, <1>2, PullEffect, AckEffect, RecoverEffect DEF Handled, SyncAssumption
<1>4. reg' \in [Devices -> Entry]
  BY <1>1, <1>2, PullEffect, AckEffect, RecoverEffect DEF Handled, SyncAssumption
<1>5. CASE Maintains(reg', tokens')
  BY <1>1, <1>4, <1>5 DEF Maintains, Change, Serve
<1>6. CASE Activates(reg', tokens', r)
  <2>1. \A d \in Devices : d # e => Change(d)
    BY <1>6 DEF Activates, Change, Reduced
  <2>2. Change(e)
    BY <1>1, <1>6 DEF Activates, Change, Pending
  <2> QED
    BY <1>1, <1>4, <1>6, <2>1, <2>2 DEF Activates, Serve
<1>7. CASE Creates(reg', tokens', r)
  <2>1. tokens[e] + 1 \in Nat \ {0}
    BY <1>1
  <2>2. tokens' = [tokens EXCEPT ![e] = tokens[e] + 1]
    BY <1>7 DEF Creates
  <2>3. tokens' \in [Devices -> Nat]
    BY <1>1, <2>1, <2>2
  <2>4. \A d \in Devices : d # e => Change(d)
    BY <1>1, <1>7, <2>2 DEF Creates, Change
  <2>5. Change(e)
    BY <1>1, <1>7, <2>1, <2>2 DEF Creates, Change
  <2> QED
    BY <1>4, <2>3, <2>4, <2>5 DEF Serve
<1> QED
  BY <1>3, <1>5, <1>6, <1>7

\* What a device asks for is what it may ask for.
LEMMA RequestsArePending ==
    ASSUME SyncInv, Chunks \in Nat, NEW d \in Devices,
           NEW r \in {RecoverRequest(d), CursorRequest(d)}
    PROVE  Pending(r) /\ r.from = d
<1>1. CASE r = RecoverRequest(d)
  BY <1>1, Typing DEF RecoverRequest, Message, Pending, Request, ServerTypes
<1>2. CASE r = CursorRequest(d)
  BY <1>2, Typing DEF CursorRequest, Message, Pending, Request, SyncInv, Replica
<1> QED
  BY <1>1, <1>2

\* The answer to what a device asks, whether it goes on with a recovery,
\* starts one or uses its cursor.
LEMMA AnswerFits ==
    ASSUME SyncAssumption, SyncInv, NEW d \in Devices,
           NEW r \in {RecoverRequest(d), CursorRequest(d)},
           Serve(r), UNCHANGED local, answer'[d] = Handled(r).answer
    PROVE  Fits(d, answer[d])' /\ answer'[d] \in Messages
<1> USE DEF local
<1>1. Pending(r) /\ r.from = d /\ Request(r) /\ ServerTypes
  BY Typing, RequestsArePending DEF Pending, SyncAssumption
<1>2. outboxes' = outboxes /\ floor' = floor /\ Change(d)
  BY <1>1, ServeEffect
<1>3. 0 \in Seqs /\ cursor \in Nat /\ Seqs' = Seqs /\ final' = final /\ reused' = reused
      /\ final \subseteq Ids
  BY <1>2, Typing DEF Seqs, outboxes, SyncInv, TypeOK, Ids
<1>4. \/ answer'[d] = Rejection(d)
      \/ answer'[d] = Message(d, "acked", 0, 0, 0, 0, {})
      \/ Events(answer'[d], r) /\ r.kind = "pull"
      \/ Resumed(answer'[d], r) /\ r.kind = "recover"
      \/ Started(answer'[d], r) /\ r.kind = "recover" /\ Creates(reg', tokens', r)
  BY <1>1, PullEffect, AckEffect, RecoverEffect DEF Handled, SyncAssumption, Request, Serve
<1>5. CASE answer'[d] \in {Rejection(d), Message(d, "acked", 0, 0, 0, 0, {})}
  BY <1>3, <1>5 DEF Rejection, Message, Fits, Messages, SyncAssumption
<1>6. CASE Events(answer'[d], r) /\ r.kind = "pull"
  <2> DEFINE got == {ledger[id] : id \in PageIds(r.seq)}
             m == Message(d, "events", PageEnd(r.seq), reg[d].gen, 0, 0, got)
  <2>1. r = CursorRequest(d) /\ r.seq = mark[d].seq /\ r.gen = mark[d].gen
    BY <1>6 DEF RecoverRequest, CursorRequest, Message
  <2>2. answer'[d] = m /\ ~reg[d].needs /\ mark[d].gen = reg[d].gen /\ floor <= r.seq
    BY <1>1, <1>6, <2>1 DEF Events
  <2>3. /\ PageEnd(r.seq) \in Seqs /\ got \subseteq final
        /\ ~reused => \A n \in final : r.seq < n /\ n <= PageEnd(r.seq) => n \in got
    BY <1>1, <2>2, PageIsPrefix DEF SyncInv, Request
  <2>4. Reflects(have[d] \cup got, PageEnd(r.seq))
    <3> SUFFICES ASSUME ~reused, NEW n \in final, n <= PageEnd(r.seq)
                 PROVE  n \in have[d] \cup got
      BY DEF Reflects
    <3>1. CASE n <= r.seq
      BY <2>1, <3>1 DEF SyncInv, Replica, Reflects
    <3>2. CASE ~(n <= r.seq)
      <4>1. n \in Int /\ r.seq \in Int
        BY <1>1, <1>3 DEF Ids, Request, Seqs
      <4> QED
        BY <2>3, <3>2, <4>1
    <3> QED
      BY <3>1, <3>2
  <2>5. m.kind = "events" /\ m.seq = PageEnd(r.seq) /\ m.gen = reg[d].gen /\ m.token = 0
        /\ m.next = 0 /\ m.got = got /\ m.from = d
    BY DEF Message
  <2>6. m \in Messages
    BY <1>3, <2>3, Typing DEF Message, Messages, Seqs
  <2> HIDE DEF m, got
  <2>7. Continuous(d)' => Continuous(d) /\ reg[d].gen <= reg'[d].gen
    BY <1>2, ContinuousBefore
  <2>8. Continuous(d) => rec[d].state = "none"
    BY <2>2, Typing DEF SyncInv, Replica
  <2>9. reg'[d].token # 0 => reg'[d].gen = reg[d].gen
    BY <1>1, <1>6, PullEffect DEF Serve, Handled, Maintains
  <2> QED
    BY <1>3, <2>2, <2>3, <2>4, <2>5, <2>6, <2>7, <2>8, <2>9, Typing
    DEF Fits, Reflects, SyncAssumption
<1>7. CASE Resumed(answer'[d], r) /\ r.kind = "recover"
  <2>1. r = RecoverRequest(d)
    BY <1>7 DEF RecoverRequest, CursorRequest, Message
  <2>2. r.token = rec[d].token /\ r.gen = rec[d].gen
    BY <2>1 DEF RecoverRequest, Message
  <2>3. /\ reg[d].token # 0 /\ rec[d].token # 0 /\ rec[d].gen = reg[d].gen
    BY <1>1, <1>7, <2>2 DEF Resumed
  <2>4. PICK k \in 0..Chunks :
           answer'[d] = Message(d, "page", reg[d].line, reg[d].gen, reg[d].token, k, reg[d].snap)
    BY <1>1, <1>7 DEF Resumed
  <2>5. /\ answer'[d].kind = "page" /\ answer'[d].seq = reg[d].line
        /\ answer'[d].gen = reg[d].gen /\ answer'[d].token = reg[d].token
        /\ answer'[d].next = k /\ answer'[d].got = reg[d].snap
    BY <2>4 DEF Message
  <2>6. answer'[d] \in Messages
    BY <1>3, <2>4, Typing DEF Message, Messages, Seqs, SyncAssumption
  <2>7. Reflects(reg[d].snap, reg[d].line)
    BY <2>3 DEF SyncInv, Pinned
  <2>8. Continuous(d) => mark[d].gen < reg[d].gen /\ have[d] \subseteq reg[d].snap
    BY <2>3 DEF SyncInv, Replica
  <2>9. Continuous(d)' => Continuous(d) /\ reg[d].gen <= reg'[d].gen
    BY <1>2, ContinuousBefore
  <2>10. reg'[d].token # 0 /\ reg[d].gen < reg'[d].gen => reg'[d].snap = final
    BY <1>2, Typing DEF Change, Reduced
  <2> QED
    BY <1>3, <2>3, <2>5, <2>6, <2>7, <2>8, <2>9, <2>10, Typing DEF Fits, Reflects
<1>8. CASE Started(answer'[d], r) /\ r.kind = "recover" /\ Creates(reg', tokens', r)
  <2>1. /\ answer'[d].kind = "page" /\ answer'[d].seq = cursor
        /\ answer'[d].gen = reg[d].gen + 1 /\ answer'[d].token = tokens[d] + 1
        /\ answer'[d].next = 1 /\ answer'[d].got = final
    BY <1>1, <1>8 DEF Started, Message
  <2>2. answer'[d] \in Messages
    BY <1>1, <1>3, <1>8, Typing DEF Started, Message, Messages
  <2>3. reg'[d].gen = reg[d].gen + 1
    BY <1>1, <1>8 DEF Creates
  <2>4. Continuous(d)' => Continuous(d)
    BY <1>2, ContinuousBefore
  <2>5. Continuous(d) => mark[d].gen <= reg[d].gen
    BY DEF SyncInv, Replica
  <2>6. cursor \in Seqs /\ 1 \in 0..Chunks /\ tokens[d] + 1 # 0
    BY Typing DEF ServerTypes, SyncAssumption
  <2>7. have[d] \subseteq final /\ mark[d].gen \in Nat /\ reg[d].gen \in Nat
    BY Typing
  <2> QED
    BY <1>3, <2>1, <2>2, <2>3, <2>4, <2>5, <2>6, <2>7 DEF Fits, Reflects
<1> QED
  BY <1>4, <1>5, <1>6, <1>7, <1>8

----------------------------------------------------------------------------
(* Requests, expiries and the network *)

\* Mishaps are counted up to their bound.
LEMMA MishapIsBounded ==
    ASSUME SyncInv, Mishap
    PROVE  mishaps' \in 0..MaxMishaps
  BY MishapAssumption DEF MishapAssumption, Mishap, SyncInv, TypeOK

\* Steps that leave the ledger alone keep it ordered.
LEMMA TypesAfter ==
    ASSUME SyncInv, UNCHANGED <<outboxes, floor>>,
           reg' \in [Devices -> Entry], tokens' \in [Devices -> Nat],
           UNCHANGED local,
           answer' \in [Devices -> Messages], late' \subseteq Messages,
           mishaps' \in 0..MaxMishaps
    PROVE  TypeOK' /\ Ordered'
<1>1. TypeOK'
  BY DEF SyncInv, TypeOK, outboxes, local, Entry, Seqs, Messages
<1>2. Ordered'
  BY DEF SyncInv, Ordered, outboxes
<1> QED
  BY <1>1, <1>2

\* No answer under way is an answer like any other,
LEMMA NothingFits ==
    ASSUME SyncAssumption, SyncInv, NEW d
    PROVE  Nothing(d).kind = "none" /\ Nothing(d).seq = 0 /\ Nothing(d).got = {}
           /\ Nothing(d).next = 0 /\ (d \in Devices => Nothing(d) \in Messages)
  BY DEF Nothing, Message, Messages

\* and fits every device.
LEMMA NothingFitsNext ==
    ASSUME SyncAssumption, SyncInv, NEW d \in Devices, cursor' = cursor, final' = final,
           answer'[d] = Nothing(d)
    PROVE  Fits(d, answer[d])'
<1>1. /\ Nothing(d).kind = "none" /\ Nothing(d).seq = 0 /\ Nothing(d).got = {}
      /\ Nothing(d).next = 0
  BY NothingFits
<1>2. 0 \in Seqs' /\ 0 \in 0..Chunks
  BY Typing DEF Seqs, SyncAssumption, ServerTypes
<1> QED
  BY <1>1, <1>2 DEF Fits

\* A request is handled, whoever sent it and whenever.
LEMMA AskNext ==
    ASSUME SyncAssumption, SyncInv, NEW d \in Devices, Ask(d) \/ AskFull(d)
    PROVE  SyncInv'
<1> USE SyncAssumption DEF SyncAssumption
<1>1. PICK r \in {RecoverRequest(d), CursorRequest(d)} :
         /\ Serve(r) /\ answer' = [answer EXCEPT ![d] = Handled(r).answer]
         /\ UNCHANGED <<local, late>> /\ mishaps' \in 0..MaxMishaps
  <2>1. CASE Ask(d)
    BY <2>1 DEF Ask, Requests, SyncInv, TypeOK
  <2>2. CASE AskFull(d)
    <3>1. mishaps' \in 0..MaxMishaps
      BY <2>2, MishapIsBounded DEF AskFull
    <3> QED
      BY <2>2, <3>1 DEF AskFull
  <2> QED
    BY <2>1, <2>2
<1>2. Pending(r) /\ r.from = d
  BY RequestsArePending
<1>3. /\ reg' \in [Devices -> Entry] /\ tokens' \in [Devices -> Nat]
      /\ \A e \in Devices : Change(e)
      /\ outboxes' = outboxes /\ floor' = floor
  BY <1>1, <1>2, ServeEffect
<1>4. answer \in [Devices -> Messages]
  BY DEF SyncInv, TypeOK
<1>5. answer'[d] = Handled(r).answer /\ \A e \in Devices \ {d} : answer'[e] = answer[e]
  BY <1>1, <1>4
<1>6. Fits(d, answer[d])' /\ answer'[d] \in Messages
  BY <1>1, <1>5, AnswerFits
<1>7. TypeOK' /\ Ordered'
  BY <1>1, <1>3, <1>4, <1>6, TypesAfter DEF SyncInv, TypeOK
<1>8. \A e \in Devices : Pinned(e)' /\ Replica(e)'
  BY <1>1, <1>3, ReplicaAfterChange, PinnedAfterChange
<1>9. \A e \in Devices : Fits(e, answer[e])'
  BY <1>1, <1>3, <1>5, <1>6, FitsAfterChange
<1>10. \A q \in late' : Pending(q)'
  BY <1>1, <1>3, PendingAfterChange
<1> QED
  BY <1>7, <1>8, <1>9, <1>10 DEF SyncInv

\* A request that was given up is served all the same.
LEMMA ServeLateNext ==
    ASSUME SyncAssumption, SyncInv, NEW r \in late, ServeLate(r)
    PROVE  SyncInv'
<1>1. /\ reg' \in [Devices -> Entry] /\ tokens' \in [Devices -> Nat]
      /\ \A e \in Devices : Change(e)
      /\ outboxes' = outboxes /\ floor' = floor
  BY ServeEffect DEF ServeLate, SyncInv
<1>2. TypeOK' /\ Ordered'
  BY <1>1, TypesAfter DEF ServeLate, SyncInv, TypeOK
<1>3. \A e \in Devices : Pinned(e)' /\ Replica(e)' /\ Fits(e, answer[e])'
  BY <1>1, ReplicaAfterChange, PinnedAfterChange, FitsAfterChange DEF ServeLate
<1>4. \A q \in late' : Pending(q)'
  BY <1>1, PendingAfterChange DEF ServeLate
<1> QED
  BY <1>2, <1>3, <1>4 DEF SyncInv

\* The lifetime of a registration or of a manifest ends.
LEMMA ExpireNext ==
    ASSUME SyncAssumption, SyncInv, NEW d \in Devices, Expire(d)
    PROVE  SyncInv'
<1>1. mishaps' \in 0..MaxMishaps /\ UNCHANGED <<local, wire, outboxes, floor, tokens>>
  BY MishapIsBounded DEF Expire, ExpireDevice, ExpireManifest
<1>2. PICK Q \in Entry : reg' = [reg EXCEPT ![d] = Q] /\ Reduced(Q, reg[d])
  <2>1. reg[d] \in Entry /\ (reg[d].token # 0) \in BOOLEAN
    BY Typing
  <2>2. CASE ExpireDevice(d)
    <3> DEFINE b == reg[d].token # 0
               Q == [reg[d] EXCEPT !.expired = TRUE, !.stale = b]
    <3>1. reg' = [reg EXCEPT ![d] = Q]
      BY <2>2 DEF ExpireDevice
    <3>2. b \in BOOLEAN
      OBVIOUS
    <3> HIDE DEF b
    <3>3. Q \in Entry /\ Reduced(Q, reg[d])
      BY <2>1, <3>2 DEF Entry, Reduced
    <3> QED
      BY <3>1, <3>3
  <2>3. CASE ExpireManifest(d)
    <3> DEFINE Q == [reg[d] EXCEPT !.stale = TRUE]
    <3>1. reg' = [reg EXCEPT ![d] = Q]
      BY <2>3 DEF ExpireManifest
    <3>2. Q \in Entry /\ Reduced(Q, reg[d])
      BY <2>1 DEF Entry, Reduced
    <3> QED
      BY <3>1, <3>2
  <2> QED
    BY <2>2, <2>3 DEF Expire
<1>3. reg \in [Devices -> Entry] /\ tokens \in [Devices -> Nat]
  BY Typing DEF ServerTypes
<1>4. reg' \in [Devices -> Entry] /\ \A e \in Devices : Change(e)
  BY <1>1, <1>2, <1>3 DEF Change, Reduced
<1>5. TypeOK' /\ Ordered'
  BY <1>1, <1>3, <1>4, TypesAfter DEF wire, SyncInv, TypeOK
<1>6. \A e \in Devices : Pinned(e)' /\ Replica(e)' /\ Fits(e, answer[e])'
  BY <1>1, <1>4, ReplicaAfterChange, PinnedAfterChange, FitsAfterChange DEF wire
<1>7. \A q \in late' : Pending(q)'
  BY <1>1, <1>4, PendingAfterChange DEF wire
<1> QED
  BY <1>5, <1>6, <1>7 DEF SyncInv

\* A registry nobody touches changes as Change says.
LEMMA UnchangedRegistry ==
    ASSUME SyncInv, UNCHANGED server
    PROVE  /\ \A e \in Devices : Change(e)
           /\ reg' \in [Devices -> Entry] /\ tokens' \in [Devices -> Nat]
           /\ UNCHANGED <<outboxes, floor>>
  BY Typing DEF server, registry, Change, Reduced, ServerTypes

\* A request is given up before it is handled, or its answer is lost.
LEMMA WireNext ==
    ASSUME SyncAssumption, SyncInv, NEW d \in Devices, GiveUp(d) \/ LoseAnswer(d)
    PROVE  SyncInv'
<1> USE SyncAssumption DEF SyncAssumption
<1>1. UNCHANGED <<server, local>> /\ mishaps' \in 0..MaxMishaps
  BY MishapIsBounded DEF GiveUp, LoseAnswer
<1>2. /\ \A e \in Devices : Change(e)
      /\ reg' \in [Devices -> Entry] /\ tokens' \in [Devices -> Nat]
      /\ UNCHANGED <<outboxes, floor>>
  BY <1>1, UnchangedRegistry
<1>3. answer \in [Devices -> Messages] /\ late \subseteq Messages
  BY DEF SyncInv, TypeOK
<1>4. \A e \in Devices : Pinned(e)' /\ Replica(e)'
  BY <1>1, <1>2, ReplicaAfterChange, PinnedAfterChange
<1>5. \A q \in late : Pending(q)'
  BY <1>1, <1>2, PendingAfterChange
<1>6. CASE GiveUp(d)
  <2>1. PICK r \in {RecoverRequest(d), CursorRequest(d)} : late' = late \cup {r}
    BY <1>6 DEF GiveUp, Requests
  <2>2. Pending(r) /\ Request(r)
    BY RequestsArePending DEF Pending
  <2>3. r \in Messages
    BY <2>2, Typing DEF Request, RecoverRequest, CursorRequest, Message, Messages, Seqs
  <2>4. Pending(r)'
    BY <1>1, <1>2, <2>2 DEF Pending, Request, Continuous, Reflects, server, registry, outboxes,
                            local, Seqs
  <2>5. \A q \in late' : Pending(q)'
    BY <1>5, <2>1, <2>4
  <2>6. \A e \in Devices : Fits(e, answer[e])'
    BY <1>1, <1>2, <1>6, FitsAfterChange DEF GiveUp
  <2>7. TypeOK' /\ Ordered'
    BY <1>1, <1>2, <1>3, <1>6, <2>1, <2>3, TypesAfter DEF GiveUp
  <2> QED
    BY <1>4, <2>5, <2>6, <2>7 DEF SyncInv
<1>7. CASE LoseAnswer(d)
  <2>1. answer' = [answer EXCEPT ![d] = Nothing(d)] /\ late' = late
    BY <1>7 DEF LoseAnswer
  <2>2. answer'[d] = Nothing(d) /\ answer' \in [Devices -> Messages]
        /\ \A e \in Devices \ {d} : answer'[e] = answer[e]
    BY <1>3, <2>1, NothingFits
  <2>3. Fits(d, answer[d])'
    BY <1>2, <2>2, NothingFitsNext DEF outboxes
  <2>4. \A e \in Devices : Fits(e, answer[e])'
    BY <1>1, <1>2, <2>2, <2>3, FitsAfterChange
  <2>5. TypeOK' /\ Ordered'
    BY <1>1, <1>2, <1>3, <2>1, <2>2, TypesAfter
  <2> QED
    BY <1>4, <1>5, <2>1, <2>4, <2>5 DEF SyncInv
<1> QED
  BY <1>6, <1>7

----------------------------------------------------------------------------
(* Answers *)

\* What a device does with an answer disturbs nobody else, nor what was asked
\* before, as long as its replica does not shrink.
LEMMA LocalStep ==
    ASSUME SyncInv, UNCHANGED <<server, late>>, TypeOK',
           NEW d \in Devices,
           \A e \in Devices \ {d} : /\ have'[e] = have[e] /\ mark'[e] = mark[e]
                                    /\ rec'[e] = rec[e] /\ answer'[e] = answer[e],
           Replica(d)', Fits(d, answer[d])',
           Continuous(d) => have[d] \subseteq have'[d]
    PROVE  SyncInv'
<1> USE DEF server, registry, outboxes
<1>1. Ordered' /\ \A e \in Devices : Pinned(e)'
  BY DEF SyncInv, Ordered, Pinned, Reflects
<1>2. \A e \in Devices \ {d} : Replica(e)'
  BY DEF SyncInv, Replica, Reflects, Continuous
<1>3. ASSUME NEW e \in Devices \ {d}
      PROVE  Fits(e, answer[e])'
  BY DEF SyncInv, Fits, Reflects, Continuous, Seqs
<1>4. ASSUME NEW r \in late
      PROVE  Pending(r)'
  <2>1. Request(r)' /\ r.from \in Devices
    BY DEF SyncInv, Pending, Request, Seqs
  <2>2. Continuous(r.from) => have[r.from] \subseteq have'[r.from]
    BY <2>1
  <2> QED
    BY <2>1, <2>2 DEF SyncInv, Pending, Reflects, Continuous
<1> QED
  BY <1>1, <1>2, <1>3, <1>4 DEF SyncInv

\* A page of events extends the replica and its cursor.
LEMMA ReceiveEventsNext ==
    ASSUME SyncAssumption, SyncInv, NEW d \in Devices, ReceiveEvents(d)
    PROVE  SyncInv' /\ \A e \in Devices : Continuous(e) => have[e] \subseteq have'[e]
<1>1. /\ have \in [Devices -> SUBSET final] /\ mark \in [Devices -> [seq : 0..cursor, gen : Nat]]
      /\ pend \in [Devices -> BOOLEAN] /\ need \in [Devices -> BOOLEAN]
      /\ answer \in [Devices -> Messages]
  BY DEF SyncInv, TypeOK
<1> DEFINE m == answer[d]
<1>2. Fits(d, m) /\ Replica(d) /\ m.kind = "events"
  BY DEF SyncInv, ReceiveEvents
<1>3. /\ have'[d] = have[d] \cup m.got /\ mark'[d].seq = m.seq /\ mark'[d].gen = m.gen
      /\ rec' = rec /\ answer'[d] = Nothing(d)
      /\ UNCHANGED <<server, late, mishaps>>
      /\ \A e \in Devices \ {d} : /\ have'[e] = have[e] /\ mark'[e] = mark[e]
                                  /\ answer'[e] = answer[e]
  BY <1>1 DEF ReceiveEvents
<1>4. UNCHANGED <<reg, tokens, floor, outboxes>>
  BY <1>3 DEF server, registry
<1>5. TypeOK'
  <2>1. m.seq \in 0..cursor /\ m.got \subseteq final /\ m.gen \in Nat
    BY <1>1, <1>2 DEF Fits, Messages, Seqs
  <2>2. have' \in [Devices -> SUBSET final] /\ mark' \in [Devices -> [seq : 0..cursor, gen : Nat]]
    BY <1>1, <2>1 DEF ReceiveEvents
  <2>3. answer' \in [Devices -> Messages]
    BY <1>1, NothingFits DEF ReceiveEvents
  <2>4. pend' \in [Devices -> BOOLEAN] /\ need' \in [Devices -> BOOLEAN]
    BY <1>1 DEF ReceiveEvents
  <2> QED
    BY <1>3, <1>4, <2>2, <2>3, <2>4 DEF SyncInv, TypeOK, outboxes
<1>6. Replica(d)'
  BY <1>2, <1>3, <1>4, Typing DEF Replica, Fits, Reflects, Continuous, outboxes
<1>7. Fits(d, answer[d])'
  BY <1>3, <1>4, NothingFitsNext DEF outboxes
<1> QED
  BY <1>3, <1>5, <1>6, <1>7, LocalStep

\* A page of a snapshot is newer than the replica and than what it replaces.
LEMMA ReceivePageNext ==
    ASSUME SyncAssumption, SyncInv, NEW d \in Devices, ReceivePage(d)
    PROVE  SyncInv'
<1> DEFINE m == answer[d]
           D == [state : {"none", "downloading", "ready"}, token : Nat,
                 gen : Nat, next : 0..Chunks, line : 0..cursor, snap : SUBSET final]
           q == [state |-> IF m.next < Chunks THEN "downloading" ELSE "ready",
                 token |-> m.token, gen |-> m.gen, next |-> m.next,
                 line |-> m.seq, snap |-> m.got]
<1>1. rec \in [Devices -> D] /\ answer \in [Devices -> Messages]
  BY DEF SyncInv, TypeOK
<1>2. Fits(d, m) /\ Replica(d) /\ m.kind = "page"
  BY DEF SyncInv, ReceivePage
<1>3. /\ rec' = [rec EXCEPT ![d] = q] /\ answer' = [answer EXCEPT ![d] = Nothing(d)]
      /\ UNCHANGED <<server, have, mark, pend, need, late, mishaps>>
  BY DEF ReceivePage
<1>4. UNCHANGED <<reg, tokens, floor, outboxes>>
  BY <1>3 DEF server, registry
<1>5. q \in D
  BY <1>1, <1>2 DEF Fits, Messages, Seqs
<1>6. /\ rec'[d] = q /\ answer'[d] = Nothing(d)
      /\ \A e \in Devices \ {d} : rec'[e] = rec[e] /\ answer'[e] = answer[e]
  BY <1>1, <1>3
<1>7. q.state # "none" /\ q.token = m.token /\ q.gen = m.gen /\ q.line = m.seq /\ q.snap = m.got
  OBVIOUS
<1>8. rec' \in [Devices -> D] /\ answer' \in [Devices -> Messages]
  BY <1>1, <1>3, <1>5, NothingFits
<1> HIDE DEF q
<1>9. TypeOK'
  BY <1>3, <1>4, <1>8 DEF SyncInv, TypeOK, outboxes
<1>10. Replica(d)'
  BY <1>2, <1>3, <1>4, <1>6, <1>7, Typing DEF Replica, Fits, Reflects, Continuous, outboxes
<1>11. Fits(d, answer[d])'
  BY <1>4, <1>6, NothingFitsNext DEF outboxes
<1> QED
  BY <1>3, <1>6, <1>9, <1>10, <1>11, LocalStep

\* An acknowledged or refused cursor stays what it stood for.
LEMMA ReceiveVerdictNext ==
    ASSUME SyncAssumption, SyncInv, NEW d \in Devices, ReceiveAck(d) \/ ReceiveExpired(d)
    PROVE  SyncInv'
<1>1. /\ answer \in [Devices -> Messages]
      /\ pend \in [Devices -> BOOLEAN] /\ need \in [Devices -> BOOLEAN]
  BY DEF SyncInv, TypeOK
<1>2. /\ answer' = [answer EXCEPT ![d] = Nothing(d)]
      /\ UNCHANGED <<server, have, mark, rec, late, mishaps>>
  BY DEF ReceiveAck, ReceiveExpired
<1>3. UNCHANGED <<reg, tokens, floor, outboxes>>
  BY <1>2 DEF server, registry
<1>4. pend' \in [Devices -> BOOLEAN] /\ need' \in [Devices -> BOOLEAN]
  BY <1>1 DEF ReceiveAck, ReceiveExpired
<1>5. /\ answer'[d] = Nothing(d) /\ answer' \in [Devices -> Messages]
      /\ \A e \in Devices \ {d} : answer'[e] = answer[e]
  BY <1>1, <1>2, NothingFits
<1>6. TypeOK'
  BY <1>2, <1>3, <1>4, <1>5 DEF SyncInv, TypeOK, outboxes
<1>7. Replica(d)'
  BY <1>2, <1>3 DEF SyncInv, Replica, Reflects, Continuous, outboxes
<1>8. Fits(d, answer[d])'
  BY <1>3, <1>5, NothingFitsNext DEF outboxes
<1> QED
  BY <1>2, <1>5, <1>6, <1>7, <1>8, LocalStep

\* A snapshot that is installed holds what the replica had.
LEMMA InstallNext ==
    ASSUME SyncAssumption, SyncInv, NEW d \in Devices, Install(d)
    PROVE  SyncInv' /\ \A e \in Devices : Continuous(e) => have[e] \subseteq have'[e]
<1> USE SyncAssumption DEF SyncAssumption
<1> DEFINE D == [state : {"none", "downloading", "ready"}, token : Nat,
                 gen : Nat, next : 0..Chunks, line : 0..cursor, snap : SUBSET final]
<1>1. /\ have \in [Devices -> SUBSET final] /\ mark \in [Devices -> [seq : 0..cursor, gen : Nat]]
      /\ pend \in [Devices -> BOOLEAN] /\ need \in [Devices -> BOOLEAN]
      /\ rec \in [Devices -> D] /\ cursor \in Nat
  BY DEF SyncInv, TypeOK
<1>2. Replica(d) /\ Fits(d, answer[d]) /\ answer[d].kind = "none" /\ rec[d].state # "none"
  BY DEF SyncInv, Install, Waits
<1>3. /\ have'[d] = rec[d].snap /\ mark'[d].seq = rec[d].line /\ mark'[d].gen = rec[d].gen
      /\ rec'[d] = NoRecovery
      /\ UNCHANGED <<server, wire, mishaps>>
      /\ \A e \in Devices \ {d} : have'[e] = have[e] /\ mark'[e] = mark[e] /\ rec'[e] = rec[e]
  BY <1>1 DEF Install
<1>4. UNCHANGED <<reg, tokens, floor, outboxes, answer, late>>
  BY <1>3 DEF server, registry, wire
<1>5. NoRecovery \in D /\ NoRecovery.state = "none" /\ NoRecovery.token = 0
  BY <1>1 DEF NoRecovery
<1>6. TypeOK'
  <2>1. /\ rec[d].snap \in SUBSET final
        /\ [seq |-> rec[d].line, gen |-> rec[d].gen] \in [seq : 0..cursor, gen : Nat]
    BY <1>1
  <2>2. have' \in [Devices -> SUBSET final] /\ mark' \in [Devices -> [seq : 0..cursor, gen : Nat]]
        /\ rec' \in [Devices -> D]
    BY <1>1, <1>5, <2>1 DEF Install
  <2>3. pend' \in [Devices -> BOOLEAN] /\ need' \in [Devices -> BOOLEAN]
    BY <1>1 DEF Install
  <2> QED
    BY <1>3, <1>4, <2>2, <2>3 DEF SyncInv, TypeOK, outboxes
<1>7. Replica(d)'
  BY <1>2, <1>3, <1>4, <1>5, Typing DEF Replica, Reflects, Continuous, outboxes
<1>8. Fits(d, answer[d])'
  BY <1>2, <1>4 DEF Fits, outboxes, Seqs
<1>9. Continuous(d) => have[d] \subseteq have'[d]
  BY <1>2, <1>3 DEF Replica
<1>10. SyncInv'
  BY <1>3, <1>4, <1>6, <1>7, <1>8, <1>9, LocalStep
<1> QED
  BY <1>3, <1>9, <1>10

----------------------------------------------------------------------------
(* Writes and retention *)

\* What a write or a prune leaves of the replicas, the answers and the requests
\* under way, as long as no published write appears below the cursor.
LEMMA KeptBeyondCursor ==
    ASSUME SyncInv, UNCHANGED <<local, wire>>, UNCHANGED <<reg, tokens>>,
           cursor' \in Nat, cursor <= cursor', final \subseteq final', reused => reused',
           ~reused' => \A n \in final' : n \in final \/ cursor < n
    PROVE  /\ \A d \in Devices : Replica(d)' /\ Fits(d, answer[d])'
           /\ \A r \in late : Pending(r)'
<1> USE DEF local, wire, SyncInv
<1>1. Seqs \subseteq Seqs' /\ \A s \in Seqs : s \in Nat /\ s <= cursor
  BY Typing DEF Seqs
<1>2. \A n \in final : n \in Nat
  BY DEF TypeOK
<1>3. \A s \in Seqs : ~reused' => \A n \in final' : n <= s => n \in final
  <2> SUFFICES ASSUME NEW s \in Seqs, ~reused', NEW n \in final', n <= s, n \notin final
               PROVE  FALSE
    OBVIOUS
  <2>1. cursor < n /\ s <= cursor /\ s \in Nat /\ cursor \in Nat
    BY <1>1, Typing
  <2>2. CASE n \in Int
    BY <2>1, <2>2
  <2> QED
    BY <2>1, <2>2 DEF TypeOK
<1>4. ASSUME NEW d \in Devices
      PROVE  Replica(d)'
  <2>1. Replica(d) /\ mark[d].seq \in Seqs /\ rec[d].line \in Seqs /\ reg[d].ack \in Seqs
    BY Typing
  <2> QED
    BY <1>3, <2>1 DEF Replica, Reflects, Continuous
<1>5. ASSUME NEW d \in Devices
      PROVE  Fits(d, answer[d])'
  BY <1>1, <1>3 DEF Fits, Reflects, Continuous
<1>6. ASSUME NEW r \in late
      PROVE  Pending(r)'
  BY <1>1, <1>3 DEF Pending, Request, Reflects, Continuous
<1> QED
  BY <1>4, <1>5, <1>6

\* A write takes the id after the cursor, unless that id is a second one.
LEMMA WriteNext ==
    ASSUME SyncAssumption, SyncInv, NEW published \in BOOLEAN, Write(published),
           UNCHANGED <<local, wire, mishaps>>
    PROVE  SyncInv'
<1> USE SyncAssumption DEF SyncAssumption
<1>1. /\ NextId \in Nat \ {0} /\ NextId <= cursor + 1
      /\ cursor \in Nat /\ written \in Nat /\ written < MaxWrites /\ final \subseteq 1..written
      /\ ledger \in [Ids -> 0..MaxWrites] /\ floor \in 0..cursor
  BY NextIdIsNew, Typing DEF SyncInv, TypeOK, Write
<1>2. /\ written' = written + 1 /\ cursor' = IF NextId > cursor THEN NextId ELSE cursor
      /\ (reused => reused') /\ (~reused' => ~reused /\ ~(NextId <= cursor))
      /\ \/ ledger' = [ledger EXCEPT ![NextId] = written + 1] /\ final' = final \cup {written + 1}
         \/ ledger' = ledger /\ final' = final
      /\ UNCHANGED <<floor, reg, tokens>> /\ reused' \in BOOLEAN
  <2>1. reused' = (reused \/ NextId <= cursor)
    BY DEF Write
  <2>2. (reused => reused') /\ (~reused' => ~reused /\ ~(NextId <= cursor))
    BY <2>1
  <2>3. reused' \in BOOLEAN
    BY <2>1
  <2> QED
    BY <2>2, <2>3 DEF Write, registry
<1>3. \A n \in final' : n \in Nat /\ n \in 1..written'
  <2>1. \A n \in final : n \in Nat /\ 1 <= n /\ n <= written
    BY <1>1
  <2>2. written \in Nat /\ written' = written + 1
    BY <1>1, <1>2
  <2>3. \A n \in final' : n \in final \/ n = written'
    BY <1>2
  <2>4. ASSUME NEW n \in final'
        PROVE  n \in Nat /\ 1 <= n /\ n <= written'
    <3>1. CASE n \in final
      BY <2>1, <2>2, <3>1
    <3>2. CASE n = written'
      BY <2>2, <3>2
    <3> QED
      BY <2>3, <3>1, <3>2
  <2> QED
    BY <2>2, <2>4
<1>4. cursor' \in Nat /\ cursor <= cursor' /\ final \subseteq final' /\ (reused => reused')
      /\ NextId <= cursor'
  <2>1. CASE NextId > cursor
    BY <1>1, <1>2, <2>1
  <2>2. CASE ~(NextId > cursor)
    BY <1>1, <1>2, <2>2
  <2> QED
    BY <2>1, <2>2
<1>5. ~reused' => /\ NextId = cursor + 1 /\ cursor = written /\ cursor' = written'
                  /\ NextId = written + 1
  <2> SUFFICES ASSUME ~reused'
               PROVE  /\ NextId = cursor + 1 /\ cursor = written /\ cursor' = written'
                      /\ NextId = written + 1
    OBVIOUS
  <2>1. ~reused /\ ~(NextId <= cursor)
    BY <1>2
  <2>2. cursor = written
    BY <2>1 DEF SyncInv, Ordered
  <2>3. NextId = cursor + 1
    BY <1>1, <2>1
  <2>4. cursor' = NextId
    BY <1>1, <1>2, <2>3
  <2> QED
    BY <1>2, <2>2, <2>3, <2>4
<1>6. ~reused' => \A n \in final' : n \in final \/ cursor < n
  BY <1>1, <1>2, <1>5
<1>7. /\ \A d \in Devices : Replica(d)' /\ Fits(d, answer[d])'
      /\ \A r \in late : Pending(r)'
  BY <1>2, <1>4, <1>6, KeptBeyondCursor
<1>8. ASSUME NEW d \in Devices
      PROVE  Pinned(d)'
  <2>1. Pinned(d) /\ reg[d].line \in 0..cursor
    BY Typing DEF SyncInv, Seqs
  <2>2. ~reused' /\ reg[d].token # 0 =>
           \A n \in final' : n <= reg[d].line => n \in reg[d].snap
    <3> SUFFICES ASSUME ~reused', reg[d].token # 0, NEW n \in final', n <= reg[d].line
                 PROVE  n \in reg[d].snap
      OBVIOUS
    <3>1. ~reused /\ (n \in final \/ cursor < n)
      BY <1>2, <1>6
    <3>2. n \in Nat
      BY <1>3
    <3>3. n \in final
      BY <1>1, <2>1, <3>1, <3>2
    <3> QED
      BY <2>1, <3>1, <3>3 DEF Pinned, Reflects
  <2> QED
    BY <1>2, <2>1, <2>2 DEF Pinned, Reflects
<1>9. Ordered'
  <2>1. ASSUME NEW id \in Ids, ledger'[id] # 0
        PROVE  id <= cursor' /\ ledger'[id] \in final'
    <3>1. id \in Nat
      BY DEF Ids
    <3>2. CASE ledger'[id] = ledger[id]
      BY <1>1, <1>4, <2>1, <3>1, <3>2 DEF SyncInv, Ordered
    <3>3. CASE id = NextId /\ ledger'[id] = written + 1 /\ final' = final \cup {written + 1}
      BY <1>4, <3>3
    <3> QED
      BY <1>1, <1>2, <3>2, <3>3
  <2>2. ASSUME ~reused'
        PROVE  /\ cursor' = written'
               /\ \A id \in Ids : ledger'[id] \in {0, id}
               /\ \A n \in final' : ledger'[n] = n \/ n <= floor
    <3>1. NextId \in Ids /\ NextId = written + 1 /\ ~reused
      <4>1. NextId = written + 1 /\ ~reused
        BY <1>2, <1>5, <2>2
      <4> QED
        BY <1>1, <4>1 DEF Ids
    <3>2. \A id \in Ids : ledger[id] \in {0, id}
      BY <3>1 DEF SyncInv, Ordered
    <3>3. \A n \in final : n \in Ids /\ n # NextId /\ (ledger[n] = n \/ n <= floor)
      BY <1>1, <3>1 DEF SyncInv, Ordered, Ids
    <3>4. CASE /\ ledger' = [ledger EXCEPT ![NextId] = written + 1]
               /\ final' = final \cup {written + 1}
      BY <1>1, <1>5, <2>2, <3>1, <3>2, <3>3, <3>4
    <3>5. CASE ledger' = ledger /\ final' = final
      BY <1>5, <2>2, <3>2, <3>3, <3>5
    <3> QED
      BY <1>2, <3>4, <3>5
  <2> QED
    BY <1>2, <2>1, <2>2 DEF Ordered
<1>10. TypeOK'
  <2>1. /\ ledger' \in [Ids -> 0..MaxWrites] /\ cursor' \in Nat /\ floor' \in 0..cursor'
        /\ written' \in 0..MaxWrites /\ final' \subseteq 1..written' /\ reused' \in BOOLEAN
    <3>1. written + 1 \in 0..MaxWrites /\ final' \subseteq 1..written'
      BY <1>1, <1>2, <1>3
    <3>2. ledger' \in [Ids -> 0..MaxWrites]
      BY <1>1, <1>2, <3>1
    <3>3. cursor' \in Nat /\ floor' \in 0..cursor'
      BY <1>1, <1>2, <1>4
    <3> QED
      BY <1>2, <3>1, <3>2, <3>3
  <2>2. 0..cursor \subseteq 0..cursor' /\ SUBSET final \subseteq SUBSET final'
    BY <1>1, <1>4
  <2>3. reg' \in [Devices -> [known : BOOLEAN, ack : 0..cursor', needs : BOOLEAN,
                            gen : Nat, expired : BOOLEAN, token : Nat,
                            line : 0..cursor', snap : SUBSET final',
                            done : BOOLEAN, stale : BOOLEAN]]
    <3> HIDE DEF SyncAssumption
    <3> DEFINE N == 0..cursor
               M == 0..cursor'
               A == SUBSET final
               B == SUBSET final'
    <3>1. N \subseteq M /\ A \subseteq B
      BY <2>2
    <3>2. reg \in [Devices -> [known : BOOLEAN, ack : N, needs : BOOLEAN,
                            gen : Nat, expired : BOOLEAN, token : Nat,
                            line : N, snap : A, done : BOOLEAN, stale : BOOLEAN]]
      BY DEF SyncInv, TypeOK
    <3> HIDE DEF N, M, A, B
    <3>3. reg \in [Devices -> [known : BOOLEAN, ack : M, needs : BOOLEAN,
                            gen : Nat, expired : BOOLEAN, token : Nat,
                            line : M, snap : B, done : BOOLEAN, stale : BOOLEAN]]
      BY <3>1, <3>2
    <3> QED
      BY <1>2, <3>3 DEF M, B
  <2>4. /\ have' \in [Devices -> SUBSET final']
        /\ mark' \in [Devices -> [seq : 0..cursor', gen : Nat]]
    BY <2>2 DEF SyncInv, TypeOK, local
  <2>5. rec' \in [Devices -> [state : {"none", "downloading", "ready"}, token : Nat,
                            gen : Nat, next : 0..Chunks, line : 0..cursor',
                            snap : SUBSET final']]
    BY <2>2 DEF SyncInv, TypeOK, local
  <2>6. /\ tokens' \in [Devices -> Nat]
        /\ pend' \in [Devices -> BOOLEAN] /\ need' \in [Devices -> BOOLEAN]
        /\ answer' \in [Devices -> Messages] /\ late' \subseteq Messages
        /\ mishaps' \in 0..MaxMishaps
    BY <1>2 DEF SyncInv, TypeOK, local, wire
  <2> QED
    BY <2>1, <2>3, <2>4, <2>5, <2>6 DEF TypeOK
<1> QED
  BY <1>7, <1>8, <1>9, <1>10 DEF SyncInv, wire

\* Pruning up to the smallest pin leaves every active device and every snapshot
\* that is being downloaded above the new floor.
LEMMA PruneNext ==
    ASSUME SyncAssumption, SyncInv, Prune, UNCHANGED <<local, wire, mishaps>>
    PROVE  SyncInv'
<1> DEFINE swept == [d \in Devices |->
                       DeleteExpired(CollectExpired(ExpireInactive(reg[d])))]
<1>1. reg' = swept /\ UNCHANGED <<cursor, written, final, reused, tokens>>
  BY DEF Prune
<1>2. ASSUME NEW d \in Devices
      PROVE  swept[d] \in Entry /\ Reduced(swept[d], reg[d])
  <2>1. reg[d] \in Entry /\ 0 \in Seqs
    BY Typing DEF ServerTypes
  <2>2. ExpireInactive(reg[d]) \in Entry /\ Reduced(ExpireInactive(reg[d]), reg[d])
    BY <2>1, ExpireReduces
  <2>3. PICK R \in Entry : Reduced(R, reg[d]) /\ R = CollectExpired(ExpireInactive(reg[d]))
    BY <2>1, <2>2, CollectReduces, ReducedTwice
  <2> QED
    BY <2>1, <2>3, DeleteReduces, ReducedTwice
<1>3. \A d \in Devices : Change(d) /\ Reduced(reg'[d], reg[d])
  BY <1>1, <1>2 DEF Change
<1>4. reg' \in [Devices -> Entry]
  BY <1>1, <1>2
<1>5. \A d \in Devices : /\ reg'[d].needs \in BOOLEAN /\ reg'[d].token \in Nat
                         /\ reg'[d].ack \in Seqs /\ reg'[d].line \in Seqs
                         /\ reg'[d].gen \in Nat /\ reg'[d].known \in BOOLEAN
  BY <1>4 DEF Entry
<1>6. cursor \in Nat /\ floor \in 0..cursor /\ ledger \in [Ids -> 0..MaxWrites]
  BY DEF SyncInv, TypeOK
<1>7. \A d \in Devices :
         /\ ~reg'[d].needs => reg'[d].known /\ floor <= reg'[d].ack
         /\ reg'[d].token # 0 => floor <= reg'[d].line /\ Reflects(reg'[d].snap, reg'[d].line)
  BY <1>3, Typing DEF SyncInv, Pinned, Reduced
<1>8. \A d \in Devices : reg'[d].gen <= tokens[d]
  BY <1>3, Typing DEF SyncInv, Pinned, Reduced
<1>9. PICK line \in Nat :
         /\ floor' = line /\ floor <= line /\ line <= cursor
         /\ \A d \in Devices : /\ ~reg'[d].needs => line <= reg'[d].ack
                               /\ reg'[d].token # 0 => line <= reg'[d].line
         /\ \/ ledger' = ledger /\ line = floor
            \/ ledger' = [id \in Ids |-> IF id <= line THEN 0 ELSE ledger[id]]
  <2>1. CASE UNCHANGED <<ledger, floor>>
    BY <1>6, <1>7, <2>1
  <2>2. ASSUME NEW safe \in Pins(reg'), \A x \in Pins(reg') : safe <= x, safe <= cursor,
               floor' = (IF safe > floor THEN safe ELSE floor),
               ledger' = [id \in Ids |-> IF id <= floor' THEN 0 ELSE ledger[id]]
        PROVE  \E line \in Nat :
                  /\ floor' = line /\ floor <= line /\ line <= cursor
                  /\ \A d \in Devices : /\ ~reg'[d].needs => line <= reg'[d].ack
                                        /\ reg'[d].token # 0 => line <= reg'[d].line
                  /\ \/ ledger' = ledger /\ line = floor
                     \/ ledger' = [id \in Ids |-> IF id <= line THEN 0 ELSE ledger[id]]
    <3>1. safe \in Nat
      BY <1>5, <1>6, <2>2 DEF Pins, Seqs
    <3>2. \A d \in Devices : /\ ~reg'[d].needs => safe <= reg'[d].ack
                             /\ reg'[d].token # 0 => safe <= reg'[d].line
      BY <1>7, <2>2 DEF Pins
    <3>3. floor' \in Nat /\ floor <= floor' /\ floor' <= cursor
      BY <1>6, <2>2, <3>1
    <3>4. \A d \in Devices : /\ ~reg'[d].needs => floor' <= reg'[d].ack
                             /\ reg'[d].token # 0 => floor' <= reg'[d].line
      BY <1>7, <2>2, <3>2
    <3> QED
      BY <2>2, <3>3, <3>4
  <2>3. CASE Pins(swept) = {}
    BY <2>1, <2>3 DEF Prune
  <2>4. CASE Pins(swept) # {}
    <3>1. PICK safe \in Pins(swept) :
             /\ \A x \in Pins(swept) : safe <= x
             /\ IF safe > cursor
                THEN UNCHANGED <<ledger, floor>>
                ELSE LET line == IF safe > floor THEN safe ELSE floor
                     IN  /\ floor' = line
                         /\ ledger' = [id \in Ids |-> IF id <= line THEN 0 ELSE ledger[id]]
      BY <2>4 DEF Prune
    <3>2. safe \in Nat
      BY <1>1, <1>5, <1>6 DEF Pins, Seqs
    <3>3. CASE safe > cursor
      BY <2>1, <3>1, <3>3
    <3>4. CASE ~(safe > cursor)
      <4>1. safe <= cursor
        BY <1>6, <3>2, <3>4
      <4> HIDE DEF swept
      <4> QED
        BY <1>1, <2>2, <3>1, <3>4, <4>1
    <3> QED
      BY <3>3, <3>4
  <2> QED
    BY <2>3, <2>4
<1> HIDE DEF swept
<1>10. \A d \in Devices : Pinned(d)'
  BY <1>1, <1>7, <1>8, <1>9 DEF Pinned, Reflects
<1>11. /\ \A d \in Devices : Replica(d)'
       /\ \A d \in Devices : Fits(d, answer[d])'
       /\ \A r \in late : Pending(r)'
  <2>1. ASSUME NEW d \in Devices
        PROVE  Replica(d)'
    BY <1>1, <1>3, <1>5, ContinuousBefore, Typing DEF SyncInv, Replica, Reflects, Reduced, local
  <2>2. ASSUME NEW d \in Devices
        PROVE  Fits(d, answer[d])'
    BY <1>1, <1>3, <1>5, ContinuousBefore, Typing
    DEF SyncInv, Fits, Reflects, Reduced, Seqs, local, wire, Messages
  <2>3. ASSUME NEW r \in late
        PROVE  Pending(r)'
    BY <1>1, <1>3, ContinuousBefore DEF SyncInv, Pending, Request, Reflects, Seqs, local
  <2> QED
    BY <2>1, <2>2, <2>3
<1>12. Ordered'
  <2>1. \A id \in Ids : ledger'[id] = ledger[id] \/ (ledger'[id] = 0 /\ id <= floor')
    BY <1>6, <1>9
  <2>2. \A n \in final : n \in Ids
    BY DEF SyncInv, TypeOK, Ids
  <2>3. \A n \in Ids : n \in Nat /\ (n <= floor => n <= floor')
    BY <1>6, <1>9 DEF Ids
  <2> QED
    BY <1>1, <2>1, <2>2, <2>3 DEF SyncInv, Ordered
<1>13. TypeOK'
  <2>1. ledger' \in [Ids -> 0..MaxWrites]
    BY <1>6, <1>9 DEF SyncAssumption
  <2>2. floor' \in 0..cursor
    BY <1>6, <1>9
  <2>3. reg' \in [Devices -> [known : BOOLEAN, ack : 0..cursor, needs : BOOLEAN,
                            gen : Nat, expired : BOOLEAN, token : Nat,
                            line : 0..cursor, snap : SUBSET final,
                            done : BOOLEAN, stale : BOOLEAN]]
    BY <1>4 DEF Entry, Seqs
  <2> QED
    BY <1>1, <2>1, <2>2, <2>3 DEF SyncInv, TypeOK, local, wire, Messages
<1> QED
  BY <1>10, <1>11, <1>12, <1>13 DEF SyncInv, wire

----------------------------------------------------------------------------
(* The theorems *)

\* Nobody is registered and nothing is written.
LEMMA SyncInit == ASSUME SyncAssumption, Init PROVE SyncInv
<1> USE SyncAssumption DEF SyncAssumption, Init, ServerInit
<1>1. /\ cursor = 0 /\ floor = 0 /\ written = 0 /\ final = {} /\ tokens = [d \in Devices |-> 0]
      /\ late = {} /\ ledger = [id \in Ids |-> 0] /\ reused = FALSE
  OBVIOUS
<1>2. ASSUME NEW d \in Devices
      PROVE  /\ reg[d] = Unregistered /\ have[d] = {} /\ mark[d] = NoMark
             /\ rec[d] = NoRecovery /\ answer[d] = Nothing(d)
  OBVIOUS
<1>3. 0 \in 0..0 /\ 0 \in 0..Chunks /\ 0 \in 0..MaxWrites
  OBVIOUS
<1>4. TypeOK
  <2>1. /\ ledger \in [Ids -> 0..MaxWrites] /\ cursor \in Nat /\ floor \in 0..cursor
        /\ written \in 0..MaxWrites /\ final \subseteq 1..written /\ reused \in BOOLEAN
    <3>1. cursor \in Nat /\ floor \in 0..cursor /\ written \in 0..MaxWrites
      BY <1>1, <1>3
    <3>2. ledger \in [Ids -> 0..MaxWrites] /\ final \subseteq 1..written /\ reused \in BOOLEAN
      BY <1>1, <1>3
    <3> QED
      BY <3>1, <3>2
  <2>2. Unregistered \in [known : BOOLEAN, ack : 0..cursor, needs : BOOLEAN, gen : Nat,
                          expired : BOOLEAN, token : Nat, line : 0..cursor,
                          snap : SUBSET final, done : BOOLEAN, stale : BOOLEAN]
    BY <1>1, <1>3 DEF Unregistered
  <2>3. NoRecovery \in [state : {"none", "downloading", "ready"}, token : Nat, gen : Nat,
                        next : 0..Chunks, line : 0..cursor, snap : SUBSET final]
    BY <1>1, <1>3 DEF NoRecovery
  <2>4. NoMark \in [seq : 0..cursor, gen : Nat]
    BY <1>1, <1>3 DEF NoMark
  <2>5. \A d \in Devices : Nothing(d) \in Messages
    BY DEF Nothing, Message, Messages
  <2>6. answer \in [Devices -> Messages] /\ late \subseteq Messages
    BY <2>5
  <2>7. /\ reg \in [Devices -> [known : BOOLEAN, ack : 0..cursor, needs : BOOLEAN, gen : Nat,
                          expired : BOOLEAN, token : Nat, line : 0..cursor,
                          snap : SUBSET final, done : BOOLEAN, stale : BOOLEAN]]
        /\ rec \in [Devices -> [state : {"none", "downloading", "ready"}, token : Nat, gen : Nat,
                        next : 0..Chunks, line : 0..cursor, snap : SUBSET final]]
        /\ mark \in [Devices -> [seq : 0..cursor, gen : Nat]]
    BY <2>2, <2>3, <2>4
  <2>8. /\ have \in [Devices -> SUBSET final] /\ tokens \in [Devices -> Nat]
        /\ pend \in [Devices -> BOOLEAN] /\ need \in [Devices -> BOOLEAN]
        /\ mishaps \in 0..MaxMishaps
    BY <1>1, MishapAssumption DEF MishapAssumption
  <2> QED
    BY <2>1, <2>6, <2>7, <2>8 DEF TypeOK
<1>5. Ordered
  BY <1>1 DEF Ordered
<1>6. ASSUME NEW d \in Devices
      PROVE  Pinned(d) /\ Replica(d) /\ Fits(d, answer[d])
  <2>1. tokens[d] = 0 /\ reg[d].gen = 0 /\ reg[d].needs /\ reg[d].token = 0
    BY <1>2 DEF Unregistered
  <2>2. mark[d].seq = 0 /\ mark[d].gen = 0 /\ rec[d].state = "none" /\ rec[d].token = 0
    BY <1>2 DEF NoMark, NoRecovery
  <2>3. /\ answer[d].kind = "none" /\ answer[d].seq = 0 /\ answer[d].got = {}
        /\ answer[d].next = 0
    BY <1>2 DEF Nothing, Message
  <2> QED
    BY <1>1, <1>3, <2>1, <2>2, <2>3 DEF Pinned, Replica, Fits, Reflects, Seqs
<1> QED
  BY <1>1, <1>4, <1>5, <1>6 DEF SyncInv

\* Every step keeps the invariant, and no step takes a write from a replica.
LEMMA SyncNext ==
    ASSUME SyncAssumption, SyncInv, [Next]_vars
    PROVE  SyncInv' /\ \A d \in Devices : Continuous(d) => have[d] \subseteq have'[d]
<1>1. ASSUME NEW d \in Devices, ReceiveEvents(d) \/ Install(d)
      PROVE  SyncInv' /\ \A e \in Devices : Continuous(e) => have[e] \subseteq have'[e]
  BY <1>1, ReceiveEventsNext, InstallNext
<1>2. CASE ServerStep
  BY <1>2, WriteNext, PruneNext DEF ServerStep, local
<1>3. ASSUME NEW d \in Devices, Ask(d) \/ AskFull(d)
      PROVE  SyncInv' /\ have' = have
  BY <1>3, AskNext DEF Ask, AskFull, local
<1>4. ASSUME NEW d \in Devices, ReceiveAck(d) \/ ReceiveExpired(d)
      PROVE  SyncInv' /\ have' = have
  BY <1>4, ReceiveVerdictNext DEF ReceiveAck, ReceiveExpired
<1>5. ASSUME NEW d \in Devices, ReceivePage(d)
      PROVE  SyncInv' /\ have' = have
  BY <1>5, ReceivePageNext DEF ReceivePage
<1>6. ASSUME NEW d \in Devices, GiveUp(d) \/ LoseAnswer(d)
      PROVE  SyncInv' /\ have' = have
  BY <1>6, WireNext DEF GiveUp, LoseAnswer, local
<1>7. ASSUME NEW d \in Devices, Expire(d)
      PROVE  SyncInv' /\ have' = have
  BY <1>7, ExpireNext DEF Expire, local
<1>8. ASSUME NEW r \in late, ServeLate(r)
      PROVE  SyncInv' /\ have' = have
  BY <1>8, ServeLateNext DEF ServeLate, local
<1>9. CASE UNCHANGED vars
  BY <1>9 DEF vars, server, outboxes, registry, local, wire, SyncInv, TypeOK, Ordered, Pinned,
              Replica, Fits, Pending, Request, Reflects, Continuous, Seqs, Messages
<1> QED
  BY <1>1, <1>2, <1>3, <1>4, <1>5, <1>6, <1>7, <1>8, <1>9 DEF Next, DeviceStep

\* The inductive invariant holds in every reachable state.
THEOREM Invariance == Spec => []SyncInv
<1>1. Init => SyncInv
  BY SyncAssumption, SyncInit
<1>2. SyncInv /\ [Next]_vars => SyncInv'
  BY SyncAssumption, SyncNext
<1> QED
  BY <1>1, <1>2, PTL DEF Spec

\* Every variable keeps its type, through late requests and expiries.
THEOREM TypeCorrect == Spec => []TypeOK
<1>1. SyncInv => TypeOK
  BY DEF SyncInv
<1> QED
  BY <1>1, Invariance, PTL

\* SyncProtocol.pull: a write that a replica lacks is above its cursor, and a
\* cursor that is accepted is at or above the floor, so that its row is there.
LEMMA AcceptedHidesNothing ==
    ASSUME SyncAssumption, SyncInv, ~reused, NEW d \in Devices, Served(d)
    PROVE  Missed(d) = {}
<1>1. floor <= mark[d].seq
  BY DEF Served, AcceptsCursor
<1>2. /\ \A n \in final : ledger[n] = n \/ n <= floor
      /\ \A n \in final : n <= mark[d].seq => n \in have[d]
  BY DEF SyncInv, Ordered, Replica, Reflects
<1>3. cursor \in Nat /\ floor \in Nat /\ mark[d].seq \in Nat
  BY Typing DEF Seqs
<1>4. ASSUME NEW n \in final, n \notin have[d]
      PROVE  \E id \in Above(mark[d].seq) : ledger[id] = n
  <2>1. n \in Ids /\ n \in Nat /\ n # 0
    BY SyncAssumption DEF SyncInv, TypeOK, Ids, SyncAssumption
  <2>2. n > mark[d].seq /\ ledger[n] = n
    BY <1>1, <1>2, <1>3, <1>4, <2>1
  <2> QED
    BY <2>1, <2>2 DEF Above, Rows
<1> QED
  BY <1>4 DEF Missed

\* A cursor that the server accepts hides no write, whatever was lost, came
\* late or expired before, as long as no id was handed out twice.
THEOREM NoWriteIsMissed == Spec => []NothingMissed
<1>1. SyncInv => NothingMissed
  BY SyncAssumption, AcceptedHidesNothing DEF NothingMissed
<1> QED
  BY <1>1, Invariance, PTL

\* minimum_safe_retention_sequence: what retention has taken away is in every
\* active replica and in every snapshot under way.
THEOREM RetentionKeepsFaith == Spec => []RetentionIsSafe
<1>1. SyncInv => RetentionIsSafe
  <2> SUFFICES ASSUME SyncInv, ~reused, NEW d \in Devices, NEW n \in final, ~Retained(n)
               PROVE  /\ Continuous(d) /\ ~reg[d].needs => n \in have[d]
                      /\ reg[d].token # 0 => n \in reg[d].snap
    BY DEF RetentionIsSafe
  <2>1. n \in Ids /\ n \in Nat
    BY SyncAssumption DEF SyncInv, TypeOK, Ids, SyncAssumption
  <2>2. n <= floor
    BY <2>1 DEF SyncInv, Ordered, Retained
  <2>3. floor \in Nat /\ reg[d].ack \in Nat /\ reg[d].line \in Nat
    BY Typing DEF Seqs
  <2>4. /\ ~reg[d].needs => n <= reg[d].ack
        /\ reg[d].token # 0 => n <= reg[d].line
    BY <2>1, <2>2, <2>3 DEF SyncInv, Pinned
  <2> QED
    BY <2>4 DEF SyncInv, Pinned, Replica, Reflects
<1> QED
  BY <1>1, Invariance, PTL

\* runFullRecovery and runPullLoopV2: a replica only grows, since generations
\* order the snapshots of a device that was never forgotten.
THEOREM ReplicasOnlyGrow == Spec => ReplicaNeverRegresses
<1>1. SyncInv /\ [Next]_vars
        => [\A d \in Devices : Continuous(d) => have[d] \subseteq have'[d]]_vars
  BY SyncAssumption, SyncNext
<1> QED
  BY <1>1, Invariance, PTL DEF ReplicaNeverRegresses, Spec

----------------------------------------------------------------------------
(* The coordinator of the active session, its evidence and its effort. *)

Statuses == {"none", "applied", "succeeded", "failed", "aborted"}
Anchors == Activations \cup Resolutions
RolesFor(c) == IF c \in Resolutions THEN {"winner", "loser"} ELSE {"candidate", "active"}
First(c) == IF c \in Resolutions THEN "winner" ELSE "candidate"

Known(c) == ops[c] # None
Done(c, role) == child[c][role] \in {"applied", "succeeded"}
BothSucceeded(c) == \A role \in RolesFor(c) : child[c][role] = "succeeded"

\* The tables of the meta database and of the Spaces.
OpsTyped ==
    /\ ops = [c \in Commands |-> ops[c]]
    /\ \A c \in Starts \cup Ends \cup Touches : Known(c) => ops[c] \in OtherRows
    /\ \A c \in Activations : Known(c) => ops[c] \in ConflictRows
    /\ \A c \in Resolutions : Known(c) => ops[c] \in ResolutionRows /\ Known(ops[c].related)

ChildTyped ==
    /\ child \in [Anchors -> [Roles -> Statuses]]
    /\ \A c \in Anchors : ~Known(c) => \A role \in Roles : child[c][role] = "none"

LocatorTyped == locator = None \/ (locator \in Locators /\ Known(locator.op))

Tabled ==
    /\ OpsTyped /\ ChildTyped /\ LocatorTyped
    /\ rows \in [Sessions -> Row \cup {Absent}]
    /\ frame = [t \in Tasks |-> frame[t]]
    /\ lease = [space \in Spaces |-> lease[space]]

\* A handler that is about to start or to end the session of the locator, or to
\* release the locator, finds it as it was when its policy looked.
Relies(f) ==
    \/ f.at = "commit" /\ f.aux.kind \in {"start", "end"}
    \/ f.at = "release"
    \/ f.at = "child_commit" /\ f.aux = "winner"

UnderLocator(f) ==
    /\ locator # None /\ locator.session = f.session
    /\ locator.op \notin Activations

\* What a handler that has compiled knows, by the lease that it holds.
Compiled(t, f) ==
    /\ f.at = "commit" =>
         /\ lease[SpaceOf[f.session]] = t
         /\ IF f.aux.kind = "start" THEN ~Exists(rows, f.session)
            ELSE /\ Exists(rows, f.session) /\ ~Is(f.session, "conflict")
                 /\ ClockAllows(f.aux.kind, rows[f.session])
    /\ f.at = "child_commit" =>
         /\ lease[SpaceOf[f.session]] = t
         /\ Exists(rows, f.session)
         /\ f.cmd \in Resolutions => CanResolve(f.session)
         /\ child[f.cmd][f.aux] = "none"
    /\ f.at = "release" => Ended(f.session)

\* What the step of a handler is about.
OfSpace(f) ==
    f.at \in {"compile", "commit", "rotate", "release"} =>
        /\ f.session \in Sessions
        /\ f.cmd \in Starts \cup Ends \cup Touches /\ Known(f.cmd)
        /\ f.aux.kind \in SpaceKinds \cup {"start", "end"}
OfChild(f) ==
    f.at \in {"child", "child_commit"} =>
        /\ f.cmd \in Anchors /\ Known(f.cmd) /\ f.aux \in RolesFor(f.cmd)
        /\ f.session = Target(f.cmd, f.aux)
        /\ f.aux # First(f.cmd) => child[f.cmd][First(f.cmd)] = "succeeded"
OfAnchor(f) ==
    f.at = "anchor" => /\ f.cmd \in Resolutions
                       /\ f.aux.related \in Activations /\ Known(f.aux.related)
                       /\ f.aux.winner \in {"active", "candidate"}
OfPhase(f) ==
    /\ f.at = "await" => f.cmd \in Activations /\ Known(f.cmd) /\ BothSucceeded(f.cmd)
    /\ f.at = "proof" => f.cmd \in Resolutions /\ Known(f.cmd)
    /\ f.at \in {"transfer", "complete"} =>
         f.cmd \in Resolutions /\ Known(f.cmd) /\ BothSucceeded(f.cmd)

Labels == {"compile", "commit", "rotate", "release", "child", "child_commit", "await",
           "anchor", "proof", "transfer", "complete"}
Labelled(f) ==
    /\ f = [cmd |-> f.cmd, at |-> f.at, session |-> f.session, epoch |-> f.epoch, aux |-> f.aux]
    /\ f.at \in Labels /\ f.epoch \in 1..MaxEpoch

Placed(f) == Labelled(f) /\ OfSpace(f) /\ OfChild(f) /\ OfAnchor(f) /\ OfPhase(f)

FrameHolds(t, f) ==
    f # None => Placed(f) /\ Compiled(t, f) /\ (Relies(f) => UnderLocator(f))

FramesHold == \A t \in Tasks : \A f \in {frame[t]} : FrameHolds(t, f)

\* One handler at a time releases the locator.
OneReleases == \A t, u \in Tasks : At(t, "release") /\ At(u, "release") => t = u

\* While an activation has the locator nobody runs.
NobodyRuns ==
    locator # None /\ locator.op \in Activations =>
        \A s \in Sessions : ~(Is(s, "authoritative") /\ Live(s))

\* A session that it has marked stays marked, as no resolution is about to decide it.
MarkedStay ==
    locator # None /\ locator.op \in Activations =>
        \A role \in {"candidate", "active"} : Done(locator.op, role) =>
            /\ Is(Target(locator.op, role), "conflict")
            /\ \A t \in Tasks : At(t, "child_commit") /\ frame[t].cmd \in Resolutions
                                  => frame[t].session # Target(locator.op, role)

LosersEnded == \A c \in Resolutions : Known(c) /\ Done(c, "loser") => Ended(Target(c, "loser"))

\* The inductive invariant of the coordinator: what its handlers rely on from one
\* step to the next, and what its locator and its phases say of the sessions.
CoordinatorInv ==
    /\ Tabled /\ FramesHold /\ OneReleases /\ NobodyRuns /\ MarkedStay /\ LosersEnded
    /\ RunningUnderLocator /\ PhasesAreProven

\* An id is of one endpoint.
LEMMA Endpoints ==
    /\ \A c \in Activations : c \notin Resolutions /\ c \notin Starts \cup Ends \cup Touches
    /\ \A c \in Resolutions : c \notin Activations /\ c \notin Starts \cup Ends \cup Touches
    /\ Anchors \subseteq Commands
BY CommandAssumption DEF Anchors, Commands

\* What no step takes back.
OpsStay ==
    \A c \in Commands : Known(c) =>
        /\ ops'[c] # None
        /\ c \in Activations => /\ ops'[c].active = ops[c].active
                               /\ ops'[c].candidate = ops[c].candidate
        /\ c \in Resolutions => ops'[c].related = ops[c].related /\ ops'[c].winner = ops[c].winner

Advance ==
    /\ OpsStay
    /\ \A c \in Anchors, role \in Roles :
           child[c][role] = "succeeded" => child'[c][role] = "succeeded"
    /\ \A s \in Sessions : Ended(s) => Exists(rows', s) /\ rows'[s].clock = "ended"

\* The sides of an operation are those of its row.
SidesAsWritten(c, role) ==
    /\ c \in Activations =>
         \/ role = "active" /\ Target(c, role) = ops[c].active
         \/ role = "candidate" /\ Target(c, role) = ops[c].candidate
    /\ c \in Resolutions =>
         /\ ops[c].related \in Activations /\ Known(ops[c].related)
         /\ ops[c].winner \in {"active", "candidate"}
         /\ Target(c, role) = IF (role = "winner") = (ops[c].winner = "active")
                              THEN ops[ops[c].related].active
                              ELSE ops[ops[c].related].candidate

LEMMA SidesOf ==
    \A c \in Anchors : \A role \in RolesFor(c) :
        OpsTyped /\ Known(c) => SidesAsWritten(c, role)
<1> SUFFICES ASSUME NEW c \in Anchors, NEW role \in RolesFor(c), OpsTyped, Known(c)
             PROVE  SidesAsWritten(c, role)
  OBVIOUS
<1>1. CASE c \in Activations
  <2>1. c \notin Resolutions /\ role \in {"candidate", "active"}
    BY <1>1, Endpoints DEF RolesFor
  <2>2. Target(c, role) = ops[c][role]  BY <2>1 DEF Target, Sides
  <2> QED  BY <1>1, <2>1, <2>2 DEF SidesAsWritten
<1>2. CASE c \in Resolutions
  <2>1. /\ ops[c].related \in Activations /\ Known(ops[c].related)
        /\ ops[c].winner \in {"active", "candidate"}
    BY <1>2 DEF OpsTyped, ResolutionRows
  <2>2. role \in {"winner", "loser"}  BY <1>2 DEF RolesFor
  <2>3. Sides(c) = ops[ops[c].related]  BY <1>2 DEF Sides
  <2>4. CASE role = "winner"
    <3>1. Target(c, role) = ops[ops[c].related][ops[c].winner]  BY <2>3, <2>4 DEF Target
    <3> QED  BY <1>2, <2>1, <2>4, <3>1, Endpoints DEF SidesAsWritten
  <2>5. CASE role = "loser"
    <3>1. Target(c, role)
            = ops[ops[c].related][IF ops[c].winner = "active" THEN "candidate" ELSE "active"]
      BY <2>3, <2>5 DEF Target
    <3> QED  BY <1>2, <2>1, <2>5, <3>1, Endpoints DEF SidesAsWritten
  <2> QED  BY <2>2, <2>4, <2>5
<1> QED  BY <1>1, <1>2 DEF Anchors

LEMMA SidesOfLater ==
    (\A c \in Anchors : \A role \in RolesFor(c) : OpsTyped /\ Known(c) => SidesAsWritten(c, role))'
BY SidesOf, PTL

LEMMA SidesAreSessions ==
    ASSUME OpsTyped, NEW c \in Anchors, Known(c), NEW role \in RolesFor(c)
    PROVE  Target(c, role) \in Sessions
<1>1. \A b \in Activations : Known(b) => ops[b].active \in Sessions /\ ops[b].candidate \in Sessions
  BY DEF OpsTyped, ConflictRows
<1> QED  BY <1>1, SidesOf DEF Anchors, SidesAsWritten

LEMMA SidesStay ==
    ASSUME OpsTyped, OpsTyped', OpsStay, NEW c \in Anchors, Known(c), NEW role \in RolesFor(c)
    PROVE  Target(c, role)' = Target(c, role)
<1>1. c \in Commands /\ Known(c)'  BY Endpoints DEF OpsStay, Known
<1>2. SidesAsWritten(c, role)'  BY <1>1, SidesOfLater
<1>0. SidesAsWritten(c, role)  BY SidesOf
<1>3. CASE c \in Activations  BY <1>0, <1>1, <1>2, <1>3 DEF OpsStay, SidesAsWritten
<1>4. CASE c \in Resolutions
  <2>1. /\ ops[c].related \in Activations /\ Known(ops[c].related)
        /\ ops'[c].related = ops[c].related /\ ops'[c].winner = ops[c].winner
    BY <1>0, <1>1, <1>4 DEF OpsStay, SidesAsWritten
  <2>2. ops[c].related \in Commands  BY <2>1 DEF Commands
  <2>3. /\ ops'[ops[c].related].active = ops[ops[c].related].active
        /\ ops'[ops[c].related].candidate = ops[ops[c].related].candidate
    BY <2>1, <2>2 DEF OpsStay
  <2> QED  BY <1>0, <1>2, <1>4, <2>1, <2>3, Endpoints DEF SidesAsWritten
<1> QED  BY <1>3, <1>4 DEF Anchors

LEMMA RolesAreRoles == \A c : RolesFor(c) \subseteq Roles /\ First(c) \in RolesFor(c)
BY DEF RolesFor, Roles, First

\* What another step leaves alone of a handler.
Undisturbed(t, f) ==
    /\ f.at \in {"commit", "child_commit"} =>
         lease'[SpaceOf[f.session]] = t /\ rows'[f.session] = rows[f.session]
    /\ f.at = "child_commit" => child'[f.cmd][f.aux] = child[f.cmd][f.aux]
    /\ Relies(f) /\ UnderLocator(f) => UnderLocator(f)'

LEMMA PlacedStays ==
    ASSUME OpsTyped, OpsTyped', Advance, NEW f, Placed(f)
    PROVE  Placed(f)'
<1>0. \A c \in Commands : Known(c) => Known(c)'  BY DEF Advance, OpsStay, Known
<1>1. \A c \in Anchors : Known(c) => Known(c)'  BY <1>0, Endpoints
<1>2. \A c \in Anchors : BothSucceeded(c) => BothSucceeded(c)'
  BY RolesAreRoles DEF Advance, BothSucceeded
<1>3. OfChild(f)'
  <2> SUFFICES ASSUME f.at \in {"child", "child_commit"}
               PROVE  /\ f.cmd \in Anchors /\ Known(f.cmd)' /\ f.aux \in RolesFor(f.cmd)
                      /\ f.session = Target(f.cmd, f.aux)'
                      /\ f.aux # First(f.cmd) => child'[f.cmd][First(f.cmd)] = "succeeded"
    BY DEF OfChild
  <2>1. /\ f.cmd \in Anchors /\ Known(f.cmd) /\ f.aux \in RolesFor(f.cmd)
        /\ f.session = Target(f.cmd, f.aux)
        /\ f.aux # First(f.cmd) => child[f.cmd][First(f.cmd)] = "succeeded"
    BY DEF Placed, OfChild
  <2>2. PICK c \in Anchors : c = f.cmd  BY <2>1
  <2>3. PICK role \in RolesFor(c) : role = f.aux  BY <2>1, <2>2
  <2>4. Target(c, role)' = Target(c, role)  BY <2>1, <2>2, <2>3, SidesStay DEF Advance
  <2>5. First(c) \in Roles  BY RolesAreRoles
  <2>6. child[c][First(c)] = "succeeded" => child'[c][First(c)] = "succeeded"
    BY <2>5 DEF Advance
  <2> QED  BY <1>1, <2>1, <2>2, <2>3, <2>4, <2>6
<1>4. OfPhase(f)'  BY <1>1, <1>2 DEF Placed, OfPhase, Anchors
<1>5. OfAnchor(f)'  BY <1>1 DEF Placed, OfAnchor, Anchors
<1>6. OfSpace(f)'  BY <1>0 DEF Placed, OfSpace, Commands
<1>7. Labelled(f)'  BY DEF Placed, Labelled
<1> QED  BY <1>3, <1>4, <1>5, <1>6, <1>7 DEF Placed

LEMMA FrameStays ==
    ASSUME OpsTyped, OpsTyped', Advance, NEW t, NEW f, FrameHolds(t, f),
           f # None => Undisturbed(t, f)
    PROVE  FrameHolds(t, f)'
<1> SUFFICES ASSUME f # None
             PROVE  Placed(f)' /\ Compiled(t, f)' /\ (Relies(f)' => UnderLocator(f)')
  BY DEF FrameHolds
<1>1. Placed(f) /\ Compiled(t, f) /\ (Relies(f) => UnderLocator(f))  BY DEF FrameHolds
<1>2. Placed(f)'  BY <1>1, PlacedStays
<1>3. Relies(f)' => UnderLocator(f)'
  <2>1. Relies(f)' => Relies(f)  BY DEF Relies
  <2> QED  BY <1>1, <2>1 DEF Undisturbed
<1>4. Compiled(t, f)'
  <2>1. f.at = "release" => Ended(f.session)'
    <3>1. f.at = "release" => f.session \in Sessions  BY <1>1 DEF Placed, OfSpace
    <3> QED  BY <1>1, <3>1 DEF Compiled, Advance, Ended
  <2>2. ASSUME f.at = "commit"
        PROVE  /\ lease'[SpaceOf[f.session]] = t
               /\ IF f.aux.kind = "start" THEN ~Exists(rows', f.session)
                  ELSE /\ Exists(rows', f.session) /\ ~Is(f.session, "conflict")'
                       /\ ClockAllows(f.aux.kind, rows'[f.session])
    <3>1. lease'[SpaceOf[f.session]] = t /\ rows'[f.session] = rows[f.session]
      BY <2>2 DEF Undisturbed
    <3> QED  BY <1>1, <2>2, <3>1 DEF Compiled, Exists, Is
  <2>3. ASSUME f.at = "child_commit"
        PROVE  /\ lease'[SpaceOf[f.session]] = t
               /\ Exists(rows', f.session)
               /\ f.cmd \in Resolutions => CanResolve(f.session)'
               /\ child'[f.cmd][f.aux] = "none"
    <3>1. /\ lease'[SpaceOf[f.session]] = t /\ rows'[f.session] = rows[f.session]
          /\ child'[f.cmd][f.aux] = child[f.cmd][f.aux]
      BY <2>3 DEF Undisturbed
    <3> QED  BY <1>1, <2>3, <3>1 DEF Compiled, Exists, CanResolve, Is, Live
  <2> QED  BY <2>1, <2>2, <2>3 DEF Compiled
<1> QED  BY <1>2, <1>3, <1>4

LEMMA Framed ==
    ASSUME FramesHold, NEW t \in Tasks, NEW f, f = frame[t]
    PROVE  FrameHolds(t, f)
BY DEF FramesHold

\* A task takes a step: what the others rely on is left alone, and it knows what it needs.
LEMMA StepOfTask ==
    ASSUME Tabled, OpsTyped', Advance, FramesHold, NEW t \in Tasks, NEW g, Go(t, g),
           FrameHolds(t, g)',
           \A u \in Tasks \ {t} : \A f : f = frame[u] /\ f # None => Undisturbed(u, f)
    PROVE  /\ FramesHold' /\ frame' = [u \in Tasks |-> frame'[u]]
           /\ frame'[t] = g /\ \A u \in Tasks \ {t} : frame'[u] = frame[u]
<1>1. frame = [u \in Tasks |-> frame[u]] /\ OpsTyped  BY DEF Tabled
<1>2. /\ frame' = [u \in Tasks |-> frame'[u]]
      /\ frame'[t] = g /\ \A u \in Tasks \ {t} : frame'[u] = frame[u]
  BY <1>1 DEF Go
<1>3. ASSUME NEW u \in Tasks, NEW f, f = frame'[u]  PROVE FrameHolds(u, f)'
  <2>1. CASE u = t  BY <1>2, <1>3, <2>1
  <2>2. CASE u # t
    <3>1. f = frame[u]  BY <1>2, <1>3, <2>2
    <3>2. FrameHolds(u, f)  BY <3>1, Framed
    <3>3. f # None => Undisturbed(u, f)  BY <2>2, <3>1
    <3> QED  BY <1>1, <3>2, <3>3, FrameStays
  <2> QED  BY <2>1, <2>2
<1> QED  BY <1>2, <1>3 DEF FramesHold


\* What the phases of the operations may do in a step.
PhasesMove ==
    /\ \A c \in Anchors : Known(c)' =>
         \/ ops'[c].phase = "claimed"
         \/ Known(c) /\ BothSucceeded(c)
         \/ Known(c) /\ ops'[c].phase = ops[c].phase
    /\ \A c \in Activations : Known(c)' /\ ops'[c].phase = "completed" =>
         \/ Known(c) /\ ops[c].phase = "completed"
         \/ \E d \in Resolutions : Known(d)' /\ ops'[d].phase = "completed" /\ ops'[d].related = c
    /\ \A d \in Resolutions :
         Known(d) /\ ops[d].phase = "completed" => ops'[d].phase = "completed"

LEMMA Phases ==
    ASSUME OpsTyped, OpsTyped', Advance, PhasesMove, LosersEnded, PhasesAreProven
    PROVE  PhasesAreProven'
<1>1. \A c \in Anchors : BothSucceeded(c) => BothSucceeded(c)'
  BY RolesAreRoles DEF Advance, BothSucceeded
<1>2. \A c \in Anchors : Known(c) => Known(c)'  BY Endpoints DEF Advance, OpsStay, Known
<1>3. \A c \in Activations : RolesFor(c) = {"candidate", "active"}
  BY Endpoints DEF RolesFor
<1>4. \A c \in Resolutions : RolesFor(c) = {"winner", "loser"}  BY DEF RolesFor
<1>5. ASSUME NEW c \in Activations, Known(c)', ops'[c].phase # "claimed"
      PROVE  \A r \in {"candidate", "active"} : child'[c][r] = "succeeded"
  <2>1. c \in Anchors  BY DEF Anchors
  <2>2. Known(c) /\ ops[c].phase # "claimed" => BothSucceeded(c)
    BY <1>3 DEF PhasesAreProven, Known, BothSucceeded
  <2>3. BothSucceeded(c)  BY <1>5, <2>1, <2>2 DEF PhasesMove
  <2>4. BothSucceeded(c)'  BY <1>1, <2>1, <2>3
  <2> QED  BY <1>3, <2>4 DEF BothSucceeded
<1>6. ASSUME NEW c \in Activations, Known(c)', ops'[c].phase = "completed"
      PROVE  \E d \in Resolutions : /\ Known(d)' /\ ops'[d].phase = "completed"
                                    /\ ops'[d].related = c
  <2>1. CASE Known(c) /\ ops[c].phase = "completed"
    <3>1. PICK d \in Resolutions : Known(d) /\ ops[d].phase = "completed" /\ ops[d].related = c
      BY <2>1 DEF PhasesAreProven, Known
    <3>2. d \in Anchors /\ d \in Commands  BY Endpoints DEF Anchors
    <3>3. Known(d)' /\ ops'[d].related = c
      BY <1>2, <3>1, <3>2 DEF Advance, OpsStay
    <3> QED  BY <3>1, <3>3 DEF PhasesMove
  <2> QED  BY <1>6, <2>1 DEF PhasesMove
<1>7. ASSUME NEW c \in Resolutions, Known(c)', ops'[c].phase # "claimed"
      PROVE  /\ \A r \in {"winner", "loser"} : child'[c][r] = "succeeded"
             /\ Ended(Target(c, "loser"))'
  <2>1. c \in Anchors  BY DEF Anchors
  <2>2. Known(c) /\ ops[c].phase # "claimed" => BothSucceeded(c)
    BY <1>4 DEF PhasesAreProven, Known, BothSucceeded
  <2>3. Known(c) /\ BothSucceeded(c)  BY <1>7, <2>1, <2>2 DEF PhasesMove
  <2>4. BothSucceeded(c)'  BY <1>1, <2>1, <2>3
  <2>5. "loser" \in RolesFor(c)  BY <1>4
  <2>6. Ended(Target(c, "loser"))
    BY <2>3, <2>5 DEF LosersEnded, Done, BothSucceeded
  <2>7. Target(c, "loser")' = Target(c, "loser")
    BY <2>1, <2>3, <2>5, SidesStay DEF Advance
  <2>8. Target(c, "loser") \in Sessions  BY <2>1, <2>3, <2>5, SidesAreSessions
  <2>9. PICK s \in Sessions : s = Target(c, "loser")  BY <2>8
  <2>10. Exists(rows', s) /\ rows'[s].clock = "ended"  BY <2>6, <2>9 DEF Advance
  <2> QED  BY <1>4, <2>4, <2>7, <2>9, <2>10 DEF BothSucceeded, Ended
<1> QED  BY <1>5, <1>6, <1>7 DEF PhasesAreProven, Known

\* How a meta transaction of a task may move the locator.
LocatorMoves(t) ==
    \/ locator' = locator
    \/ locator = None /\ locator' # None /\ ops[locator'.op] = None
    \/ /\ locator # None /\ locator' # None /\ locator'.session = locator.session
       /\ locator'.op = locator.op \/ locator'.op \notin Activations
    \/ /\ locator # None /\ locator.op \in Activations
       /\ locator' # None /\ locator'.op \notin Activations
    \/ At(t, "release") /\ locator' = None

\* Whoever is about to start, end or release the session of the locator finds it
\* there after a meta transaction of another task.
LEMMA PinsStay ==
    ASSUME CoordinatorInv, NEW t \in Tasks, LocatorMoves(t),
           NEW u \in Tasks, u # t, NEW f, f = frame[u], f # None, Relies(f), UnderLocator(f)
    PROVE  UnderLocator(f)'
<1>1. CASE ~At(t, "release") \/ locator' # None
  BY <1>1 DEF LocatorMoves, UnderLocator
<1>2. CASE At(t, "release") /\ locator' = None
  <2> DEFINE h == frame[t]
  <2>0. h # None /\ h.at = "release"  BY <1>2 DEF At
  <2>1. PICK e : e = frame[t]  OBVIOUS
  <2>2. FrameHolds(t, e) /\ FrameHolds(u, f)  BY <2>1, Framed DEF CoordinatorInv
  <2>3. e # None /\ e.at = "release"  BY <2>0, <2>1
  <2>4. Relies(e) /\ UnderLocator(e) /\ Ended(e.session)
    BY <2>2, <2>3 DEF FrameHolds, Relies, Compiled
  <2>5. f.session = e.session  BY <2>4 DEF UnderLocator
  <2>6. Compiled(u, f)  BY <2>2 DEF FrameHolds
  <2>7. f.at # "release"  BY <1>2, <2>1 DEF CoordinatorInv, OneReleases, At
  <2>8. f.at # "commit"
    <3> SUFFICES ASSUME f.at = "commit", f.aux.kind \in {"start", "end"}  PROVE FALSE
      BY DEF Relies
    <3>1. CASE f.aux.kind = "start"  BY <2>4, <2>5, <2>6, <3>1 DEF Compiled, Ended
    <3>2. CASE f.aux.kind = "end"
      BY <2>4, <2>5, <2>6, <3>2 DEF Compiled, Ended, ClockAllows
    <3> QED  BY <3>1, <3>2
  <2>9. CASE f.at = "child_commit" /\ f.aux = "winner"
    <3>1. f.cmd \in Resolutions
      BY <2>2, <2>9, Endpoints DEF FrameHolds, Placed, OfChild, RolesFor
    <3> QED  BY <2>4, <2>5, <2>6, <2>9, <3>1 DEF Compiled, CanResolve, Live, Ended
  <2> QED  BY <2>7, <2>8, <2>9 DEF Relies
<1> QED  BY <1>1, <1>2

\* A transaction of the meta database, and the step of the handler that makes it.
LEMMA MetaStep ==
    ASSUME CoordinatorInv, NEW t \in Tasks, NEW g, Go(t, g), OnlyMeta,
           OpsTyped', LocatorTyped', OpsStay, PhasesMove, LocatorMoves(t),
           FrameHolds(t, g)', g = None \/ g.at \notin {"release", "child_commit"}
    PROVE  CoordinatorInv'
<1> USE DEF CoordinatorInv
<1>1. rows' = rows /\ child' = child /\ lease' = lease  BY DEF OnlyMeta
<1>2. Advance
  <2>1. \A c \in Anchors, role \in Roles :
           child[c][role] = "succeeded" => child'[c][role] = "succeeded"
    BY <1>1
  <2>2. \A s \in Sessions : Ended(s) => Exists(rows', s) /\ rows'[s].clock = "ended"
    BY <1>1 DEF Ended
  <2> QED  BY <2>1, <2>2 DEF Advance
<1>3. ASSUME NEW u \in Tasks \ {t}, NEW f, f = frame[u], f # None  PROVE Undisturbed(u, f)
  <2>1. FrameHolds(u, f)  BY <1>3, Framed
  <2>2. Placed(f) /\ Compiled(u, f)  BY <1>3, <2>1 DEF FrameHolds
  <2>3. Relies(f) /\ UnderLocator(f) => UnderLocator(f)'  BY <1>3, PinsStay
  <2>4. f.at \in {"commit", "child_commit"} =>
           lease'[SpaceOf[f.session]] = u /\ rows'[f.session] = rows[f.session]
    BY <1>1, <2>2 DEF Compiled
  <2>5. child'[f.cmd][f.aux] = child[f.cmd][f.aux]  BY <1>1
  <2> QED  BY <2>3, <2>4, <2>5 DEF Undisturbed
<1>4. /\ FramesHold' /\ frame' = [u \in Tasks |-> frame'[u]]
      /\ frame'[t] = g /\ \A u \in Tasks \ {t} : frame'[u] = frame[u]
  BY <1>2, <1>3, StepOfTask
<1>5. ~At(t, "release")' /\ ~At(t, "child_commit")'
  BY <1>4 DEF At
<1>6. OneReleases'
  <2> SUFFICES ASSUME NEW u \in Tasks, NEW v \in Tasks, At(u, "release")', At(v, "release")'
               PROVE  u = v
    BY DEF OneReleases
  <2>1. u # t /\ v # t  BY <1>5
  <2>2. At(u, "release") /\ At(v, "release")  BY <1>4, <2>1 DEF At
  <2> QED  BY <2>2 DEF OneReleases
<1>7. Tabled'
  <2>1. ChildTyped'
    <3>1. \A c \in Anchors : ~Known(c)' => ~Known(c)  BY Endpoints DEF OpsStay, Known
    <3> QED  BY <1>1, <3>1 DEF Tabled, ChildTyped
  <2> QED  BY <1>1, <1>4, <2>1 DEF Tabled
<1>8. PhasesAreProven'  BY <1>2, Phases DEF Tabled
<1>9. \A c \in Anchors : Known(c) => Known(c)'  BY Endpoints DEF OpsStay, Known
<1>10. LosersEnded'
  <2> SUFFICES ASSUME NEW c \in Resolutions, Known(c)', Done(c, "loser")'
               PROVE  Ended(Target(c, "loser"))'
    BY DEF LosersEnded
  <2>1. c \in Anchors /\ "loser" \in RolesFor(c) /\ "loser" \in Roles
    BY DEF Anchors, RolesFor, Roles
  <2>2. Done(c, "loser")  BY <1>1 DEF Done
  <2>3. Known(c)  BY <2>1, <2>2 DEF Tabled, ChildTyped, Done
  <2>4. Ended(Target(c, "loser"))  BY <2>2, <2>3 DEF LosersEnded
  <2>5. Target(c, "loser")' = Target(c, "loser")  BY <2>1, <2>3, SidesStay DEF Tabled
  <2> QED  BY <1>1, <2>4, <2>5 DEF Ended, Exists
<1>11. \A s \in Sessions : (Is(s, "authoritative") /\ Live(s))' =>
                              Is(s, "authoritative") /\ Live(s)
  BY <1>1 DEF Is, Live, Exists
<1>12. RunningUnderLocator'
  <2> SUFFICES ASSUME NEW s \in Sessions, (Is(s, "authoritative") /\ Live(s))'
               PROVE  locator' # None /\ locator'.session = s
    BY DEF RunningUnderLocator
  <2>1. Is(s, "authoritative") /\ Live(s)  BY <1>11
  <2>2. locator # None /\ locator.session = s  BY <2>1 DEF RunningUnderLocator
  <2>3. locator.op \notin Activations  BY <2>1, <2>2 DEF NobodyRuns
  <2>4. ~At(t, "release")
    <3> SUFFICES ASSUME At(t, "release")  PROVE FALSE  OBVIOUS
    <3>1. PICK e : e = frame[t]  OBVIOUS
    <3>2. e # None /\ e.at = "release"  BY <3>1 DEF At
    <3>3. FrameHolds(t, e)  BY <3>1, Framed
    <3>4. UnderLocator(e) /\ Ended(e.session)  BY <3>2, <3>3 DEF FrameHolds, Relies, Compiled
    <3> QED  BY <2>1, <2>2, <3>4 DEF UnderLocator, Ended, Live
  <2> QED  BY <2>2, <2>3, <2>4 DEF LocatorMoves
<1>13. NobodyRuns'
  <2> SUFFICES ASSUME locator' # None, locator'.op \in Activations, NEW s \in Sessions,
                      (Is(s, "authoritative") /\ Live(s))'
               PROVE  FALSE
    BY DEF NobodyRuns
  <2>1. Is(s, "authoritative") /\ Live(s)  BY <1>11
  <2>2. locator # None  BY <2>1 DEF RunningUnderLocator
  <2>3. locator.op \notin Activations  BY <2>1, <2>2 DEF NobodyRuns
  <2> QED  BY <2>2, <2>3 DEF LocatorMoves
<1>14. MarkedStay'
  <2> SUFFICES ASSUME locator' # None, locator'.op \in Activations,
                      NEW role \in {"candidate", "active"}, Done(locator.op, role)'
               PROVE  /\ Is(Target(locator.op, role), "conflict")'
                      /\ \A u \in Tasks : At(u, "child_commit")' /\ frame'[u].cmd \in Resolutions
                            => frame'[u].session # Target(locator.op, role)'
    BY DEF MarkedStay
  <2>1. PICK c \in Activations : c = locator'.op  OBVIOUS
  <2>2. c \in Anchors /\ role \in RolesFor(c) /\ role \in Roles
    BY <2>1, Endpoints DEF Anchors, RolesFor, Roles
  <2>3. Done(c, role)  BY <1>1, <2>1 DEF Done
  <2>4. Known(c)  BY <2>2, <2>3 DEF Tabled, ChildTyped, Done
  <2>5. locator # None /\ locator.op = c
    BY <2>1, <2>4 DEF LocatorMoves, Known
  <2>6. /\ Is(Target(c, role), "conflict")
        /\ \A u \in Tasks : At(u, "child_commit") /\ frame[u].cmd \in Resolutions
                              => frame[u].session # Target(c, role)
    BY <2>3, <2>5 DEF MarkedStay
  <2>7. Target(c, role)' = Target(c, role)  BY <2>2, <2>4, SidesStay DEF Tabled
  <2>8. Target(locator.op, role)' = Target(c, role)'  BY <2>1
  <2>9. Is(Target(c, role), "conflict")'  BY <1>1, <2>6, <2>7 DEF Is, Exists
  <2>10. ASSUME NEW u \in Tasks, At(u, "child_commit")', frame'[u].cmd \in Resolutions
         PROVE  frame'[u].session # Target(c, role)'
    <3>1. u # t /\ frame'[u] = frame[u]  BY <1>4, <1>5, <2>10
    <3>2. At(u, "child_commit")  BY <2>10, <3>1 DEF At
    <3> QED  BY <2>6, <2>7, <2>10, <3>1, <3>2
  <2> QED  BY <2>1, <2>9, <2>10
<1> QED  BY <1>4, <1>6, <1>7, <1>8, <1>10, <1>12, <1>13, <1>14

\* A transaction writes the row of one operation.
LEMMA OpsWrite ==
    ASSUME OpsTyped, NEW c \in Commands, NEW row, ops' = [ops EXCEPT ![c] = row], row # None,
           c \in Starts \cup Ends \cup Touches => row \in OtherRows,
           c \in Activations => /\ row \in ConflictRows
                                /\ Known(c) => /\ row.active = ops[c].active
                                               /\ row.candidate = ops[c].candidate,
           c \in Resolutions => /\ row \in ResolutionRows /\ Known(row.related)
                                /\ Known(c) => /\ row.related = ops[c].related
                                               /\ row.winner = ops[c].winner
    PROVE  /\ OpsTyped' /\ OpsStay
           /\ ops'[c] = row /\ \A d \in Commands \ {c} : ops'[d] = ops[d]
<1>1. ops = [d \in Commands |-> ops[d]]  BY DEF OpsTyped
<1>2. /\ ops' = [d \in Commands |-> ops'[d]]
      /\ ops'[c] = row /\ \A d \in Commands \ {c} : ops'[d] = ops[d]
  BY <1>1
<1>3. Activations \subseteq Commands  BY DEF Commands
<1>4. \A d \in Commands : Known(d) => Known(d)'  BY <1>2 DEF Known
<1>5. ASSUME NEW d \in Resolutions, Known(d)'
      PROVE  ops'[d] \in ResolutionRows /\ Known(ops[d].related)'
  <2>0. d \in Commands  BY DEF Commands
  <2>1. CASE d = c
    <3>1. row \in ResolutionRows /\ Known(row.related)  BY <2>1
    <3>2. PICK r \in Commands : r = row.related  BY <1>3, <3>1 DEF ResolutionRows
    <3>3. Known(r)'  BY <1>4, <3>1, <3>2
    <3> QED  BY <1>2, <2>1, <3>1, <3>2, <3>3 DEF Known
  <2>2. CASE d # c
    <3>1. ops'[d] = ops[d] /\ Known(d)  BY <1>2, <1>5, <2>0, <2>2 DEF Known
    <3>2. ops[d] \in ResolutionRows /\ Known(ops[d].related)  BY <3>1 DEF OpsTyped
    <3>3. PICK r \in Commands : r = ops[d].related  BY <1>3, <3>2 DEF ResolutionRows
    <3>4. Known(r)'  BY <1>4, <3>2, <3>3
    <3> QED  BY <3>1, <3>2, <3>3, <3>4 DEF Known
  <2> QED  BY <2>1, <2>2
<1>6. ASSUME NEW d \in Activations, Known(d)'  PROVE ops'[d] \in ConflictRows
  BY <1>2, <1>6, <1>3 DEF Known, OpsTyped
<1>7. ASSUME NEW d \in Starts \cup Ends \cup Touches, Known(d)'  PROVE ops'[d] \in OtherRows
  <2>1. d \in Commands  BY DEF Commands
  <2> QED  BY <1>2, <1>7, <2>1 DEF Known, OpsTyped
<1>8. OpsTyped'  BY <1>2, <1>5, <1>6, <1>7 DEF OpsTyped
<1>9. OpsStay
  <2> SUFFICES ASSUME NEW d \in Commands, Known(d)
               PROVE  /\ ops'[d] # None
                      /\ d \in Activations => /\ ops'[d].active = ops[d].active
                                              /\ ops'[d].candidate = ops[d].candidate
                      /\ d \in Resolutions => /\ ops'[d].related = ops[d].related
                                              /\ ops'[d].winner = ops[d].winner
    BY DEF OpsStay
  <2>2. CASE d = c  BY <1>2, <2>2
  <2>3. CASE d # c  BY <1>2, <2>3 DEF Known
  <2> QED  BY <2>2, <2>3
<1> QED  BY <1>2, <1>8, <1>9

\* It is about no conflict and no resolution, or about a new one.
LEMMA ClaimsMove ==
    ASSUME OpsTyped, OpsStay, NEW c,
           c \in Anchors => ops[c] = None /\ ops'[c].phase = "claimed",
           \A d \in Anchors \ {c} : ops'[d] = ops[d]
    PROVE  PhasesMove
<1>1. \A d \in Anchors : Known(d)' => \/ ops'[d].phase = "claimed"
                                      \/ Known(d) /\ ops'[d].phase = ops[d].phase
  BY DEF Known
<1>2. \A d \in Resolutions : d # c => ops'[d] = ops[d]  BY DEF Anchors
<1>3. \A d \in Activations : d \in Anchors /\ (d # c => ops'[d] = ops[d])  BY DEF Anchors
<1>4. \A d \in Activations : Known(d)' /\ ops'[d].phase = "completed" =>
         Known(d) /\ ops[d].phase = "completed"
  BY <1>3 DEF Known
<1>5. \A d \in Resolutions : Known(d) /\ ops[d].phase = "completed" => ops'[d].phase = "completed"
  BY <1>2 DEF Known, Anchors
<1> QED  BY <1>1, <1>4, <1>5 DEF PhasesMove

LEMMA NoWrite ==
    ASSUME OpsTyped, LocatorTyped, UNCHANGED ops
    PROVE  OpsTyped' /\ OpsStay /\ PhasesMove /\ (UNCHANGED locator => LocatorTyped')
<1>1. OpsTyped'  BY DEF OpsTyped, Known
<1>2. OpsStay  BY DEF OpsStay, Known
<1>3. PhasesMove  BY DEF PhasesMove, Known
<1>4. UNCHANGED locator => LocatorTyped'  BY DEF LocatorTyped, Known
<1> QED  BY <1>1, <1>2, <1>3, <1>4

\* A handler on its way to its mutation has only its request to go by.
LEMMA Compiling ==
    ASSUME NEW t, NEW g, g = [cmd |-> g.cmd, at |-> g.at, session |-> g.session,
                              epoch |-> g.epoch, aux |-> g.aux],
           g.at \in {"compile", "rotate"}, g.session \in Sessions, g.epoch \in 1..MaxEpoch,
           g.cmd \in Starts \cup Ends \cup Touches, Known(g.cmd)',
           g.aux.kind \in SpaceKinds \cup {"start", "end"}
    PROVE  FrameHolds(t, g)' /\ g.at \notin {"release", "child_commit"}
<1>1. OfSpace(g)'  BY DEF OfSpace
<1>2. g.at \notin {"child", "child_commit", "anchor", "await", "proof", "transfer", "complete",
                  "commit", "release"}
  OBVIOUS
<1>3. OfChild(g)' /\ OfAnchor(g)' /\ OfPhase(g)'
  BY <1>2 DEF OfChild, OfAnchor, OfPhase
<1>4. Compiled(t, g)'  BY <1>2 DEF Compiled
<1>5. ~Relies(g)'  BY <1>2 DEF Relies
<1>6. Labelled(g)'  BY DEF Labelled, Labels
<1> QED  BY <1>1, <1>2, <1>3, <1>4, <1>5, <1>6 DEF FrameHolds, Placed

LEMMA StepClaimStart ==
    ASSUME CoordinatorInv, NEW t \in Tasks, NEW c \in Starts, NEW s \in Sessions,
           ClaimStart(t, c, s)
    PROVE  CoordinatorInv'
<1> DEFINE g == [cmd |-> c, at |-> "compile", session |-> s, epoch |-> 1,
                 aux |-> [kind |-> "start"]]
           row == [kind |-> "start", phase |-> "claimed"]
<1>1. /\ locator = None /\ ops[c] = None /\ OnlyMeta /\ Go(t, g)
      /\ ops' = [ops EXCEPT ![c] = row]
      /\ locator' = [session |-> s, op |-> c, state |-> "claiming", epoch |-> 1]
  BY DEF ClaimStart, Fresh
<1>2. c \in Commands /\ c \notin Anchors  BY Endpoints DEF Commands, Anchors
<1>3. row \in OtherRows /\ row # None  BY NoneAssumption DEF OtherRows
<1>4. OpsTyped  BY DEF CoordinatorInv, Tabled
<1>5. OpsTyped' /\ OpsStay /\ ops'[c] = row /\ \A d \in Commands \ {c} : ops'[d] = ops[d]
  BY <1>1, <1>2, <1>3, <1>4, OpsWrite DEF Anchors
<1>6. PhasesMove  BY <1>2, <1>4, <1>5, ClaimsMove, Endpoints
<1>7. 1 \in 1..MaxEpoch  BY CoordinatorAssumption
<1>8. LocatorTyped' /\ LocatorMoves(t)
  <2>1. locator' \in Locators  BY <1>1, <1>2, <1>7 DEF Locators
  <2> QED  BY <1>1, <1>3, <1>5, <2>1, NoneAssumption DEF LocatorTyped, LocatorMoves, Known
<1>9. FrameHolds(t, g)' /\ g.at \notin {"release", "child_commit"}
  BY <1>3, <1>5, <1>7, Compiling DEF Known
<1> QED  BY <1>1, <1>5, <1>6, <1>8, <1>9, MetaStep

LEMMA NoFrame == \A t : FrameHolds(t, None)'
BY DEF FrameHolds

\* The locator under another command, epoch, session and state.
LEMMA LocatorOp ==
    ASSUME NEW l \in Locators, NEW c \in Commands
    PROVE  /\ [l EXCEPT !.op = c] \in Locators
           /\ [l EXCEPT !.op = c].op = c /\ [l EXCEPT !.op = c].session = l.session
BY DEF Locators

LEMMA LocatorEpoch ==
    ASSUME NEW l \in Locators, NEW c \in Commands, NEW e \in 1..MaxEpoch
    PROVE  /\ [l EXCEPT !.op = c, !.epoch = e] \in Locators
           /\ [l EXCEPT !.op = c, !.epoch = e].op = c
           /\ [l EXCEPT !.op = c, !.epoch = e].session = l.session
BY DEF Locators

LEMMA LocatorState ==
    ASSUME NEW l \in Locators
    PROVE  /\ [l EXCEPT !.state = "active"] \in Locators
           /\ [l EXCEPT !.state = "active"].op = l.op
           /\ [l EXCEPT !.state = "active"].session = l.session
BY DEF Locators

LEMMA StepTouch ==
    ASSUME CoordinatorInv, NEW t \in Tasks, NEW c \in Touches, NEW kind \in TouchKinds,
           NEW epoch \in 1..MaxEpoch, TouchLocator(t, c, kind, epoch)
    PROVE  CoordinatorInv'
<1> DEFINE replay == ops[c] # None
           takes == kind = "takeover" /\ ~replay
           row == [kind |-> kind, phase |-> "completed"]
           new == [locator EXCEPT !.op = c, !.epoch = IF takes THEN @ + 1 ELSE @]
           g == [cmd |-> c, at |-> "compile", session |-> locator.session,
                 epoch |-> epoch, aux |-> [kind |-> kind]]
<1>1. /\ locator # None /\ OnlyMeta
      /\ takes => locator.epoch < MaxEpoch
      /\ locator' = new /\ ops' = [ops EXCEPT ![c] = row]
      /\ IF replay \/ kind \notin SpaceKinds THEN Go(t, None) ELSE Go(t, g)
  BY DEF TouchLocator, Return
<1>2. c \in Commands /\ c \notin Anchors /\ c \notin Activations /\ c \notin Resolutions
  BY Endpoints DEF Commands, Anchors
<1>3. row \in OtherRows /\ row # None
  BY NoneAssumption, CoordinatorAssumption DEF OtherRows
<1>4. OpsTyped /\ LocatorTyped  BY DEF CoordinatorInv, Tabled
<1>5. OpsTyped' /\ OpsStay /\ ops'[c] = row /\ \A d \in Commands \ {c} : ops'[d] = ops[d]
  BY <1>1, <1>2, <1>3, <1>4, OpsWrite
<1>6. PhasesMove  BY <1>2, <1>4, <1>5, ClaimsMove, Endpoints
<1>7. locator \in Locators  BY <1>1, <1>4 DEF LocatorTyped
<1>8. new \in Locators /\ new.op = c /\ new.session = locator.session
  <2> DEFINE e == IF takes THEN locator.epoch + 1 ELSE locator.epoch
  <2>1. MaxEpoch \in Nat  BY CoordinatorAssumption
  <2>2. locator.epoch \in 1..MaxEpoch  BY <1>7 DEF Locators
  <2>3. e \in 1..MaxEpoch  BY <1>1, <2>1, <2>2
  <2>4. new = [locator EXCEPT !.op = c, !.epoch = e]  OBVIOUS
  <2> HIDE DEF e, new
  <2> QED  BY <1>2, <1>7, <2>3, <2>4, LocatorEpoch
<1>9. LocatorTyped' /\ LocatorMoves(t)
  BY <1>1, <1>2, <1>3, <1>5, <1>8, NoneAssumption DEF LocatorTyped, LocatorMoves, Known
<1>10. CASE replay \/ kind \notin SpaceKinds
  BY <1>1, <1>5, <1>6, <1>9, <1>10, NoFrame, MetaStep
<1>11. CASE ~replay /\ kind \in SpaceKinds
  <2>1. locator.session \in Sessions  BY <1>7 DEF Locators
  <2>2. PICK h : h = g  OBVIOUS
  <2>3. FrameHolds(t, h)' /\ h.at \notin {"release", "child_commit"}
    BY <1>3, <1>5, <1>11, <2>1, <2>2, Compiling DEF Known
  <2> QED  BY <1>1, <1>5, <1>6, <1>9, <1>11, <2>2, <2>3, MetaStep
<1> QED  BY <1>10, <1>11

LEMMA StepClaimEnd ==
    ASSUME CoordinatorInv, NEW t \in Tasks, NEW c \in Ends, NEW epoch \in 1..MaxEpoch,
           ClaimEnd(t, c, epoch)
    PROVE  CoordinatorInv'
<1> DEFINE row == [kind |-> "end", phase |-> "space_committed"]
           f == [cmd |-> c, at |-> "rotate", session |-> locator.session, epoch |-> epoch,
                 aux |-> [kind |-> "end", seen |-> locator.op]]
<1>1. /\ locator # None /\ OnlyMeta /\ Go(t, f) /\ UNCHANGED locator
      /\ ops' = [ops EXCEPT ![c] = row]
  BY DEF ClaimEnd
<1>2. c \in Commands /\ c \notin Anchors /\ c \notin Activations /\ c \notin Resolutions
  BY Endpoints DEF Commands, Anchors
<1>3. row \in OtherRows /\ row # None  BY NoneAssumption DEF OtherRows
<1>4. OpsTyped /\ LocatorTyped  BY DEF CoordinatorInv, Tabled
<1>5. OpsTyped' /\ OpsStay /\ ops'[c] = row /\ \A d \in Commands \ {c} : ops'[d] = ops[d]
  BY <1>1, <1>2, <1>3, <1>4, OpsWrite
<1>6. PhasesMove  BY <1>2, <1>4, <1>5, ClaimsMove, Endpoints
<1>7. locator \in Locators  BY <1>1, <1>4 DEF LocatorTyped
<1>8. LocatorTyped' /\ LocatorMoves(t)
  <2>1. locator.op \in Commands /\ Known(locator.op)  BY <1>1, <1>4, <1>7 DEF LocatorTyped, Locators
  <2>2. Known(locator.op)'  BY <1>1, <1>3, <1>5, <2>1 DEF Known
  <2> QED  BY <1>1, <1>7, <2>2 DEF LocatorTyped, LocatorMoves
<1>9. PICK g : g = f  OBVIOUS
<1>10. FrameHolds(t, g)' /\ g.at \notin {"release", "child_commit"}
  <2>1. locator.session \in Sessions  BY <1>7 DEF Locators
  <2> QED  BY <1>3, <1>5, <1>9, <2>1, Compiling DEF Known
<1> QED  BY <1>1, <1>5, <1>6, <1>8, <1>9, <1>10, MetaStep

\* The frame of a task that is at a step, as a value.
LEMMA FrameOf ==
    ASSUME CoordinatorInv, NEW t \in Tasks, NEW step, At(t, step)
    PROVE  \E f : /\ f = frame[t] /\ f # None /\ f.at = step
                  /\ Placed(f) /\ Compiled(t, f) /\ (Relies(f) => UnderLocator(f))
<1>1. PICK f : f = frame[t]  OBVIOUS
<1>2. f # None /\ f.at = step  BY <1>1 DEF At
<1>3. FrameHolds(t, f)  BY <1>1, Framed DEF CoordinatorInv
<1> QED  BY <1>1, <1>2, <1>3 DEF FrameHolds

LEMMA StepRotateEnd ==
    ASSUME CoordinatorInv, NEW t \in Tasks, RotateEnd(t)
    PROVE  CoordinatorInv'
<1>1. PICK f : f = frame[t] /\ f # None /\ f.at = "rotate" /\ Placed(f)
  BY FrameOf DEF RotateEnd
<1>2. OnlyMeta /\ UNCHANGED ops  BY DEF RotateEnd
<1>3. OpsTyped /\ LocatorTyped  BY DEF CoordinatorInv, Tabled
<1>4. OpsTyped' /\ OpsStay /\ PhasesMove /\ (UNCHANGED locator => LocatorTyped')
  BY <1>2, <1>3, NoWrite
<1>5. CASE UNCHANGED locator /\ Go(t, None)
  <2>1. LocatorMoves(t)  BY <1>5 DEF LocatorMoves
  <2> QED  BY <1>2, <1>4, <1>5, <2>1, NoFrame, MetaStep
<1>6. CASE locator # None /\ locator' = [locator EXCEPT !.op = f.cmd] /\ To(t, "compile")
  <2>0. /\ f.cmd \in Starts \cup Ends \cup Touches /\ Known(f.cmd) /\ f.session \in Sessions
        /\ f.aux.kind \in SpaceKinds \cup {"start", "end"} /\ f.epoch \in 1..MaxEpoch
        /\ f = [cmd |-> f.cmd, at |-> f.at, session |-> f.session, epoch |-> f.epoch, aux |-> f.aux]
    BY <1>1 DEF Placed, OfSpace, Labelled
  <2>1. PICK c \in Starts \cup Ends \cup Touches : c = f.cmd  BY <2>0
  <2>2. c \in Commands /\ c \notin Activations  BY <2>1, Endpoints DEF Commands
  <2>3. locator \in Locators  BY <1>3, <1>6 DEF LocatorTyped
  <2>4. locator' \in Locators /\ locator'.op = c /\ locator'.session = locator.session
    BY <1>6, <2>1, <2>2, <2>3, LocatorOp
  <2>5. LocatorTyped' /\ LocatorMoves(t)
    <3>1. ops[c] # None  BY <2>0, <2>1 DEF Known
    <3> QED  BY <1>2, <1>6, <2>2, <2>4, <3>1, NoneAssumption DEF LocatorTyped, LocatorMoves, Known
  <2>6. PICK g : g = [f EXCEPT !.at = "compile"]  OBVIOUS
  <2>7. g = [cmd |-> f.cmd, at |-> "compile", session |-> f.session, epoch |-> f.epoch,
             aux |-> f.aux]
    BY <2>0, <2>6
  <2>8. FrameHolds(t, g)' /\ g.at \notin {"release", "child_commit"}
    BY <1>2, <2>0, <2>7, Compiling DEF Known
  <2>9. Go(t, g)  BY <1>1, <1>6, <2>6 DEF To
  <2> QED  BY <1>2, <1>4, <2>5, <2>8, <2>9, MetaStep
<1> QED  BY <1>1, <1>5, <1>6 DEF RotateEnd, Cmd, Return

\* A handler that is about to decide on a named child, or to move a phase on.
LEMMA OnChild ==
    ASSUME NEW t, NEW g, g = [cmd |-> g.cmd, at |-> g.at, session |-> g.session,
                              epoch |-> g.epoch, aux |-> g.aux],
           g.at = "child", g.epoch \in 1..MaxEpoch,
           g.cmd \in Anchors, Known(g.cmd)', g.aux \in RolesFor(g.cmd),
           g.session = Target(g.cmd, g.aux)',
           g.aux # First(g.cmd) => child'[g.cmd][First(g.cmd)] = "succeeded"
    PROVE  FrameHolds(t, g)' /\ g.at \notin {"release", "child_commit"}
<1>1. OfChild(g)'  BY DEF OfChild
<1>2. OfSpace(g)'  BY DEF OfSpace
<1>3. OfAnchor(g)' /\ OfPhase(g)'  BY DEF OfAnchor, OfPhase
<1>4. Compiled(t, g)'  BY DEF Compiled
<1>5. ~Relies(g)'  BY DEF Relies
<1>6. Labelled(g)'  BY DEF Labelled, Labels
<1> QED  BY <1>1, <1>2, <1>3, <1>4, <1>5, <1>6 DEF FrameHolds, Placed

LEMMA OnPhase ==
    ASSUME NEW t, NEW g, g = [cmd |-> g.cmd, at |-> g.at, session |-> g.session,
                              epoch |-> g.epoch, aux |-> g.aux],
           g.epoch \in 1..MaxEpoch, Known(g.cmd)',
           \/ g.at = "proof" /\ g.cmd \in Resolutions
           \/ g.at = "await" /\ g.cmd \in Activations /\ BothSucceeded(g.cmd)'
           \/ g.at \in {"transfer", "complete"} /\ g.cmd \in Resolutions /\ BothSucceeded(g.cmd)'
    PROVE  FrameHolds(t, g)' /\ g.at \notin {"release", "child_commit"}
<1>1. g.at \in {"proof", "await", "transfer", "complete"}  OBVIOUS
<1>2. OfSpace(g)'  BY <1>1 DEF OfSpace
<1>3. OfAnchor(g)' /\ OfChild(g)'  BY <1>1 DEF OfAnchor, OfChild
<1>4. Compiled(t, g)'  BY <1>1 DEF Compiled
<1>5. ~Relies(g)'  BY <1>1 DEF Relies
<1>6. Labelled(g)'  BY <1>1 DEF Labelled, Labels
<1>7. OfPhase(g)'  BY <1>1 DEF OfPhase
<1> QED  BY <1>1, <1>2, <1>3, <1>4, <1>5, <1>6, <1>7 DEF FrameHolds, Placed

LEMMA OnAnchor ==
    ASSUME NEW t, NEW g, g = [cmd |-> g.cmd, at |-> g.at, session |-> g.session,
                              epoch |-> g.epoch, aux |-> g.aux],
           g.at = "anchor", g.epoch \in 1..MaxEpoch, g.cmd \in Resolutions,
           g.aux.related \in Activations, Known(g.aux.related)',
           g.aux.winner \in {"active", "candidate"}
    PROVE  FrameHolds(t, g)' /\ g.at \notin {"release", "child_commit"}
<1>1. OfAnchor(g)'  BY DEF OfAnchor
<1>2. OfSpace(g)'  BY DEF OfSpace
<1>3. OfChild(g)' /\ OfPhase(g)'  BY DEF OfChild, OfPhase
<1>4. Compiled(t, g)'  BY DEF Compiled
<1>5. ~Relies(g)'  BY DEF Relies
<1>6. Labelled(g)'  BY DEF Labelled, Labels
<1> QED  BY <1>1, <1>2, <1>3, <1>4, <1>5, <1>6 DEF FrameHolds, Placed

\* From one child on to the next, or to the phase, with the receipts behind it.
LEMMA NextHolds ==
    ASSUME OpsTyped, OpsTyped', Advance, UNCHANGED ops, NEW t, NEW f, f = frame[t], Placed(f),
           f.at \in {"child", "child_commit"}, child'[f.cmd][f.aux] = "succeeded", NextChild(t)
    PROVE  \E g : Go(t, g) /\ FrameHolds(t, g)' /\ g.at \notin {"release", "child_commit"}
<1>1. /\ f = [cmd |-> f.cmd, at |-> f.at, session |-> f.session, epoch |-> f.epoch, aux |-> f.aux]
      /\ f.epoch \in 1..MaxEpoch
      /\ f.cmd \in Anchors /\ Known(f.cmd) /\ f.aux \in RolesFor(f.cmd)
      /\ f.aux # First(f.cmd) => child[f.cmd][First(f.cmd)] = "succeeded"
  BY DEF Placed, Labelled, OfChild
<1>2. PICK c \in Anchors : c = f.cmd  BY <1>1
<1>3. PICK role : role = RolesOf(c)[2]  OBVIOUS
<1>4. RolesFor(c) = {First(c), role} /\ role # First(c)
  BY <1>3 DEF RolesFor, First, RolesOf
<1>5. Known(c)'  BY <1>1, <1>2 DEF Known
<1>6. CASE f.aux = role
  <2>1. BothSucceeded(c)'
    <3>1. First(c) \in Roles  BY RolesAreRoles
    <3>2. child'[c][First(c)] = "succeeded"  BY <1>1, <1>2, <1>4, <1>6, <3>1 DEF Advance
    <3> QED  BY <1>2, <1>4, <1>6, <3>2 DEF BothSucceeded
  <2>2. PICK g : g = [f EXCEPT !.at = IF c \in Resolutions THEN "transfer" ELSE "await"]
    OBVIOUS
  <2>3. g = [cmd |-> c, at |-> IF c \in Resolutions THEN "transfer" ELSE "await",
             session |-> f.session, epoch |-> f.epoch, aux |-> f.aux]
    BY <1>1, <1>2, <2>2
  <2>4. c \notin Resolutions => c \in Activations  BY DEF Anchors
  <2>5. FrameHolds(t, g)' /\ g.at \notin {"release", "child_commit"}
    BY <1>1, <1>5, <2>1, <2>3, <2>4, OnPhase
  <2>6. Go(t, g)  BY <1>2, <1>3, <1>6, <2>2 DEF NextChild, Second, To, Cmd
  <2> QED  BY <2>5, <2>6
<1>7. CASE f.aux # role
  <2>1. f.aux = First(c)  BY <1>1, <1>2, <1>4, <1>7
  <2>2. PICK g : g = [f EXCEPT !.at = "child", !.aux = role, !.session = Target(c, role)]
    OBVIOUS
  <2>3. g = [cmd |-> c, at |-> "child", session |-> Target(c, role), epoch |-> f.epoch,
             aux |-> role]
    BY <1>1, <1>2, <2>2
  <2>4. role \in RolesFor(c)  BY <1>4
  <2>5. Target(c, role)' = Target(c, role)
    BY <1>1, <1>2, <2>4, SidesStay DEF Advance
  <2>6. FrameHolds(t, g)' /\ g.at \notin {"release", "child_commit"}
    <3>1. PICK s : s = Target(c, role)  OBVIOUS
    <3>2. g.session = s /\ g.cmd = c /\ g.aux = role /\ g.at = "child" /\ g.epoch = f.epoch
      BY <2>3, <3>1
    <3>3. g = [cmd |-> g.cmd, at |-> g.at, session |-> g.session, epoch |-> g.epoch,
               aux |-> g.aux]
      BY <2>3, <3>1
    <3>4. Target(c, role)' = s  BY <2>5, <3>1
    <3>5. child'[c][First(c)] = "succeeded"  BY <1>2, <2>1
    <3> QED  BY <1>1, <1>5, <2>4, <3>2, <3>3, <3>4, <3>5, OnChild
  <2>7. Go(t, g)  BY <1>2, <1>3, <1>7, <2>2 DEF NextChild, Second, To, Cmd
  <2> QED  BY <2>6, <2>7
<1> QED  BY <1>6, <1>7

\* What an invariant step relies on, at hand.
LEMMA Parts ==
    ASSUME CoordinatorInv
    PROVE  /\ OpsTyped /\ LocatorTyped /\ ChildTyped /\ FramesHold
           /\ locator # None =>
                locator \in Locators /\ locator.op \in Commands /\ Known(locator.op)
BY DEF CoordinatorInv, Tabled, LocatorTyped, Locators

LEMMA LocatorKept ==
    ASSUME CoordinatorInv, OpsStay, UNCHANGED locator
    PROVE  LocatorTyped'
BY Parts DEF LocatorTyped, OpsStay, Known

LEMMA StepReleaseEnd ==
    ASSUME CoordinatorInv, NEW t \in Tasks, ReleaseEnd(t)
    PROVE  CoordinatorInv'
<1>1. At(t, "release") /\ locator' = None /\ Go(t, None) /\ UNCHANGED ops /\ OnlyMeta
  BY DEF ReleaseEnd, Return
<1>2. OpsTyped' /\ OpsStay /\ PhasesMove  BY <1>1, Parts, NoWrite
<1>3. LocatorTyped' /\ LocatorMoves(t)  BY <1>1 DEF LocatorTyped, LocatorMoves
<1> QED  BY <1>1, <1>2, <1>3, NoFrame, MetaStep

LEMMA StepActivate ==
    ASSUME CoordinatorInv, NEW t \in Tasks, NEW c \in Activations,
           NEW active \in Sessions, NEW candidate \in Sessions, Activate(t, c, active, candidate)
    PROVE  CoordinatorInv'
<1> DEFINE row == [kind |-> "activate_provisional", phase |-> "claimed",
                   active |-> active, candidate |-> candidate]
           g == [cmd |-> c, at |-> "child", session |-> candidate, epoch |-> 1,
                 aux |-> "candidate"]
<1>0. /\ c \in Commands /\ c \in Anchors /\ c \notin Resolutions
      /\ c \notin Starts \cup Ends \cup Touches
  BY Endpoints DEF Anchors, Commands
<1>1. /\ ops[c] = None /\ OnlyMeta /\ Go(t, g) /\ ops' = [ops EXCEPT ![c] = row]
      /\ locator # None => locator.op = c
      /\ locator' = IF locator = None
                    THEN [session |-> active, op |-> c, state |-> "claiming", epoch |-> 1]
                    ELSE locator
  BY DEF Activate, Fresh
<1>2. locator = None  BY <1>1, Parts DEF Known
<1>3. row \in ConflictRows /\ row # None  BY NoneAssumption DEF ConflictRows
<1>4. OpsTyped' /\ OpsStay /\ ops'[c] = row /\ \A d \in Commands \ {c} : ops'[d] = ops[d]
  BY <1>0, <1>1, <1>3, Parts, OpsWrite DEF Known
<1>5. PhasesMove  BY <1>0, <1>1, <1>4, Parts, ClaimsMove, Endpoints
<1>6. 1 \in 1..MaxEpoch  BY CoordinatorAssumption
<1>7. LocatorTyped' /\ LocatorMoves(t)
  <2>1. locator' = [session |-> active, op |-> c, state |-> "claiming", epoch |-> 1]
    BY <1>1, <1>2
  <2>2. locator' \in Locators /\ locator'.op = c  BY <1>0, <1>6, <2>1 DEF Locators
  <2> QED  BY <1>1, <1>2, <1>3, <1>4, <2>2, NoneAssumption DEF LocatorTyped, LocatorMoves, Known
<1>8. FrameHolds(t, g)' /\ g.at \notin {"release", "child_commit"}
  <2>1. Known(c)'  BY <1>3, <1>4 DEF Known
  <2>2. "candidate" \in RolesFor(c) /\ First(c) = "candidate"  BY <1>0 DEF RolesFor, First
  <2>3. Target(c, "candidate")' = candidate  BY <1>0, <1>4 DEF Target, Sides
  <2> QED  BY <1>0, <1>6, <2>1, <2>2, <2>3, OnChild
<1> QED  BY <1>1, <1>4, <1>5, <1>7, <1>8, MetaStep

LEMMA StepAwaitResolution ==
    ASSUME CoordinatorInv, NEW t \in Tasks, AwaitResolution(t)
    PROVE  CoordinatorInv'
<1>1. PICK f : f = frame[t] /\ f # None /\ f.at = "await" /\ Placed(f)
  BY FrameOf DEF AwaitResolution
<1>2. f.cmd \in Activations /\ Known(f.cmd) /\ BothSucceeded(f.cmd)
  BY <1>1 DEF Placed, OfPhase
<1>3. PICK c \in Activations : c = f.cmd  BY <1>2
<1>4. /\ c \in Commands /\ c \in Anchors /\ c \notin Resolutions
      /\ c \notin Starts \cup Ends \cup Touches
  BY <1>3, Endpoints DEF Anchors, Commands
<1>5. PICK r : r = [ops[c] EXCEPT !.phase = "awaiting_resolution"]  OBVIOUS
<1>6. ops' = [ops EXCEPT ![c] = r] /\ Go(t, None) /\ UNCHANGED locator /\ OnlyMeta
  BY <1>1, <1>3, <1>5 DEF AwaitResolution, Cmd, Return
<1>7. PICK o \in ConflictRows : o = ops[c]  BY <1>2, <1>3, Parts DEF OpsTyped
<1>8. /\ r \in ConflictRows /\ r # None /\ r.phase = "awaiting_resolution"
      /\ r.active = ops[c].active /\ r.candidate = ops[c].candidate
  BY <1>5, <1>7, NoneAssumption DEF ConflictRows
<1>9. OpsTyped' /\ OpsStay /\ ops'[c] = r /\ \A d \in Commands \ {c} : ops'[d] = ops[d]
  BY <1>4, <1>6, <1>8, Parts, OpsWrite
<1>10. PhasesMove
  <2>1. \A d \in Anchors : d # c => ops'[d] = ops[d]  BY <1>9, Endpoints
  <2>2. Activations \subseteq Anchors /\ Resolutions \subseteq Anchors  BY DEF Anchors
  <2>3. \A d \in Anchors : Known(d)' => \/ Known(d) /\ BothSucceeded(d)
                                        \/ Known(d) /\ ops'[d].phase = ops[d].phase
    BY <1>2, <1>3, <2>1 DEF Known
  <2>4. \A d \in Activations : Known(d)' /\ ops'[d].phase = "completed" =>
           Known(d) /\ ops[d].phase = "completed"
    BY <1>8, <1>9, <2>1, <2>2 DEF Known
  <2>5. \A d \in Resolutions : ops'[d] = ops[d]  BY <1>4, <2>1, <2>2
  <2> QED  BY <2>3, <2>4, <2>5 DEF PhasesMove
<1>11. LocatorTyped' /\ LocatorMoves(t)
  <2>1. LocatorTyped'  BY <1>6, <1>9, LocatorKept
  <2> QED  BY <1>6, <2>1 DEF LocatorMoves
<1> QED  BY <1>6, <1>9, <1>10, <1>11, NoFrame, MetaStep

LEMMA StepReadConflict ==
    ASSUME CoordinatorInv, NEW t \in Tasks, NEW c \in Resolutions,
           NEW winner \in {"active", "candidate"}, ReadConflict(t, c, winner)
    PROVE  CoordinatorInv'
<1>1. locator # None /\ UNCHANGED <<locator, ops>> /\ OnlyMeta
  BY DEF ReadConflict, metaVars
<1>2. OpsTyped' /\ OpsStay /\ PhasesMove /\ LocatorTyped'  BY <1>1, Parts, NoWrite
<1>3. LocatorMoves(t)  BY <1>1 DEF LocatorMoves
<1>4. locator \in Locators /\ locator.epoch \in 1..MaxEpoch  BY <1>1, Parts DEF Locators
<1>5. MaxEpoch \in Nat  BY CoordinatorAssumption
<1>6. PICK related, e, restart :
        /\ related \in Activations /\ Known(related) /\ e \in 1..MaxEpoch
        /\ Go(t, [cmd |-> c, at |-> "anchor", session |-> None, epoch |-> e,
                  aux |-> [related |-> related, winner |-> winner, restart |-> restart]])
  <2>1. CASE /\ ops[c] # None
             /\ Go(t, [cmd |-> c, at |-> "anchor", session |-> None, epoch |-> locator.epoch,
                       aux |-> [related |-> ops[c].related, winner |-> winner, restart |-> TRUE]])
    <3>1. ops[c].related \in Activations /\ Known(ops[c].related)
      BY <2>1, Parts DEF OpsTyped, ResolutionRows, Known
    <3> QED  BY <1>4, <2>1, <3>1
  <2>2. CASE /\ locator.op \in Activations /\ ops[locator.op] # None
             /\ locator.epoch < MaxEpoch
             /\ Go(t, [cmd |-> c, at |-> "anchor", session |-> None, epoch |-> locator.epoch + 1,
                       aux |-> [related |-> locator.op, winner |-> winner, restart |-> FALSE]])
    <3>1. locator.epoch + 1 \in 1..MaxEpoch  BY <1>4, <1>5, <2>2
    <3> QED  BY <2>2, <3>1 DEF Known
  <2> QED  BY <2>1, <2>2 DEF ReadConflict
<1>7. PICK g : g = [cmd |-> c, at |-> "anchor", session |-> None, epoch |-> e,
                    aux |-> [related |-> related, winner |-> winner, restart |-> restart]]
  OBVIOUS
<1>8. FrameHolds(t, g)' /\ g.at \notin {"release", "child_commit"}
  <2>1. Known(related)'  BY <1>1, <1>6 DEF Known
  <2> QED  BY <1>6, <1>7, <2>1, OnAnchor
<1> QED  BY <1>1, <1>2, <1>3, <1>6, <1>7, <1>8, MetaStep

LEMMA StepAnchorResolution ==
    ASSUME CoordinatorInv, NEW t \in Tasks, AnchorResolution(t)
    PROVE  CoordinatorInv'
<1>1. PICK f : f = frame[t] /\ f # None /\ f.at = "anchor" /\ Placed(f)
  BY FrameOf DEF AnchorResolution
<1>2. /\ f.cmd \in Resolutions /\ f.aux.related \in Activations /\ Known(f.aux.related)
      /\ f.aux.winner \in {"active", "candidate"} /\ f.epoch \in 1..MaxEpoch
      /\ f = [cmd |-> f.cmd, at |-> f.at, session |-> f.session, epoch |-> f.epoch, aux |-> f.aux]
  BY <1>1 DEF Placed, OfAnchor, Labelled
<1>3. PICK c \in Resolutions : c = f.cmd  BY <1>2
<1>4. PICK related \in Activations : related = f.aux.related  BY <1>2
<1>5. PICK winner \in {"active", "candidate"} : winner = f.aux.winner  BY <1>2
<1>6. /\ c \in Commands /\ c \in Anchors /\ c \notin Activations
      /\ c \notin Starts \cup Ends \cup Touches
  BY Endpoints DEF Anchors, Commands
<1>7. OnlyMeta  BY DEF AnchorResolution
<1>8. PICK g : g = [f EXCEPT !.at = "proof"]  OBVIOUS
<1>9. g = [cmd |-> c, at |-> "proof", session |-> f.session, epoch |-> f.epoch, aux |-> f.aux]
  BY <1>2, <1>3, <1>8
<1>10. ASSUME UNCHANGED <<locator, ops>>, Go(t, None) \/ (ops[c] # None /\ Go(t, g))
       PROVE  CoordinatorInv'
  <2>1. OpsTyped' /\ OpsStay /\ PhasesMove /\ LocatorTyped'  BY <1>10, Parts, NoWrite
  <2>2. LocatorMoves(t)  BY <1>10 DEF LocatorMoves
  <2>3. CASE Go(t, None)  BY <1>7, <2>1, <2>2, <2>3, NoFrame, MetaStep
  <2>4. CASE ops[c] # None /\ Go(t, g)
    <3>1. Known(c)'  BY <1>10, <2>4 DEF Known
    <3>2. FrameHolds(t, g)' /\ g.at \notin {"release", "child_commit"}
      BY <1>2, <1>9, <3>1, OnPhase
    <3> QED  BY <1>7, <2>1, <2>2, <2>4, <3>2, MetaStep
  <2> QED  BY <1>10, <2>3, <2>4
<1>11. ASSUME ops[c] = None, locator # None, locator.op = related,
              locator.epoch = f.epoch - 1,
              ops' = [ops EXCEPT ![c] = [kind |-> "resolve_activation_conflict",
                                         phase |-> "claimed", related |-> related,
                                         winner |-> winner]],
              locator' = [locator EXCEPT !.op = c, !.epoch = f.epoch,
                                         !.session = ops[related][winner]],
              Go(t, g)
       PROVE  CoordinatorInv'
  <2> DEFINE row == [kind |-> "resolve_activation_conflict", phase |-> "claimed",
                     related |-> related, winner |-> winner]
  <2>1. row \in ResolutionRows /\ row # None  BY NoneAssumption DEF ResolutionRows
  <2>2. OpsTyped' /\ OpsStay /\ ops'[c] = row /\ \A d \in Commands \ {c} : ops'[d] = ops[d]
    BY <1>2, <1>4, <1>6, <1>11, <2>1, Parts, OpsWrite DEF Known
  <2>3. PhasesMove  BY <1>6, <1>11, <2>2, Parts, ClaimsMove, Endpoints
  <2>4. ops[related] \in ConflictRows  BY <1>2, <1>4, Parts DEF OpsTyped
  <2>5. ops[related][winner] \in Sessions  BY <2>4 DEF ConflictRows
  <2>6. locator' \in Locators /\ locator'.op = c
    <3>1. PICK l \in Locators : l = locator  BY <1>11, Parts
    <3>2. PICK s \in Sessions : s = ops[related][winner]  BY <2>5
    <3>3. PICK e \in 1..MaxEpoch : e = f.epoch  BY <1>2
    <3>4. locator' = [l EXCEPT !.op = c, !.epoch = e, !.session = s]
      BY <1>11, <3>1, <3>2, <3>3
    <3>5. /\ [l EXCEPT !.op = c, !.epoch = e, !.session = s] \in Locators
          /\ [l EXCEPT !.op = c, !.epoch = e, !.session = s].op = c
      BY <1>6 DEF Locators
    <3> QED  BY <3>4, <3>5
  <2>7. Known(c)'  BY <2>1, <2>2 DEF Known
  <2>8. LocatorTyped'  BY <2>6, <2>7 DEF LocatorTyped, Known
  <2>9. LocatorMoves(t)  BY <1>6, <1>11, <2>6, NoneAssumption DEF LocatorMoves
  <2>10. FrameHolds(t, g)' /\ g.at \notin {"release", "child_commit"}
    BY <1>2, <1>9, <2>7, OnPhase
  <2> QED  BY <1>7, <1>11, <2>2, <2>3, <2>8, <2>9, <2>10, MetaStep
<1> QED
  BY <1>1, <1>3, <1>4, <1>5, <1>8, <1>10, <1>11
  DEF AnchorResolution, Cmd, To, Return, metaVars

LEMMA StepReadProof ==
    ASSUME CoordinatorInv, NEW t \in Tasks, ReadProof(t)
    PROVE  CoordinatorInv'
<1>1. PICK f : f = frame[t] /\ f # None /\ f.at = "proof" /\ Placed(f)
  BY FrameOf DEF ReadProof
<1>2. /\ f.cmd \in Resolutions /\ Known(f.cmd) /\ f.epoch \in 1..MaxEpoch
      /\ f = [cmd |-> f.cmd, at |-> f.at, session |-> f.session, epoch |-> f.epoch, aux |-> f.aux]
  BY <1>1 DEF Placed, OfPhase, Labelled
<1>3. PICK c \in Resolutions : c = f.cmd  BY <1>2
<1>4. c \in Anchors /\ "winner" \in RolesFor(c) /\ First(c) = "winner"
  BY DEF Anchors, RolesFor, First
<1>5. OnlyMeta /\ UNCHANGED <<locator, ops>>  BY DEF ReadProof, metaVars
<1>6. OpsTyped' /\ OpsStay /\ PhasesMove /\ LocatorTyped'  BY <1>5, Parts, NoWrite
<1>7. LocatorMoves(t)  BY <1>5 DEF LocatorMoves
<1>8. PICK s : s = Target(c, "winner")  OBVIOUS
<1>9. PICK g : g = [f EXCEPT !.at = "child", !.aux = "winner", !.session = s]  OBVIOUS
<1>10. g = [cmd |-> c, at |-> "child", session |-> s, epoch |-> f.epoch, aux |-> "winner"]
  BY <1>2, <1>3, <1>9
<1>11. Target(c, "winner")' = s
  BY <1>2, <1>3, <1>4, <1>6, <1>8, Parts, SidesStay
<1>12. FrameHolds(t, g)' /\ g.at \notin {"release", "child_commit"}
  <2>1. Known(c)'  BY <1>2, <1>3, <1>5 DEF Known
  <2> QED  BY <1>2, <1>4, <1>10, <1>11, <2>1, OnChild
<1>13. Go(t, g) \/ Go(t, None)
  BY <1>1, <1>3, <1>8, <1>9 DEF ReadProof, Cmd, Return
<1> QED  BY <1>5, <1>6, <1>7, <1>12, <1>13, NoFrame, MetaStep

LEMMA StepTransfer ==
    ASSUME CoordinatorInv, NEW t \in Tasks, Transfer(t)
    PROVE  CoordinatorInv'
<1>1. PICK f : f = frame[t] /\ f # None /\ f.at = "transfer" /\ Placed(f)
  BY FrameOf DEF Transfer
<1>2. /\ f.cmd \in Resolutions /\ Known(f.cmd) /\ BothSucceeded(f.cmd) /\ f.epoch \in 1..MaxEpoch
      /\ f = [cmd |-> f.cmd, at |-> f.at, session |-> f.session, epoch |-> f.epoch, aux |-> f.aux]
  BY <1>1 DEF Placed, OfPhase, Labelled
<1>3. PICK c \in Resolutions : c = f.cmd  BY <1>2
<1>4. /\ c \in Commands /\ c \in Anchors /\ c \notin Activations
      /\ c \notin Starts \cup Ends \cup Touches
  BY Endpoints DEF Anchors, Commands
<1>5. PICK o \in ResolutionRows : o = ops[c]  BY <1>2, <1>3, Parts DEF OpsTyped
<1>6. PICK r : r = IF o.phase = "claimed" THEN [o EXCEPT !.phase = "transferred"] ELSE o
  OBVIOUS
<1>7. /\ r \in ResolutionRows /\ r # None /\ r.related = ops[c].related /\ r.winner = ops[c].winner
      /\ o.phase = "completed" => r.phase = "completed"
  BY <1>5, <1>6, NoneAssumption DEF ResolutionRows
<1>8. ops = [d \in Commands |-> ops[d]]  BY Parts DEF OpsTyped
<1>9. ops' = [ops EXCEPT ![c] = r]
  <2>1. CASE o.phase = "claimed"
    BY <1>1, <1>3, <1>5, <1>6, <2>1 DEF Transfer, Cmd
  <2>2. CASE o.phase # "claimed"
    <3>1. ops' = ops /\ r = ops[c]  BY <1>1, <1>3, <1>5, <1>6, <2>2 DEF Transfer, Cmd
    <3> QED  BY <1>4, <1>8, <3>1
  <2> QED  BY <2>1, <2>2
<1>10. OpsTyped' /\ OpsStay /\ ops'[c] = r /\ \A d \in Commands \ {c} : ops'[d] = ops[d]
  <2>1. Known(r.related)  BY <1>2, <1>3, <1>7, Parts DEF OpsTyped
  <2> QED  BY <1>4, <1>7, <1>9, <2>1, Parts, OpsWrite
<1>11. PhasesMove
  <2>1. \A d \in Anchors : d # c => ops'[d] = ops[d]  BY <1>10, Endpoints
  <2>2. Activations \subseteq Anchors /\ Resolutions \subseteq Anchors  BY DEF Anchors
  <2>3. \A d \in Anchors : Known(d)' => \/ Known(d) /\ BothSucceeded(d)
                                        \/ Known(d) /\ ops'[d].phase = ops[d].phase
    BY <1>2, <1>3, <2>1 DEF Known
  <2>4. \A d \in Activations : ops'[d] = ops[d]  BY <1>4, <2>1, <2>2
  <2>5. \A d \in Resolutions : Known(d) /\ ops[d].phase = "completed" => ops'[d].phase = "completed"
    BY <1>5, <1>7, <1>10, <2>1, <2>2
  <2> QED  BY <2>3, <2>4, <2>5 DEF PhasesMove, Known
<1>12. UNCHANGED locator /\ OnlyMeta /\ LocatorTyped' /\ LocatorMoves(t)
  BY <1>10, LocatorKept DEF Transfer, LocatorMoves
<1>13. PICK g : g = [f EXCEPT !.at = "complete"]  OBVIOUS
<1>14. g = [cmd |-> c, at |-> "complete", session |-> f.session, epoch |-> f.epoch, aux |-> f.aux]
  BY <1>2, <1>3, <1>13
<1>15. FrameHolds(t, g)' /\ g.at \notin {"release", "child_commit"}
  <2>1. Known(c)'  BY <1>7, <1>10 DEF Known
  <2>2. BothSucceeded(c)'  BY <1>2, <1>3, <1>12 DEF OnlyMeta, BothSucceeded
  <2> QED  BY <1>2, <1>14, <2>1, <2>2, OnPhase
<1>16. Go(t, g)  BY <1>1, <1>13 DEF Transfer, To
<1> QED  BY <1>10, <1>11, <1>12, <1>15, <1>16, MetaStep

LEMMA StepComplete ==
    ASSUME CoordinatorInv, NEW t \in Tasks, Complete(t)
    PROVE  CoordinatorInv'
<1>1. PICK f : f = frame[t] /\ f # None /\ f.at = "complete" /\ Placed(f)
  BY FrameOf DEF Complete
<1>2. f.cmd \in Resolutions /\ Known(f.cmd) /\ BothSucceeded(f.cmd)
  BY <1>1 DEF Placed, OfPhase
<1>3. PICK c \in Resolutions : c = f.cmd  BY <1>2
<1>4. PICK o \in ResolutionRows : o = ops[c]  BY <1>2, <1>3, Parts DEF OpsTyped
<1>5. PICK b \in Activations : b = ops[c].related /\ Known(b)
  BY <1>2, <1>3, <1>4, Parts DEF OpsTyped, ResolutionRows
<1>6. PICK p \in ConflictRows : p = ops[b]  BY <1>5, Parts DEF OpsTyped
<1>7. /\ c \in Commands /\ c \in Anchors /\ c \notin Activations
      /\ c \notin Starts \cup Ends \cup Touches
      /\ b \in Commands /\ b \in Anchors /\ b \notin Resolutions
      /\ b \notin Starts \cup Ends \cup Touches
      /\ b # c
  BY Endpoints DEF Anchors, Commands
<1>8. Go(t, None) /\ OnlyMeta  BY DEF Complete, Return
<1>9. CASE UNCHANGED <<locator, ops>>
  <2>1. OpsTyped' /\ OpsStay /\ PhasesMove /\ LocatorTyped'  BY <1>9, Parts, NoWrite
  <2>2. LocatorMoves(t)  BY <1>9 DEF LocatorMoves
  <2> QED  BY <1>8, <2>1, <2>2, NoFrame, MetaStep
<1>10. ASSUME locator # None, locator.op = c, p.phase = "awaiting_resolution",
              locator' = [locator EXCEPT !.state = "active"],
              ops' = [ops EXCEPT ![c].phase = "completed", ![b].phase = "completed"]
       PROVE  CoordinatorInv'
  <2>1. PICK r : r = [o EXCEPT !.phase = "completed"]  OBVIOUS
  <2>2. PICK q : q = [p EXCEPT !.phase = "completed"]  OBVIOUS
  <2>3. /\ r \in ResolutionRows /\ r # None /\ r.related = b /\ r.winner = o.winner
        /\ r.phase = "completed"
    BY <1>4, <1>5, <2>1, NoneAssumption DEF ResolutionRows
  <2>4. /\ q \in ConflictRows /\ q # None /\ q.active = p.active /\ q.candidate = p.candidate
        /\ q.phase = "completed"
    BY <2>2, NoneAssumption DEF ConflictRows
  <2>5. ops = [d \in Commands |-> ops[d]]  BY Parts DEF OpsTyped
  <2>6. /\ ops' = [d \in Commands |-> ops'[d]]
        /\ ops'[c] = r /\ ops'[b] = q /\ \A d \in Commands \ {b, c} : ops'[d] = ops[d]
    BY <1>4, <1>6, <1>7, <1>10, <2>1, <2>2, <2>5
  <2>7. \A d \in Commands : Known(d) => Known(d)'  BY <2>3, <2>4, <2>6 DEF Known
  <2>8. OpsTyped'
    <3>1. ASSUME NEW d \in Starts \cup Ends \cup Touches, Known(d)'  PROVE ops'[d] \in OtherRows
      BY <1>7, <2>6, <3>1, Parts DEF OpsTyped, Known, Commands
    <3>2. ASSUME NEW d \in Activations, Known(d)'  PROVE ops'[d] \in ConflictRows
      <4>1. d \in Commands /\ d # c  BY <1>7 DEF Commands
      <4>2. CASE d = b  BY <2>4, <2>6, <4>2
      <4>3. CASE d # b
        <5>1. ops'[d] = ops[d] /\ Known(d)  BY <2>6, <3>2, <4>1, <4>3 DEF Known
        <5> QED  BY <5>1, Parts DEF OpsTyped
      <4> QED  BY <4>2, <4>3
    <3>3. ASSUME NEW d \in Resolutions, Known(d)'
          PROVE  ops'[d] \in ResolutionRows /\ Known(ops[d].related)'
      <4>1. d \in Commands /\ d # b  BY <1>7 DEF Commands
      <4>2. CASE d = c
        <5>1. Known(b)'  BY <1>5, <1>7, <2>7
        <5> QED  BY <2>3, <2>6, <4>2, <5>1 DEF Known
      <4>3. CASE d # c
        <5>1. ops'[d] = ops[d] /\ Known(d)  BY <2>6, <3>3, <4>1, <4>3 DEF Known
        <5>2. ops[d] \in ResolutionRows /\ Known(ops[d].related)  BY <5>1, Parts DEF OpsTyped
        <5>3. PICK e \in Activations : e = ops[d].related  BY <5>2 DEF ResolutionRows
        <5>4. e \in Commands  BY DEF Commands
        <5>5. Known(e)'  BY <2>7, <5>2, <5>3, <5>4
        <5> QED  BY <5>1, <5>2, <5>3, <5>5 DEF Known
      <4> QED  BY <4>2, <4>3
    <3> QED  BY <2>6, <3>1, <3>2, <3>3 DEF OpsTyped
  <2>9. OpsStay
    <3>1. \A d \in Commands : Known(d) => ops'[d] # None  BY <2>7 DEF Known
    <3>2. \A d \in Activations :
             ops'[d].active = ops[d].active /\ ops'[d].candidate = ops[d].candidate
      BY <1>6, <1>7, <2>4, <2>6 DEF Commands
    <3>3. \A d \in Resolutions : ops'[d].related = ops[d].related /\ ops'[d].winner = ops[d].winner
      BY <1>4, <1>5, <1>7, <2>3, <2>6 DEF Commands
    <3> QED  BY <3>1, <3>2, <3>3 DEF OpsStay
  <2>10. PhasesMove
    <3>1. BothSucceeded(b)
      <4>1. RolesFor(b) = {"candidate", "active"}  BY <1>7 DEF RolesFor
      <4>2. ops[b].phase # "claimed"  BY <1>6, <1>10
      <4> QED  BY <1>5, <4>1, <4>2 DEF CoordinatorInv, PhasesAreProven, Known, BothSucceeded
    <3>2. \A d \in Anchors : Known(d)' => \/ Known(d) /\ BothSucceeded(d)
                                          \/ Known(d) /\ ops'[d].phase = ops[d].phase
      BY <1>2, <1>3, <1>5, <2>6, <3>1, Endpoints DEF Known
    <3>3. \A d \in Activations : Known(d)' /\ ops'[d].phase = "completed" =>
             \/ Known(d) /\ ops[d].phase = "completed"
             \/ \E e \in Resolutions :
                  Known(e)' /\ ops'[e].phase = "completed" /\ ops'[e].related = d
      <4> SUFFICES ASSUME NEW d \in Activations, Known(d)', ops'[d].phase = "completed", d # b
                   PROVE  Known(d) /\ ops[d].phase = "completed"
        BY <1>7, <2>3, <2>6 DEF Known
      <4>1. ops'[d] = ops[d]  BY <1>7, <2>6 DEF Commands
      <4> QED  BY <4>1 DEF Known
    <3>4. \A d \in Resolutions :
             Known(d) /\ ops[d].phase = "completed" => ops'[d].phase = "completed"
      BY <1>7, <2>3, <2>6 DEF Commands
    <3> QED  BY <3>2, <3>3, <3>4 DEF PhasesMove
  <2>11. locator' \in Locators /\ locator'.op = c /\ locator'.session = locator.session
    <3>1. PICK l \in Locators : l = locator  BY <1>10, Parts
    <3> QED  BY <1>10, <3>1, LocatorState
  <2>12. LocatorTyped' /\ LocatorMoves(t)
    BY <1>7, <1>10, <2>3, <2>6, <2>11, NoneAssumption DEF LocatorTyped, LocatorMoves, Known
  <2> QED  BY <1>8, <2>8, <2>9, <2>10, <2>12, NoFrame, MetaStep
<1> QED
  BY <1>1, <1>3, <1>5, <1>6, <1>9, <1>10 DEF Complete, Cmd, metaVars

LEMMA StepOn ==
    ASSUME CoordinatorInv, NEW t \in Tasks, ChildSkip(t) \/ ChildRefused(t)
    PROVE  CoordinatorInv'
<1>1. PICK f : f = frame[t] /\ f # None /\ f.at = "child" /\ Placed(f)
  BY FrameOf DEF ChildSkip, ChildRefused, AtChild
<1>2. OnlyMeta /\ UNCHANGED <<locator, ops>>  BY DEF ChildSkip, ChildRefused, OnlyMeta
<1>3. OpsTyped' /\ OpsStay /\ PhasesMove /\ LocatorTyped'  BY <1>2, Parts, NoWrite
<1>4. LocatorMoves(t)  BY <1>2 DEF LocatorMoves
<1>5. CASE ChildRefused(t)
  <2>1. Go(t, None)  BY <1>5 DEF ChildRefused, Return
  <2> QED  BY <1>2, <1>3, <1>4, <2>1, NoFrame, MetaStep
<1>6. CASE ChildSkip(t)
  <2>1. child'[f.cmd][f.aux] = "succeeded" /\ NextChild(t)
    BY <1>1, <1>2, <1>6 DEF ChildSkip, Status, Cmd, OnlyMeta
  <2>2. Advance  BY <1>2, <1>3 DEF Advance, OnlyMeta, Ended
  <2>3. PICK g : Go(t, g) /\ FrameHolds(t, g)' /\ g.at \notin {"release", "child_commit"}
    BY <1>1, <1>2, <1>3, <2>1, <2>2, Parts, NextHolds
  <2> QED  BY <1>2, <1>3, <1>4, <2>3, MetaStep
<1> QED  BY <1>5, <1>6

\* What a step that leaves the meta database alone has to show.
LEMMA SpaceStep ==
    ASSUME CoordinatorInv, UNCHANGED <<locator, ops>>, Tabled', FramesHold', OneReleases',
           MarkedStay', Advance,
           \A s \in Sessions : (Is(s, "authoritative") /\ Live(s))' =>
               \/ Is(s, "authoritative") /\ Live(s)
               \/ locator # None /\ locator.session = s /\ locator.op \notin Activations,
           \A c \in Resolutions : Known(c) /\ Done(c, "loser")' =>
               Done(c, "loser") \/ Ended(Target(c, "loser"))'
    PROVE  CoordinatorInv'
<1> USE DEF CoordinatorInv
<1>1. PhasesAreProven'
  <2>1. OpsTyped' /\ PhasesMove  BY Parts, NoWrite
  <2> QED  BY <2>1, Parts, Phases
<1>2. LosersEnded'
  <2> SUFFICES ASSUME NEW c \in Resolutions, Known(c)', Done(c, "loser")'
               PROVE  Ended(Target(c, "loser"))'
    BY DEF LosersEnded
  <2>1. c \in Anchors /\ "loser" \in RolesFor(c) /\ Known(c)  BY DEF Anchors, RolesFor, Known
  <2>2. CASE Done(c, "loser")
    <3>1. Ended(Target(c, "loser"))  BY <2>1, <2>2 DEF LosersEnded
    <3>2. PICK s \in Sessions : s = Target(c, "loser")  BY <2>1, SidesAreSessions, Parts
    <3>3. Target(c, "loser")' = s  BY <2>1, <3>2, SidesStay, Parts DEF Advance, Tabled
    <3> QED  BY <3>1, <3>2, <3>3 DEF Advance, Ended
  <2> QED  BY <2>1, <2>2
<1>3. NobodyRuns' /\ RunningUnderLocator'
  <2> SUFFICES ASSUME NEW s \in Sessions, (Is(s, "authoritative") /\ Live(s))'
               PROVE  locator # None /\ locator.session = s /\ locator.op \notin Activations
    BY DEF NobodyRuns, RunningUnderLocator
  <2> QED  BY DEF NobodyRuns, RunningUnderLocator
<1> QED  BY <1>1, <1>2, <1>3

\* What the marks on the two sides of an activation live through.
LEMMA MarksStay ==
    ASSUME CoordinatorInv, UNCHANGED <<locator, ops>>, ChildTyped',
           \A s \in Sessions : Is(s, "conflict") =>
               \/ Is(s, "conflict")'
               \/ \E u \in Tasks : /\ At(u, "child_commit") /\ frame[u].cmd \in Resolutions
                                   /\ frame[u].session = s,
           \A c \in Activations, role \in {"candidate", "active"} :
               Known(c) /\ Done(c, role)' =>
                   \/ Done(c, role)
                   \/ /\ Is(Target(c, role), "conflict")'
                      /\ \A u \in Tasks :
                             At(u, "child_commit")' => frame'[u].session # Target(c, role),
           \A u \in Tasks : At(u, "child_commit")' /\ frame'[u].cmd \in Resolutions =>
               \/ At(u, "child_commit") /\ frame'[u] = frame[u]
               \/ locator = None \/ locator.op \notin Activations
    PROVE  MarkedStay'
<1> SUFFICES ASSUME locator' # None, locator'.op \in Activations,
                    NEW role \in {"candidate", "active"}, Done(locator.op, role)'
             PROVE  /\ Is(Target(locator.op, role), "conflict")'
                    /\ \A u \in Tasks : At(u, "child_commit")' /\ frame'[u].cmd \in Resolutions
                            => frame'[u].session # Target(locator.op, role)'
  BY DEF MarkedStay
<1>1. PICK c \in Activations : c = locator.op  OBVIOUS
<1>2. Known(c) /\ c \in Anchors /\ role \in RolesFor(c)
  BY <1>1, Parts, Endpoints DEF Anchors, RolesFor
<1>3. PICK s \in Sessions : s = Target(c, role)  BY <1>2, SidesAreSessions, Parts
<1>4. Target(c, role)' = s
  <2>1. OpsTyped' /\ OpsStay  BY Parts, NoWrite
  <2> QED  BY <1>2, <1>3, <2>1, SidesStay, Parts
<1>5. CASE Done(c, role)
  <2>1. /\ Is(s, "conflict")
        /\ \A u \in Tasks : At(u, "child_commit") /\ frame[u].cmd \in Resolutions
                              => frame[u].session # s
    BY <1>1, <1>3, <1>5 DEF CoordinatorInv, MarkedStay
  <2>2. Is(s, "conflict")'  BY <2>1
  <2>3. \A u \in Tasks : At(u, "child_commit")' /\ frame'[u].cmd \in Resolutions
                            => frame'[u].session # s
    BY <1>1, <2>1
  <2> QED  BY <1>1, <1>4, <2>2, <2>3
<1>6. CASE ~Done(c, role)
  <2>1. Done(c, role)'  BY <1>1
  <2>2. /\ Is(Target(c, role), "conflict")'
        /\ \A u \in Tasks : At(u, "child_commit")' => frame'[u].session # Target(c, role)
    BY <1>2, <1>6, <2>1
  <2> QED  BY <1>1, <1>3, <1>4, <2>2
<1> QED  BY <1>5, <1>6

\* The lease of a Space is taken or given back.
LEMMA LeaseMoves ==
    ASSUME Tabled, NEW s \in Sessions, NEW x, lease' = [lease EXCEPT ![SpaceOf[s]] = x]
    PROVE  /\ lease' = [space \in Spaces |-> lease'[space]]
           /\ lease'[SpaceOf[s]] = x
           /\ \A r \in Sessions : SpaceOf[r] # SpaceOf[s] => lease'[SpaceOf[r]] = lease[SpaceOf[r]]
<1>1. \A r \in Sessions : SpaceOf[r] \in Spaces  BY DEF Spaces
<1>2. lease = [space \in Spaces |-> lease[space]]  BY DEF Tabled
<1> QED  BY <1>1, <1>2

\* The session that a handler at work on a Space is about.
LEMMA SessionOf ==
    ASSUME CoordinatorInv, NEW f, Placed(f),
           f.at \in {"compile", "commit", "rotate", "release", "child", "child_commit"}
    PROVE  f.session \in Sessions
<1>1. CASE f.at \in {"compile", "commit", "rotate", "release"}
  BY <1>1 DEF Placed, OfSpace
<1>2. CASE f.at \in {"child", "child_commit"}
  <2>1. f.cmd \in Anchors /\ Known(f.cmd) /\ f.aux \in RolesFor(f.cmd)
        /\ f.session = Target(f.cmd, f.aux)
    BY <1>2 DEF Placed, OfChild
  <2>2. PICK c \in Anchors : c = f.cmd  BY <2>1
  <2>3. PICK role \in RolesFor(c) : role = f.aux  BY <2>1, <2>2
  <2> QED  BY <2>1, <2>2, <2>3, SidesAreSessions, Parts
<1> QED  BY <1>1, <1>2

\* A step within one Space, under its lease or while nobody has it, disturbs no
\* handler that does not have the lease.
LEMMA SpaceIsLeased ==
    ASSUME CoordinatorInv, NEW u \in Tasks, NEW f, f = frame[u], f # None,
           NEW space, lease[space] # u, UNCHANGED locator,
           \A r \in Sessions : SpaceOf[r] # space =>
               lease'[SpaceOf[r]] = lease[SpaceOf[r]] /\ rows'[r] = rows[r],
           \A c \in Anchors, role \in Roles :
               \/ child'[c][role] = child[c][role]
               \/ child[c][role] # "none"
               \/ SpaceOf[Target(c, role)] = space
    PROVE  Undisturbed(u, f)
<1>1. Placed(f) /\ Compiled(u, f)  BY Framed, Parts DEF FrameHolds
<1>2. ASSUME f.at \in {"commit", "child_commit"}
      PROVE  /\ f.session \in Sessions /\ SpaceOf[f.session] # space
             /\ lease'[SpaceOf[f.session]] = u /\ rows'[f.session] = rows[f.session]
  <2>1. f.session \in Sessions  BY <1>1, <1>2, SessionOf
  <2>2. lease[SpaceOf[f.session]] = u  BY <1>1, <1>2 DEF Compiled
  <2> QED  BY <2>1, <2>2
<1>3. ASSUME f.at = "child_commit"  PROVE child'[f.cmd][f.aux] = child[f.cmd][f.aux]
  <2>1. f.cmd \in Anchors /\ f.aux \in RolesFor(f.cmd) /\ f.session = Target(f.cmd, f.aux)
    BY <1>1, <1>3 DEF Placed, OfChild
  <2>2. f.aux \in Roles  BY <2>1, RolesAreRoles
  <2>3. child[f.cmd][f.aux] = "none"  BY <1>1, <1>3 DEF Compiled
  <2>4. SpaceOf[Target(f.cmd, f.aux)] # space  BY <1>2, <1>3, <2>1
  <2> QED  BY <2>1, <2>2, <2>3, <2>4
<1>4. UnderLocator(f) => UnderLocator(f)'  BY DEF UnderLocator
<1> QED  BY <1>2, <1>3, <1>4 DEF Undisturbed

\* The step of a handler within the Space of session s.
LEMMA TaskStep ==
    ASSUME CoordinatorInv, UNCHANGED <<locator, ops>>, NEW t \in Tasks, NEW g, Go(t, g),
           FrameHolds(t, g)', NEW s \in Sessions, lease[SpaceOf[s]] \in {t, None},
           lease' = [space \in Spaces |-> lease'[space]],
           \A r \in Sessions : SpaceOf[r] # SpaceOf[s] =>
               lease'[SpaceOf[r]] = lease[SpaceOf[r]] /\ rows'[r] = rows[r],
           rows' \in [Sessions -> Row \cup {Absent}], ChildTyped', Advance,
           \A c \in Anchors, role \in Roles :
               \/ child'[c][role] = child[c][role]
               \/ child[c][role] # "none"
               \/ SpaceOf[Target(c, role)] = SpaceOf[s],
           g # None /\ g.at = "release" => \A u \in Tasks \ {t} : ~At(u, "release"),
           g # None /\ g.at = "child_commit" /\ g.cmd \in Resolutions =>
               locator = None \/ locator.op \notin Activations,
           \A r \in Sessions : Is(r, "conflict") =>
               \/ Is(r, "conflict")'
               \/ \E u \in Tasks : /\ At(u, "child_commit") /\ frame[u].cmd \in Resolutions
                                   /\ frame[u].session = r,
           \A c \in Activations, role \in {"candidate", "active"} :
               Known(c) /\ Done(c, role)' =>
                   \/ Done(c, role)
                   \/ /\ Target(c, role) = s /\ Is(s, "conflict")'
                      /\ g = None \/ g.at # "child_commit",
           \A r \in Sessions : (Is(r, "authoritative") /\ Live(r))' =>
               \/ Is(r, "authoritative") /\ Live(r)
               \/ locator # None /\ locator.session = r /\ locator.op \notin Activations,
           \A c \in Resolutions : Known(c) /\ Done(c, "loser")' =>
               Done(c, "loser") \/ Ended(Target(c, "loser"))'
    PROVE  CoordinatorInv'
<1>1. OpsTyped' /\ OpsStay /\ LocatorTyped'  BY Parts, NoWrite
<1>2. \A u \in Tasks \ {t} : lease[SpaceOf[s]] # u  BY NoneAssumption
<1>3. \A u \in Tasks \ {t} : \A f : f = frame[u] /\ f # None => Undisturbed(u, f)
  BY <1>2, SpaceIsLeased
<1>4. /\ FramesHold' /\ frame' = [u \in Tasks |-> frame'[u]]
      /\ frame'[t] = g /\ \A u \in Tasks \ {t} : frame'[u] = frame[u]
  BY <1>1, <1>3, StepOfTask, Parts DEF CoordinatorInv
<1>5. OneReleases'
  <2> SUFFICES ASSUME NEW u \in Tasks, NEW v \in Tasks, At(u, "release")', At(v, "release")', u # v
               PROVE  FALSE
    BY DEF OneReleases
  <2>1. CASE u # t /\ v # t
    <3>1. At(u, "release") /\ At(v, "release")  BY <1>4, <2>1 DEF At
    <3> QED  BY <3>1 DEF CoordinatorInv, OneReleases
  <2>2. CASE u = t
    <3>1. g # None /\ g.at = "release" /\ At(v, "release")  BY <1>4, <2>2 DEF At
    <3> QED  BY <2>2, <3>1
  <2>3. CASE v = t
    <3>1. g # None /\ g.at = "release" /\ At(u, "release")  BY <1>4, <2>3 DEF At
    <3> QED  BY <2>3, <3>1
  <2> QED  BY <2>1, <2>2, <2>3
<1>6. Tabled'  BY <1>1, <1>4 DEF Tabled
<1>7. MarkedStay'
  <2>1. \A u \in Tasks \ {t} : At(u, "child_commit")' =>
           At(u, "child_commit") /\ frame'[u] = frame[u]
    BY <1>4 DEF At
  <2>2. ASSUME NEW u \in Tasks, At(u, "child_commit")', g = None \/ g.at # "child_commit"
        PROVE  frame'[u].session # s
    <3>1. u # t  BY <1>4, <2>2 DEF At
    <3>2. At(u, "child_commit") /\ frame'[u] = frame[u]  BY <2>1, <2>2, <3>1
    <3>3. PICK f : f = frame[u] /\ Compiled(u, f) /\ f.at = "child_commit"
      BY <3>2, FrameOf
    <3>4. lease[SpaceOf[f.session]] = u  BY <3>3 DEF Compiled
    <3> QED  BY <1>2, <3>1, <3>2, <3>3, <3>4
  <2>3. \A c \in Activations, role \in {"candidate", "active"} :
           Known(c) /\ Done(c, role)' =>
               \/ Done(c, role)
               \/ /\ Is(Target(c, role), "conflict")'
                  /\ \A u \in Tasks : At(u, "child_commit")' => frame'[u].session # Target(c, role)
    <3> SUFFICES ASSUME NEW c \in Activations, NEW role \in {"candidate", "active"},
                        Known(c), Done(c, role)', ~Done(c, role)
                 PROVE  /\ Is(Target(c, role), "conflict")'
                        /\ \A u \in Tasks :
                               At(u, "child_commit")' => frame'[u].session # Target(c, role)
      OBVIOUS
    <3>1. /\ Target(c, role) = s /\ Is(s, "conflict")'
          /\ g = None \/ g.at # "child_commit"
      OBVIOUS
    <3>2. Target(c, role)' = s
      BY <1>1, <3>1, SidesStay, Parts, Endpoints DEF Anchors, RolesFor
    <3>3. Is(Target(c, role), "conflict")'  BY <3>1, <3>2
    <3> QED  BY <2>2, <3>1, <3>3
  <2>4. \A u \in Tasks : At(u, "child_commit")' /\ frame'[u].cmd \in Resolutions =>
           \/ At(u, "child_commit") /\ frame'[u] = frame[u]
           \/ locator = None \/ locator.op \notin Activations
    <3> SUFFICES ASSUME At(t, "child_commit")', frame'[t].cmd \in Resolutions
                 PROVE  locator = None \/ locator.op \notin Activations
      BY <2>1
    <3> QED  BY <1>4 DEF At
  <2> QED  BY <2>3, <2>4, MarksStay
<1> QED  BY <1>4, <1>5, <1>6, <1>7, SpaceStep

LEMMA StepCompile ==
    ASSUME CoordinatorInv, NEW t \in Tasks, Compile(t)
    PROVE  CoordinatorInv'
<1>1. PICK f : f = frame[t] /\ f # None /\ f.at = "compile" /\ Placed(f)
  BY FrameOf DEF Compile
<1>2. UNCHANGED <<rows, revisions, effort, locator, ops, child, events>>  BY DEF Compile
<1>3. OpsTyped' /\ OpsStay /\ PhasesMove /\ LocatorTyped'  BY <1>2, Parts, NoWrite
<1>4. CASE Return(t) /\ UNCHANGED lease
  <2>1. LocatorMoves(t) /\ OnlyMeta /\ Go(t, None)
    BY <1>2, <1>4 DEF LocatorMoves, OnlyMeta, Return
  <2> QED  BY <1>3, <2>1, NoFrame, MetaStep
<1>5. CASE Admitted(t, f.aux.kind) /\ Lock(t) /\ To(t, "commit")
  <2>1. PICK s \in Sessions : s = f.session  BY <1>1, SessionOf
  <2>2. LeaseOf(t) = None /\ lease' = [lease EXCEPT ![SpaceOf[s]] = t]
    BY <1>1, <1>5, <2>1 DEF Compile, Lock, Session
  <2>3. /\ lease' = [space \in Spaces |-> lease'[space]] /\ lease'[SpaceOf[s]] = t
        /\ \A r \in Sessions : SpaceOf[r] # SpaceOf[s] => lease'[SpaceOf[r]] = lease[SpaceOf[r]]
    BY <2>2, LeaseMoves DEF CoordinatorInv
  <2>4. lease[SpaceOf[s]] = None  BY <1>1, <2>1, <2>2 DEF LeaseOf, Session
  <2>5. PICK g : g = [f EXCEPT !.at = "commit"]  OBVIOUS
  <2>6. Go(t, g)  BY <1>1, <1>5, <2>5 DEF To
  <2>7. /\ f.cmd \in Starts \cup Ends \cup Touches /\ Known(f.cmd)
        /\ f.aux.kind \in SpaceKinds \cup {"start", "end"} /\ f.epoch \in 1..MaxEpoch
        /\ f = [cmd |-> f.cmd, at |-> f.at, session |-> f.session, epoch |-> f.epoch, aux |-> f.aux]
    BY <1>1 DEF Placed, OfSpace, Labelled
  <2>8. g = [cmd |-> f.cmd, at |-> "commit", session |-> s, epoch |-> f.epoch, aux |-> f.aux]
    BY <2>1, <2>5, <2>7
  <2>9. FrameHolds(t, g)'
    <3>1. g.at = "commit" /\ g.session = s /\ g.aux = f.aux /\ g.cmd = f.cmd /\ g.epoch = f.epoch
          /\ g = [cmd |-> g.cmd, at |-> g.at, session |-> g.session, epoch |-> g.epoch,
                  aux |-> g.aux]
      BY <2>8
    <3>2. OfSpace(g)'  BY <1>2, <2>7, <3>1 DEF OfSpace, Known
    <3>3. OfChild(g)' /\ OfAnchor(g)' /\ OfPhase(g)'  BY <3>1 DEF OfChild, OfAnchor, OfPhase
    <3>4. Labelled(g)'  BY <2>7, <3>1 DEF Labelled, Labels
    <3>5. IF f.aux.kind = "start" THEN ~Exists(rows, s)
          ELSE Exists(rows, s) /\ ~Is(s, "conflict") /\ ClockAllows(f.aux.kind, rows[s])
      BY <1>1, <1>5, <2>1 DEF Admitted, CanStart, CanTransit, Session
    <3>6. Compiled(t, g)'  BY <1>2, <2>3, <3>1, <3>5 DEF Compiled, Exists, Is
    <3>7. UnderLocator(g)'
      <4>1. locator # None /\ locator.op = f.cmd /\ locator.session = s
        BY <1>1, <1>5, <2>1 DEF Admitted, Holds, Cmd, Session
      <4> QED  BY <1>2, <2>7, <3>1, <4>1, Endpoints DEF UnderLocator
    <3> QED  BY <3>2, <3>3, <3>4, <3>6, <3>7 DEF FrameHolds, Placed
  <2>10. Advance  BY <1>2, <1>3 DEF Advance, Ended
  <2>11. ChildTyped' /\ rows' \in [Sessions -> Row \cup {Absent}]
    BY <1>2, Parts DEF ChildTyped, Known, CoordinatorInv, Tabled
  <2>12. g.at \notin {"release", "child_commit"}  BY <2>8
  <2>13. \A r \in Sessions : Is(r, "conflict") => Is(r, "conflict")'  BY <1>2 DEF Is, Exists
  <2>14. \A r \in Sessions : (Is(r, "authoritative") /\ Live(r))' =>
             Is(r, "authoritative") /\ Live(r)
    BY <1>2 DEF Is, Live, Exists
  <2>15. \A c, role : Done(c, role)' => Done(c, role)  BY <1>2 DEF Done
  <2> QED
    BY <1>2, <2>3, <2>4, <2>6, <2>9, <2>10, <2>11, <2>12, <2>13, <2>14, <2>15, TaskStep
<1> QED  BY <1>1, <1>4, <1>5 DEF Compile

\* What a clock command makes of a row that allows it.
LEMMA ClockSteps ==
    ASSUME NEW r \in Row, NEW v \in Validities, NEW kind \in SpaceKinds \cup {"end"},
           ClockAllows(kind, r)
    PROVE  /\ ClockAfter(kind, v, r) \in Row /\ ClockAfter(kind, v, r).own = r.own
           /\ kind = "end" => ClockAfter(kind, v, r).clock = "ended"
           /\ r.clock = "ended" <=> ClockAfter(kind, v, r).clock = "ended" /\ kind # "end"
BY DEF ClockAfter, ClockAllows, Row, Clocks, Owns, Validities, SpaceKinds

\* A row that is there is a row.
LEMMA RowsThere ==
    ASSUME CoordinatorInv, NEW s \in Sessions
    PROVE  /\ rows \in [Sessions -> Row \cup {Absent}]
           /\ Exists(rows, s) <=> rows[s] \in Row
BY SessionsAssumption DEF CoordinatorInv, Tabled, Exists

\* A handler of the coordinator that ended the session releases the locator.
LEMMA OnRelease ==
    ASSUME NEW t, NEW f, NEW g, Placed(f), f.at = "commit", g = [f EXCEPT !.at = "release"],
           UNCHANGED <<locator, ops>>, UnderLocator(f), Ended(f.session)'
    PROVE  FrameHolds(t, g)' /\ g.at = "release"
<1>1. /\ f.cmd \in Starts \cup Ends \cup Touches /\ Known(f.cmd) /\ f.session \in Sessions
      /\ f.aux.kind \in SpaceKinds \cup {"start", "end"} /\ f.epoch \in 1..MaxEpoch
      /\ f = [cmd |-> f.cmd, at |-> f.at, session |-> f.session, epoch |-> f.epoch, aux |-> f.aux]
  BY DEF Placed, OfSpace, Labelled
<1>2. g = [cmd |-> f.cmd, at |-> "release", session |-> f.session, epoch |-> f.epoch, aux |-> f.aux]
  BY <1>1
<1>3. /\ g.at = "release" /\ g.session = f.session /\ g.aux = f.aux /\ g.cmd = f.cmd
      /\ g.epoch = f.epoch
      /\ g = [cmd |-> g.cmd, at |-> g.at, session |-> g.session, epoch |-> g.epoch, aux |-> g.aux]
  BY <1>2
<1>4. OfSpace(g)'  BY <1>1, <1>3 DEF OfSpace, Known
<1>5. OfChild(g)' /\ OfAnchor(g)' /\ OfPhase(g)'  BY <1>3 DEF OfChild, OfAnchor, OfPhase
<1>6. Labelled(g)'  BY <1>1, <1>3 DEF Labelled, Labels
<1>7. Compiled(t, g)'  BY <1>3 DEF Compiled
<1>8. UnderLocator(g)'  BY <1>3 DEF UnderLocator
<1> QED  BY <1>3, <1>4, <1>5, <1>6, <1>7, <1>8 DEF FrameHolds, Placed

LEMMA StepCommit ==
    ASSUME CoordinatorInv, NEW t \in Tasks, Commit(t)
    PROVE  CoordinatorInv'
<1>1. PICK f : /\ f = frame[t] /\ f # None /\ f.at = "commit" /\ Placed(f)
               /\ Compiled(t, f) /\ (Relies(f) => UnderLocator(f))
  BY FrameOf DEF Commit
<1>2. PICK s \in Sessions : s = f.session  BY <1>1, SessionOf
<1>3. PICK kind \in SpaceKinds \cup {"start", "end"} : kind = f.aux.kind
  BY <1>1 DEF Placed, OfSpace
<1>4. UNCHANGED <<locator, ops, child, events>> /\ lease' = [lease EXCEPT ![SpaceOf[s]] = None]
  BY <1>1, <1>2 DEF Commit, Unlock, Session
<1>5. OpsTyped' /\ OpsStay /\ PhasesMove /\ LocatorTyped'  BY <1>4, Parts, NoWrite
<1>6. /\ lease' = [space \in Spaces |-> lease'[space]]
      /\ \A r \in Sessions : SpaceOf[r] # SpaceOf[s] => lease'[SpaceOf[r]] = lease[SpaceOf[r]]
  BY <1>4, LeaseMoves DEF CoordinatorInv
<1>7. /\ lease[SpaceOf[s]] = t
      /\ IF kind = "start" THEN ~Exists(rows, s)
         ELSE Exists(rows, s) /\ ~Is(s, "conflict") /\ ClockAllows(kind, rows[s])
  BY <1>1, <1>2, <1>3 DEF Compiled
<1>8. PICK row \in Row :
        /\ rows' = [rows EXCEPT ![s] = row]
        /\ kind = "start" => row.own = "authoritative"
        /\ kind # "start" => /\ Exists(rows, s) /\ row.own = rows[s].own
                             /\ kind = "end" => row.clock = "ended"
                             /\ rows[s].clock = "ended" <=> row.clock = "ended" /\ kind # "end"
  <2>1. CASE kind = "start"
    <3>1. rows' = [rows EXCEPT ![s] = StartedRow]
      BY <1>1, <1>2, <1>3, <2>1 DEF Commit, Start, Session
    <3>2. StartedRow \in Row /\ StartedRow.own = "authoritative"
      BY DEF StartedRow, Row, Clocks, Owns, Validities
    <3> QED  BY <2>1, <3>1, <3>2
  <2>2. CASE kind # "start"
    <3>1. PICK v \in Validities : rows' = [rows EXCEPT ![s] = ClockAfter(kind, v, rows[s])]
      BY <1>1, <1>2, <1>3, <2>2 DEF Commit, Transit, RowsAfterClock, Session
    <3>2. rows[s] \in Row /\ ClockAllows(kind, rows[s])  BY <1>7, <2>2, RowsThere
    <3>3. PICK row : row = ClockAfter(kind, v, rows[s])  OBVIOUS
    <3>4. /\ row \in Row /\ row.own = rows[s].own
          /\ kind = "end" => row.clock = "ended"
          /\ rows[s].clock = "ended" <=> row.clock = "ended" /\ kind # "end"
      BY <2>2, <3>2, <3>3, ClockSteps
    <3> QED  BY <1>7, <2>2, <3>1, <3>3, <3>4
  <2> QED  BY <2>1, <2>2
<1>9. /\ rows' \in [Sessions -> Row \cup {Absent}] /\ rows'[s] = row /\ row # Absent
      /\ \A r \in Sessions : r # s => rows'[r] = rows[r]
  BY <1>8, RowsThere, SessionsAssumption
<1>10. Advance
  <2>1. \A r \in Sessions : Ended(r) => Exists(rows', r) /\ rows'[r].clock = "ended"
    <3> SUFFICES ASSUME Ended(s)  PROVE row.clock = "ended"
      BY <1>9 DEF Ended, Exists
    <3> QED  BY <1>7, <1>8 DEF Ended
  <2> QED  BY <1>4, <1>5, <2>1 DEF Advance
<1>11. ChildTyped'  BY <1>4, Parts DEF ChildTyped, Known
<1>12. \A r \in Sessions : Is(r, "conflict") => Is(r, "conflict")'
  BY <1>7, <1>9 DEF Is, Exists
<1>13. \A r \in Sessions : (Is(r, "authoritative") /\ Live(r))' =>
          \/ Is(r, "authoritative") /\ Live(r)
          \/ locator # None /\ locator.session = r /\ locator.op \notin Activations
  <2>1. \A r \in Sessions : r # s /\ (Is(r, "authoritative") /\ Live(r))' =>
          Is(r, "authoritative") /\ Live(r)
    BY <1>9 DEF Is, Live, Exists
  <2>2. CASE kind = "start"
    <3>1. UnderLocator(f)  BY <1>1, <1>3, <2>2 DEF Relies
    <3> QED  BY <1>2, <2>1, <3>1 DEF UnderLocator
  <2>3. CASE kind # "start"
    <3>1. (Is(s, "authoritative") /\ Live(s))' => Is(s, "authoritative") /\ Live(s)
      BY <1>8, <1>9, <2>3 DEF Is, Live, Exists
    <3> QED  BY <2>1, <3>1
  <2> QED  BY <2>2, <2>3
<1>14. \A c, role : Done(c, role)' => Done(c, role)  BY <1>4 DEF Done
<1>15. PICK g : /\ Go(t, g) /\ FrameHolds(t, g)'
                /\ g # None => /\ g.at = "release" /\ \A u \in Tasks \ {t} : ~At(u, "release")
  <2>1. CASE kind = "end"
    <3>1. PICK g : g = [f EXCEPT !.at = "release"]  OBVIOUS
    <3>2. Go(t, g)  BY <1>1, <1>3, <2>1, <3>1 DEF Commit, To
    <3>3. UnderLocator(f)  BY <1>1, <1>3, <2>1 DEF Relies
    <3>4. Ended(s)'  BY <1>8, <1>9, <2>1 DEF Ended, Exists
    <3>5. FrameHolds(t, g)' /\ g.at = "release"  BY <1>1, <1>2, <1>4, <3>1, <3>3, <3>4, OnRelease
    <3>6. ASSUME NEW u \in Tasks, At(u, "release")  PROVE FALSE
      <4>1. PICK h : /\ h = frame[u] /\ h # None /\ h.at = "release"
                     /\ Compiled(u, h) /\ (Relies(h) => UnderLocator(h))
        BY <3>6, FrameOf
      <4>2. Ended(h.session) /\ h.session = s
        BY <1>2, <3>3, <4>1 DEF Compiled, Relies, UnderLocator
      <4> QED  BY <1>7, <2>1, <4>2 DEF Ended, ClockAllows
    <3> QED  BY <3>2, <3>5, <3>6
  <2>2. CASE kind # "end"
    <3>1. Go(t, None)  BY <1>1, <1>3, <2>2 DEF Commit, Return
    <3> QED  BY <3>1, NoFrame
  <2> QED  BY <2>1, <2>2
<1>16. \A r \in Sessions : SpaceOf[r] # SpaceOf[s] =>
          lease'[SpaceOf[r]] = lease[SpaceOf[r]] /\ rows'[r] = rows[r]
  BY <1>6, <1>9
<1>17. /\ g # None /\ g.at = "release" => \A u \in Tasks \ {t} : ~At(u, "release")
       /\ ~(g # None /\ g.at = "child_commit" /\ g.cmd \in Resolutions)
  BY <1>15
<1>18. \A c \in Anchors, role \in Roles : child'[c][role] = child[c][role]  BY <1>4
<1>19. lease[SpaceOf[s]] \in {t, None}  BY <1>7
<1> HIDE DEF Go
<1> QED
  BY <1>4, <1>6, <1>9, <1>10, <1>11, <1>12, <1>13, <1>14, <1>15, <1>16, <1>17, <1>18,
     <1>19, TaskStep

\* A child of an operation gets another status.
StatusSet(c, role, x) == child' = [child EXCEPT ![c][role] = x]

LEMMA StatusMoves ==
    ASSUME CoordinatorInv, NEW c \in Anchors, Known(c), NEW role \in Roles, NEW x \in Statuses,
           UNCHANGED ops, StatusSet(c, role, x)
    PROVE  /\ ChildTyped' /\ child'[c][role] = x
           /\ \A d \in Anchors, r \in Roles : (d = c /\ r = role) \/ child'[d][r] = child[d][r]
<1>1. child \in [Anchors -> [Roles -> Statuses]]  BY Parts DEF ChildTyped
<1>2. /\ child' \in [Anchors -> [Roles -> Statuses]] /\ child'[c][role] = x
      /\ \A d \in Anchors, r \in Roles : (d = c /\ r = role) \/ child'[d][r] = child[d][r]
  BY <1>1 DEF StatusSet
<1>3. \A d \in Anchors : ~Known(d)' => ~Known(d) /\ d # c  BY DEF Known
<1> QED  BY <1>2, <1>3, Parts DEF ChildTyped

\* What the mutation of a named child does to its session.
Effects(f, s) ==
    /\ rows' \in [Sessions -> Row \cup {Absent}]
    /\ \A r \in Sessions : r # s => rows'[r] = rows[r]
    /\ \A r \in Sessions : Ended(r) => Exists(rows', r) /\ rows'[r].clock = "ended"
    /\ \A r \in Sessions : Is(r, "conflict") =>
           Is(r, "conflict")' \/ (r = s /\ f.cmd \in Resolutions)
    /\ \A r \in Sessions : (Is(r, "authoritative") /\ Live(r))' =>
           \/ Is(r, "authoritative") /\ Live(r)
           \/ locator # None /\ locator.session = r /\ locator.op \notin Activations
    /\ f.cmd \in Activations => Is(s, "conflict")'
    /\ f.aux = "loser" => Ended(s)'

Works(t, f) == f = frame[t] /\ Placed(f) /\ Compiled(t, f) /\ (Relies(f) => UnderLocator(f))

LEMMA ChildEffects ==
    ASSUME CoordinatorInv, NEW t \in Tasks, NEW f, Works(t, f), f.at = "child_commit",
           NEW s \in Sessions, s = f.session, ChildEffect(t)
    PROVE  Effects(f, s)
<1> USE DEF Works
<1>1. f.aux \in RolesFor(f.cmd) /\ f.cmd \in Anchors  BY DEF Placed, OfChild
<1>2. rows[s] \in Row /\ (f.cmd \in Resolutions => Is(s, "conflict") /\ Live(s))
  BY RowsThere DEF Compiled, CanResolve
<1>3. PICK row \in Row : /\ rows' = [rows EXCEPT ![s] = row]
                         /\ f.aux = "winner" => row = [rows[s] EXCEPT !.own = "authoritative"]
                         /\ f.aux = "loser" => row.clock = "ended"
                         /\ f.aux \notin {"winner", "loser"} =>
                                row.own = "conflict" /\ row.clock = rows[s].clock
  <2>1. CASE f.aux = "winner"
    <3>1. PICK row : row = [rows[s] EXCEPT !.own = "authoritative"]  OBVIOUS
    <3>2. row \in Row  BY <1>2, <3>1 DEF Row, Owns
    <3>3. rows' = [rows EXCEPT ![s] = row]  BY <2>1, <3>1 DEF ChildEffect, Win, Session
    <3> QED  BY <2>1, <3>1, <3>2, <3>3
  <2>2. CASE f.aux = "loser"
    <3>1. PICK row : row = [clock |-> "ended", own |-> "authoritative", validity |-> "invalid"]
      OBVIOUS
    <3>2. row \in Row /\ row.clock = "ended"  BY <3>1 DEF Row, Clocks, Owns, Validities
    <3>3. rows' = [rows EXCEPT ![s] = row]  BY <2>2, <3>1 DEF ChildEffect, Lose, Session
    <3> QED  BY <2>2, <3>2, <3>3
  <2>3. CASE f.aux \notin {"winner", "loser"}
    <3>1. PICK row : row = [rows[s] EXCEPT !.own = "conflict"]  OBVIOUS
    <3>2. row \in Row /\ row.own = "conflict" /\ row.clock = rows[s].clock
      BY <1>2, <3>1 DEF Row, Owns
    <3>3. rows' = [rows EXCEPT ![s] = row]  BY <2>3, <3>1 DEF ChildEffect, Mark, Session
    <3> QED  BY <2>3, <3>2, <3>3
  <2> QED  BY <2>1, <2>2, <2>3
<1>4. /\ rows' \in [Sessions -> Row \cup {Absent}] /\ rows'[s] = row /\ row # Absent
      /\ rows[s] # Absent
      /\ \A r \in Sessions : r # s => rows'[r] = rows[r]
  BY <1>2, <1>3, RowsThere, SessionsAssumption
<1>5. f.aux \in {"winner", "loser"} <=> f.cmd \in Resolutions  BY <1>1 DEF RolesFor
<1>6. Is(s, "conflict")' <=> row.own = "conflict"  BY <1>4 DEF Is, Exists
<1>7. \A r \in Sessions : Ended(r) => Exists(rows', r) /\ rows'[r].clock = "ended"
  <2> SUFFICES ASSUME Ended(s)  PROVE row.clock = "ended"
    BY <1>4 DEF Ended, Exists
  <2> QED  BY <1>2, <1>3, <1>5 DEF Ended, Live
<1>8. \A r \in Sessions : Is(r, "conflict") =>
         Is(r, "conflict")' \/ (r = s /\ f.cmd \in Resolutions)
  BY <1>3, <1>4, <1>5, <1>6 DEF Is, Exists
<1>9. \A r \in Sessions : r # s /\ (Is(r, "authoritative") /\ Live(r))' =>
         Is(r, "authoritative") /\ Live(r)
  BY <1>4 DEF Is, Live, Exists
<1>10. (Is(s, "authoritative") /\ Live(s))' =>
          locator # None /\ locator.session = s /\ locator.op \notin Activations
  <2> SUFFICES ASSUME row.own = "authoritative", row.clock # "ended"
               PROVE  locator # None /\ locator.session = s /\ locator.op \notin Activations
    BY <1>4 DEF Is, Live, Exists
  <2>1. f.aux = "winner"  BY <1>3
  <2> QED  BY <2>1 DEF Relies, UnderLocator
<1>11. f.aux = "loser" => Ended(s)'  BY <1>3, <1>4 DEF Ended, Exists
<1>12. f.cmd \in Activations => Is(s, "conflict")'  BY <1>3, <1>5, <1>6, Endpoints
<1> QED  BY <1>4, <1>7, <1>8, <1>9, <1>10, <1>11, <1>12 DEF Effects

\* The operation and the role of a handler that is about a named child.
LEMMA ChildOf ==
    ASSUME CoordinatorInv, NEW f, Placed(f), f.at \in {"child", "child_commit"}
    PROVE  \E c \in Anchors : \E role \in RolesFor(c) : \E s \in Sessions :
               c = f.cmd /\ role = f.aux /\ s = f.session /\ s = Target(c, role) /\ Known(c)
<1>1. f.cmd \in Anchors /\ Known(f.cmd) /\ f.aux \in RolesFor(f.cmd)
      /\ f.session = Target(f.cmd, f.aux)
  BY DEF Placed, OfChild
<1>2. PICK c \in Anchors : c = f.cmd  BY <1>1
<1>3. PICK role \in RolesFor(c) : role = f.aux  BY <1>1, <1>2
<1>4. Target(c, role) \in Sessions  BY <1>1, <1>2, SidesAreSessions, Parts
<1> QED  BY <1>1, <1>2, <1>3, <1>4

LEMMA StepChildCommit ==
    ASSUME CoordinatorInv, NEW t \in Tasks, ChildCommit(t)
    PROVE  CoordinatorInv'
<1>1. PICK f : /\ f = frame[t] /\ f # None /\ f.at = "child_commit" /\ Placed(f)
               /\ Compiled(t, f) /\ (Relies(f) => UnderLocator(f))
  BY FrameOf DEF ChildCommit
<1>2. PICK c \in Anchors : \E role \in RolesFor(c) : \E s \in Sessions :
               c = f.cmd /\ role = f.aux /\ s = f.session /\ s = Target(c, role) /\ Known(c)
  BY <1>1, ChildOf
<1>3. PICK role \in RolesFor(c) : \E s \in Sessions :
               c = f.cmd /\ role = f.aux /\ s = f.session /\ s = Target(c, role) /\ Known(c)
  BY <1>2
<1>4. PICK s \in Sessions :
               c = f.cmd /\ role = f.aux /\ s = f.session /\ s = Target(c, role) /\ Known(c)
  BY <1>3
<1>5. /\ UNCHANGED <<locator, ops, events>> /\ lease' = [lease EXCEPT ![SpaceOf[s]] = None]
      /\ StatusSet(c, role, "succeeded")
      /\ ChildEffect(t) /\ NextChild(t)
  BY <1>1, <1>4 DEF ChildCommit, Unlock, Session, SetStatus, StatusSet, Cmd
<1>6. role \in Roles /\ "succeeded" \in Statuses  BY RolesAreRoles DEF Statuses
<1>7. /\ ChildTyped' /\ child'[c][role] = "succeeded"
      /\ \A d \in Anchors, r \in Roles : (d = c /\ r = role) \/ child'[d][r] = child[d][r]
  BY <1>4, <1>5, <1>6, StatusMoves
<1>8. OpsTyped' /\ OpsStay /\ PhasesMove /\ LocatorTyped'  BY <1>5, Parts, NoWrite
<1>9. /\ lease' = [space \in Spaces |-> lease'[space]]
      /\ \A r \in Sessions : SpaceOf[r] # SpaceOf[s] => lease'[SpaceOf[r]] = lease[SpaceOf[r]]
  BY <1>5, LeaseMoves DEF CoordinatorInv
<1>10. lease[SpaceOf[s]] \in {t, None}  BY <1>1, <1>4 DEF Compiled
<1>0. Effects(f, s)
  <2>1. Works(t, f)  BY <1>1 DEF Works
  <2> QED  BY <1>1, <1>4, <1>5, <2>1, ChildEffects
<1>11. /\ rows' \in [Sessions -> Row \cup {Absent}]
       /\ \A r \in Sessions : r # s => rows'[r] = rows[r]
       /\ \A r \in Sessions : Ended(r) => Exists(rows', r) /\ rows'[r].clock = "ended"
       /\ \A r \in Sessions : Is(r, "conflict") =>
              Is(r, "conflict")' \/ (r = s /\ f.cmd \in Resolutions)
       /\ \A r \in Sessions : (Is(r, "authoritative") /\ Live(r))' =>
              \/ Is(r, "authoritative") /\ Live(r)
              \/ locator # None /\ locator.session = r /\ locator.op \notin Activations
       /\ f.cmd \in Activations => Is(s, "conflict")'
       /\ f.aux = "loser" => Ended(s)'
  BY <1>0 DEF Effects
<1>12. Advance  BY <1>7, <1>8, <1>11 DEF Advance
<1>13. PICK g : Go(t, g) /\ FrameHolds(t, g)' /\ g.at \notin {"release", "child_commit"}
  BY <1>1, <1>4, <1>5, <1>7, <1>8, <1>12, Parts, NextHolds
<1>14. \A r \in Sessions : SpaceOf[r] # SpaceOf[s] =>
          lease'[SpaceOf[r]] = lease[SpaceOf[r]] /\ rows'[r] = rows[r]
  BY <1>9, <1>11
<1>15. \A d \in Anchors, r \in Roles :
          \/ child'[d][r] = child[d][r]
          \/ child[d][r] # "none"
          \/ SpaceOf[Target(d, r)] = SpaceOf[s]
  BY <1>4, <1>7
<1>16. \A r \in Sessions : Is(r, "conflict") =>
          \/ Is(r, "conflict")'
          \/ \E u \in Tasks : /\ At(u, "child_commit") /\ frame[u].cmd \in Resolutions
                              /\ frame[u].session = r
  <2>1. At(t, "child_commit")  BY <1>1 DEF At
  <2> QED  BY <1>1, <1>4, <1>11, <2>1
<1>17. \A d \in Activations, r \in {"candidate", "active"} :
          Known(d) /\ Done(d, r)' =>
              \/ Done(d, r)
              \/ /\ Target(d, r) = s /\ Is(s, "conflict")'
                 /\ g = None \/ g.at # "child_commit"
  <2> SUFFICES ASSUME NEW d \in Activations, NEW r \in {"candidate", "active"},
                      Done(d, r)', ~Done(d, r)
               PROVE  Target(d, r) = s /\ Is(s, "conflict")'
    BY <1>13
  <2>1. d = c /\ r = role  BY <1>7 DEF Done, Anchors, Roles
  <2> QED  BY <1>4, <1>11, <2>1
<1>18. \A d \in Resolutions : Known(d) /\ Done(d, "loser")' =>
          Done(d, "loser") \/ Ended(Target(d, "loser"))'
  <2> SUFFICES ASSUME NEW d \in Resolutions, Done(d, "loser")', ~Done(d, "loser")
               PROVE  Ended(Target(d, "loser"))'
    OBVIOUS
  <2>1. d = c /\ role = "loser"  BY <1>7 DEF Done, Anchors, Roles
  <2>2. Target(c, role)' = s  BY <1>4, <1>8, SidesStay, Parts
  <2> QED  BY <1>4, <1>11, <2>1, <2>2
<1>19. /\ g # None /\ g.at = "release" => \A u \in Tasks \ {t} : ~At(u, "release")
       /\ ~(g # None /\ g.at = "child_commit" /\ g.cmd \in Resolutions)
  BY <1>13
<1> HIDE DEF Go
<1> QED
  BY <1>5, <1>7, <1>9, <1>10, <1>11, <1>12, <1>13, <1>14, <1>15, <1>16, <1>17, <1>18,
     <1>19, TaskStep

LEMMA StepChildRestore ==
    ASSUME CoordinatorInv, NEW t \in Tasks, ChildRestore(t)
    PROVE  CoordinatorInv'
<1>1. PICK f : f = frame[t] /\ f # None /\ f.at = "child" /\ Placed(f)
  BY FrameOf DEF ChildRestore, AtChild
<1>2. PICK c \in Anchors : \E role \in RolesFor(c) : \E s \in Sessions :
               c = f.cmd /\ role = f.aux /\ s = f.session /\ s = Target(c, role) /\ Known(c)
  BY <1>1, ChildOf
<1>3. PICK role \in RolesFor(c) : \E s \in Sessions :
               c = f.cmd /\ role = f.aux /\ s = f.session /\ s = Target(c, role) /\ Known(c)
  BY <1>2
<1>4. PICK s \in Sessions :
               c = f.cmd /\ role = f.aux /\ s = f.session /\ s = Target(c, role) /\ Known(c)
  BY <1>3
<1>5. /\ UNCHANGED <<rows, locator, ops, lease>> /\ lease[SpaceOf[s]] = None
      /\ child[c][role] = "applied" /\ StatusSet(c, role, "succeeded") /\ NextChild(t)
  BY <1>1, <1>4 DEF ChildRestore, AtChild, LeaseOf, Session, Status, SetStatus, StatusSet, Cmd
<1>6. role \in Roles /\ "succeeded" \in Statuses  BY RolesAreRoles DEF Statuses
<1>7. /\ ChildTyped' /\ child'[c][role] = "succeeded"
      /\ \A d \in Anchors, r \in Roles : (d = c /\ r = role) \/ child'[d][r] = child[d][r]
  BY <1>4, <1>5, <1>6, StatusMoves
<1>8. OpsTyped' /\ OpsStay /\ PhasesMove /\ LocatorTyped'  BY <1>5, Parts, NoWrite
<1>9. Advance  BY <1>5, <1>7, <1>8 DEF Advance, Ended
<1>10. PICK g : Go(t, g) /\ FrameHolds(t, g)' /\ g.at \notin {"release", "child_commit"}
  BY <1>1, <1>4, <1>5, <1>7, <1>8, <1>9, Parts, NextHolds
<1>11. \A d \in Anchors, r \in Roles : Done(d, r)' => Done(d, r)  BY <1>5, <1>7 DEF Done
<1>12. /\ \A d \in Activations, r \in {"candidate", "active"} : Done(d, r)' => Done(d, r)
       /\ \A d \in Resolutions : Done(d, "loser")' => Done(d, "loser")
  BY <1>11 DEF Anchors, Roles
<1>13. \A d \in Anchors, r \in Roles : child'[d][r] = child[d][r] \/ child[d][r] # "none"
  BY <1>5, <1>7
<1>14. /\ \A r \in Sessions : Is(r, "conflict") => Is(r, "conflict")'
       /\ \A r \in Sessions : (Is(r, "authoritative") /\ Live(r))' =>
              Is(r, "authoritative") /\ Live(r)
  BY <1>5 DEF Is, Live, Exists
<1>15. /\ lease' = [space \in Spaces |-> lease'[space]]
       /\ rows' \in [Sessions -> Row \cup {Absent}]
       /\ \A r \in Sessions : lease'[SpaceOf[r]] = lease[SpaceOf[r]] /\ rows'[r] = rows[r]
  BY <1>5 DEF CoordinatorInv, Tabled
<1>16. /\ g # None /\ g.at = "release" => \A u \in Tasks \ {t} : ~At(u, "release")
       /\ ~(g # None /\ g.at = "child_commit" /\ g.cmd \in Resolutions)
  BY <1>10
<1> HIDE DEF Go
<1> QED
  BY <1>5, <1>7, <1>9, <1>10, <1>12, <1>13, <1>14, <1>15, <1>16, TaskStep

LEMMA StepChildCompile ==
    ASSUME CoordinatorInv, NEW t \in Tasks, ChildCompile(t)
    PROVE  CoordinatorInv'
<1>1. PICK f : f = frame[t] /\ f # None /\ f.at = "child" /\ Placed(f)
  BY FrameOf DEF ChildCompile, AtChild
<1>2. PICK c \in Anchors : \E role \in RolesFor(c) : \E s \in Sessions :
               c = f.cmd /\ role = f.aux /\ s = f.session /\ s = Target(c, role) /\ Known(c)
  BY <1>1, ChildOf
<1>3. PICK role \in RolesFor(c) : \E s \in Sessions :
               c = f.cmd /\ role = f.aux /\ s = f.session /\ s = Target(c, role) /\ Known(c)
  BY <1>2
<1>4. PICK s \in Sessions :
               c = f.cmd /\ role = f.aux /\ s = f.session /\ s = Target(c, role) /\ Known(c)
  BY <1>3
<1>5. UNCHANGED <<rows, locator, ops>> /\ lease[SpaceOf[s]] = None /\ child[c][role] = "none"
  BY <1>1, <1>4 DEF ChildCompile, AtChild, LeaseOf, Session, Status, Cmd
<1>6. OpsTyped' /\ OpsStay /\ PhasesMove /\ LocatorTyped'  BY <1>5, Parts, NoWrite
<1>7. /\ \A r \in Sessions : Is(r, "conflict") => Is(r, "conflict")'
      /\ \A r \in Sessions : (Is(r, "authoritative") /\ Live(r))' =>
             Is(r, "authoritative") /\ Live(r)
      /\ rows' \in [Sessions -> Row \cup {Absent}]
      /\ \A r \in Sessions : Ended(r) => Exists(rows', r) /\ rows'[r].clock = "ended"
  BY <1>5 DEF Is, Live, Exists, Ended, CoordinatorInv, Tabled
<1>8. CASE ~ChildAllowed(t)
  <2>1. StatusSet(c, role, "failed") /\ Go(t, None) /\ UNCHANGED lease
    BY <1>1, <1>4, <1>8 DEF ChildCompile, SetStatus, StatusSet, Cmd, Return
  <2>2. role \in Roles /\ "failed" \in Statuses  BY RolesAreRoles DEF Statuses
  <2>3. /\ ChildTyped' /\ child'[c][role] = "failed"
        /\ \A d \in Anchors, r \in Roles : (d = c /\ r = role) \/ child'[d][r] = child[d][r]
    BY <1>4, <1>5, <2>1, <2>2, StatusMoves
  <2>4. Advance  BY <1>5, <1>6, <1>7, <2>3 DEF Advance
  <2>5. \A d \in Anchors, r \in Roles : Done(d, r)' => Done(d, r)  BY <2>3 DEF Done
  <2>6. /\ \A d \in Activations, r \in {"candidate", "active"} : Done(d, r)' => Done(d, r)
        /\ \A d \in Resolutions : Done(d, "loser")' => Done(d, "loser")
    BY <2>5 DEF Anchors, Roles
  <2>7. \A d \in Anchors, r \in Roles :
           child'[d][r] = child[d][r] \/ SpaceOf[Target(d, r)] = SpaceOf[s]
    BY <1>4, <2>3
  <2>8. /\ lease' = [space \in Spaces |-> lease'[space]]
        /\ \A r \in Sessions : lease'[SpaceOf[r]] = lease[SpaceOf[r]] /\ rows'[r] = rows[r]
    BY <1>5, <2>1 DEF CoordinatorInv, Tabled
  <2>9. PICK g : g = None  OBVIOUS
  <2>10. Go(t, g) /\ FrameHolds(t, g)'  BY <2>1, <2>9, NoFrame
  <2> HIDE DEF Go
  <2> QED
    BY <1>5, <1>7, <2>3, <2>4, <2>6, <2>7, <2>8, <2>9, <2>10, TaskStep
<1>9. CASE ChildAllowed(t)
  <2>1. /\ lease' = [lease EXCEPT ![SpaceOf[s]] = t] /\ To(t, "child_commit") /\ UNCHANGED child
    BY <1>1, <1>4, <1>9 DEF ChildCompile, Lock, Session
  <2>2. /\ lease' = [space \in Spaces |-> lease'[space]] /\ lease'[SpaceOf[s]] = t
        /\ \A r \in Sessions : SpaceOf[r] # SpaceOf[s] => lease'[SpaceOf[r]] = lease[SpaceOf[r]]
    BY <2>1, LeaseMoves DEF CoordinatorInv
  <2>3. PICK g : g = [f EXCEPT !.at = "child_commit"]  OBVIOUS
  <2>4. /\ f = [cmd |-> f.cmd, at |-> f.at, session |-> f.session, epoch |-> f.epoch, aux |-> f.aux]
        /\ f.epoch \in 1..MaxEpoch
        /\ f.aux # First(f.cmd) => child[f.cmd][First(f.cmd)] = "succeeded"
    BY <1>1 DEF Placed, Labelled, OfChild
  <2>5. g = [cmd |-> c, at |-> "child_commit", session |-> s, epoch |-> f.epoch, aux |-> role]
    BY <1>4, <2>3, <2>4
  <2>6. /\ g.at = "child_commit" /\ g.session = s /\ g.aux = role /\ g.cmd = c /\ g.epoch = f.epoch
        /\ g = [cmd |-> g.cmd, at |-> g.at, session |-> g.session, epoch |-> g.epoch, aux |-> g.aux]
    BY <2>5
  <2>7. Go(t, g)  BY <1>1, <2>1, <2>3 DEF To
  <2>8. Exists(rows, s) /\ (c \in Resolutions => CanResolve(s) /\ ResolutionProved(t))
    BY <1>1, <1>4, <1>9 DEF ChildAllowed, CanMark, CanResolve, Is, Session, Cmd
  <2>9. c \in Resolutions => /\ locator # None /\ locator.op = c
                             /\ locator.session = Target(c, "winner")
    BY <1>1, <1>4, <2>8 DEF ResolutionProved, Cmd
  <2>10. FrameHolds(t, g)'
    <3>1. Target(c, role)' = s  BY <1>4, <1>6, SidesStay, Parts
    <3>2. OfChild(g)'
      <4>1. Known(c)'  BY <1>4, <1>5 DEF Known
      <4>2. role # First(c) => child'[c][First(c)] = "succeeded"  BY <1>4, <2>1, <2>4
      <4> QED  BY <2>6, <3>1, <4>1, <4>2 DEF OfChild
    <3>3. OfSpace(g)' /\ OfAnchor(g)' /\ OfPhase(g)'  BY <2>6 DEF OfSpace, OfAnchor, OfPhase
    <3>4. Labelled(g)'  BY <2>4, <2>6 DEF Labelled, Labels
    <3>5. Compiled(t, g)'
      BY <1>5, <2>1, <2>2, <2>6, <2>8 DEF Compiled, Exists, CanResolve, Is, Live
    <3>6. Relies(g)' => UnderLocator(g)'
      <4> SUFFICES ASSUME role = "winner"  PROVE UnderLocator(g)'
        BY <2>6 DEF Relies
      <4>1. c \in Resolutions  BY DEF RolesFor
      <4> QED  BY <1>4, <1>5, <2>6, <2>9, <4>1, Endpoints DEF UnderLocator
    <3> QED  BY <3>2, <3>3, <3>4, <3>5, <3>6 DEF FrameHolds, Placed
  <2>11. Advance  BY <1>5, <1>6, <1>7, <2>1 DEF Advance
  <2>12. ChildTyped'  BY <1>5, <2>1, Parts DEF ChildTyped, Known
  <2>13. \A d, r : Done(d, r)' => Done(d, r)  BY <2>1 DEF Done
  <2>14. /\ \A d \in Anchors, r \in Roles : child'[d][r] = child[d][r]
         /\ \A r \in Sessions : SpaceOf[r] # SpaceOf[s] =>
               lease'[SpaceOf[r]] = lease[SpaceOf[r]] /\ rows'[r] = rows[r]
    BY <1>5, <2>1, <2>2
  <2>15. /\ ~(g # None /\ g.at = "release")
         /\ g # None /\ g.at = "child_commit" /\ g.cmd \in Resolutions =>
               locator = None \/ locator.op \notin Activations
    BY <2>6, <2>9, Endpoints
  <2> HIDE DEF Go
  <2> QED
    BY <1>5, <1>7, <2>2, <2>7, <2>10, <2>11, <2>12, <2>13, <2>14, <2>15, TaskStep
<1> QED  BY <1>8, <1>9

\* The process dies: no handler is left, and the mutation of a child may have got
\* through, whether or not the child is known to have.
LEMMA StepCrash ==
    ASSUME CoordinatorInv, Crash
    PROVE  CoordinatorInv'
<1>1. /\ UNCHANGED <<locator, ops>> /\ frame' = [t \in Tasks |-> None]
      /\ lease' = [space \in Spaces |-> None]
  BY DEF Crash
<1>2. OpsTyped' /\ OpsStay /\ PhasesMove /\ LocatorTyped'  BY <1>1, Parts, NoWrite
<1>3. FramesHold' /\ OneReleases' /\ \A u \in Tasks : ~At(u, "child_commit")'
  <2>1. \A u \in Tasks : frame'[u] = None  BY <1>1
  <2>2. FramesHold'  BY <2>1, NoFrame DEF FramesHold
  <2> QED  BY <2>1, <2>2 DEF OneReleases, At
<1>4. /\ frame' = [t \in Tasks |-> frame'[t]]
      /\ lease' = [space \in Spaces |-> lease'[space]]
  BY <1>1
<1>5. CASE UNCHANGED child /\ UNCHANGED focusVars
  <2>1. rows' = rows /\ child' = child  BY <1>5 DEF focusVars
  <2>2. ChildTyped'  BY <1>1, <2>1, Parts DEF ChildTyped, Known
  <2>3. Tabled'  BY <1>2, <1>4, <2>1, <2>2 DEF CoordinatorInv, Tabled
  <2>4. Advance  BY <1>2, <2>1 DEF Advance, Ended
  <2>5. \A r \in Sessions : Is(r, "conflict") => Is(r, "conflict")'  BY <2>1 DEF Is, Exists
  <2>6. \A d, r : Done(d, r)' => Done(d, r)  BY <2>1 DEF Done
  <2>7. \A r \in Sessions : (Is(r, "authoritative") /\ Live(r))' =>
            Is(r, "authoritative") /\ Live(r)
    BY <2>1 DEF Is, Live, Exists
  <2>8. MarkedStay'  BY <1>1, <1>3, <2>2, <2>5, <2>6, MarksStay
  <2> QED  BY <1>1, <1>3, <2>3, <2>4, <2>6, <2>7, <2>8, SpaceStep
<1>6. ASSUME NEW t \in Tasks, At(t, "child_commit"),
             \/ SetStatus(t, "aborted") /\ UNCHANGED focusVars
             \/ SetStatus(t, "applied") /\ ChildEffect(t)
      PROVE  CoordinatorInv'
  <2>1. PICK f : /\ f = frame[t] /\ f # None /\ f.at = "child_commit" /\ Placed(f)
                 /\ Compiled(t, f) /\ (Relies(f) => UnderLocator(f))
    BY <1>6, FrameOf
  <2>2. PICK c \in Anchors : \E role \in RolesFor(c) : \E s \in Sessions :
                 c = f.cmd /\ role = f.aux /\ s = f.session /\ s = Target(c, role) /\ Known(c)
    BY <2>1, ChildOf
  <2>3. PICK role \in RolesFor(c) : \E s \in Sessions :
                 c = f.cmd /\ role = f.aux /\ s = f.session /\ s = Target(c, role) /\ Known(c)
    BY <2>2
  <2>4. PICK s \in Sessions :
                 c = f.cmd /\ role = f.aux /\ s = f.session /\ s = Target(c, role) /\ Known(c)
    BY <2>3
  <2>5. PICK x \in Statuses : /\ x \in {"aborted", "applied"} /\ StatusSet(c, role, x)
                              /\ IF x = "aborted" THEN UNCHANGED focusVars ELSE ChildEffect(t)
    <3>1. CASE SetStatus(t, "aborted") /\ UNCHANGED focusVars
      BY <2>1, <2>4, <3>1 DEF SetStatus, StatusSet, Statuses, Cmd
    <3>2. CASE SetStatus(t, "applied") /\ ChildEffect(t)
      BY <2>1, <2>4, <3>2 DEF SetStatus, StatusSet, Statuses, Cmd
    <3> QED  BY <1>6, <3>1, <3>2
  <2>6. role \in Roles  BY RolesAreRoles
  <2>7. /\ ChildTyped' /\ child'[c][role] = x
        /\ \A d \in Anchors, r \in Roles : (d = c /\ r = role) \/ child'[d][r] = child[d][r]
    BY <1>1, <2>4, <2>5, <2>6, StatusMoves
  <2>8. child[c][role] = "none"  BY <2>1, <2>4 DEF Compiled
  <2>9. Target(c, role)' = s  BY <1>2, <2>4, SidesStay, Parts
  <2>10. /\ rows' \in [Sessions -> Row \cup {Absent}]
         /\ \A r \in Sessions : Ended(r) => Exists(rows', r) /\ rows'[r].clock = "ended"
         /\ \A r \in Sessions : Is(r, "conflict") =>
                Is(r, "conflict")' \/ (r = s /\ f.cmd \in Resolutions)
         /\ \A r \in Sessions : (Is(r, "authoritative") /\ Live(r))' =>
                \/ Is(r, "authoritative") /\ Live(r)
                \/ locator # None /\ locator.session = r /\ locator.op \notin Activations
         /\ x = "applied" => /\ f.cmd \in Activations => Is(s, "conflict")'
                             /\ f.aux = "loser" => Ended(s)'
    <3>1. CASE x = "aborted"
      <4>1. rows' = rows  BY <2>5, <3>1 DEF focusVars
      <4> QED  BY <3>1, <4>1 DEF Ended, Is, Live, Exists, CoordinatorInv, Tabled
    <3>2. CASE x = "applied"
      <4>1. Works(t, f)  BY <2>1 DEF Works
      <4>2. Effects(f, s)  BY <2>1, <2>4, <2>5, <3>2, <4>1, ChildEffects
      <4> QED  BY <4>2 DEF Effects
    <3> QED  BY <2>5, <3>1, <3>2
  <2>11. Tabled'  BY <1>2, <1>4, <2>7, <2>10 DEF Tabled
  <2>12. Advance  BY <1>2, <2>7, <2>8, <2>10 DEF Advance
  <2>13. \A r \in Sessions : Is(r, "conflict") =>
           \/ Is(r, "conflict")'
           \/ \E u \in Tasks : /\ At(u, "child_commit") /\ frame[u].cmd \in Resolutions
                               /\ frame[u].session = r
    BY <1>6, <2>1, <2>4, <2>10
  <2>14. \A d \in Activations, r \in {"candidate", "active"} :
           Known(d) /\ Done(d, r)' => Done(d, r) \/ Is(Target(d, r), "conflict")'
    <3> SUFFICES ASSUME NEW d \in Activations, NEW r \in {"candidate", "active"},
                        Done(d, r)', ~Done(d, r)
                 PROVE  Is(Target(d, r), "conflict")'
      OBVIOUS
    <3>1. d = c /\ r = role  BY <2>7 DEF Done, Anchors, Roles
    <3>2. x = "applied"  BY <2>5, <2>7, <3>1 DEF Done
    <3> QED  BY <2>4, <2>9, <2>10, <3>1, <3>2
  <2>15. MarkedStay'
    <3>1. \A d \in Activations, r \in {"candidate", "active"} :
             Known(d) /\ Done(d, r)' =>
                 \/ Done(d, r)
                 \/ /\ Is(Target(d, r), "conflict")'
                    /\ \A u \in Tasks : At(u, "child_commit")' => frame'[u].session # Target(d, r)
      BY <1>3, <2>14
    <3> QED  BY <1>1, <1>3, <2>7, <2>13, <3>1, MarksStay
  <2>16. \A d \in Resolutions : Known(d) /\ Done(d, "loser")' =>
           Done(d, "loser") \/ Ended(Target(d, "loser"))'
    <3> SUFFICES ASSUME NEW d \in Resolutions, Done(d, "loser")', ~Done(d, "loser")
                 PROVE  Ended(Target(d, "loser"))'
      OBVIOUS
    <3>1. d = c /\ role = "loser"  BY <2>7 DEF Done, Anchors, Roles
    <3>2. x = "applied"  BY <2>5, <2>7, <3>1 DEF Done
    <3> QED  BY <2>4, <2>9, <2>10, <3>1, <3>2
  <2> QED  BY <1>1, <1>3, <2>10, <2>11, <2>12, <2>15, <2>16, SpaceStep
<1> QED  BY <1>5, <1>6 DEF Crash

\* A review, a correction, or what a device pushes.
LEMMA ElsewhereSteps ==
    ASSUME CoordinatorInv, NEW space, Elsewhere(space)
    PROVE  /\ rows' \in [Sessions -> Row \cup {Absent}]
           /\ \A r \in Sessions : SpaceOf[r] # space => rows'[r] = rows[r]
           /\ \A r \in Sessions : Ended(r) => Exists(rows', r) /\ rows'[r].clock = "ended"
           /\ \A r \in Sessions : Is(r, "conflict") => Is(r, "conflict")'
           /\ \A r \in Sessions : (Is(r, "authoritative") /\ Live(r))' =>
                  Is(r, "authoritative") /\ Live(r)
<1>1. CASE UNCHANGED rows
  BY <1>1, RowsThere DEF Ended, Is, Live, Exists, CoordinatorInv, Tabled
<1>2. ASSUME NEW s \in Sessions, SpaceOf[s] = space, NEW row \in Row,
             rows' = [rows EXCEPT ![s] = row],
             ~Is(s, "conflict"), Ended(s) => row.clock = "ended",
             row.own = "authoritative" => row.clock = "ended"
                                          \/ (Is(s, "authoritative") /\ Live(s))
      PROVE  /\ rows' \in [Sessions -> Row \cup {Absent}]
             /\ \A r \in Sessions : SpaceOf[r] # space => rows'[r] = rows[r]
             /\ \A r \in Sessions : Ended(r) => Exists(rows', r) /\ rows'[r].clock = "ended"
             /\ \A r \in Sessions : Is(r, "conflict") => Is(r, "conflict")'
             /\ \A r \in Sessions : (Is(r, "authoritative") /\ Live(r))' =>
                    Is(r, "authoritative") /\ Live(r)
  <2>1. /\ rows' \in [Sessions -> Row \cup {Absent}] /\ rows'[s] = row /\ row # Absent
        /\ \A r \in Sessions : r # s => rows'[r] = rows[r]
    BY <1>2, RowsThere, SessionsAssumption
  <2>2. \A r \in Sessions : Ended(r) => Exists(rows', r) /\ rows'[r].clock = "ended"
    BY <1>2, <2>1 DEF Ended, Exists
  <2>3. \A r \in Sessions : Is(r, "conflict") => Is(r, "conflict")'
    BY <1>2, <2>1 DEF Is, Exists
  <2>4. \A r \in Sessions : (Is(r, "authoritative") /\ Live(r))' =>
            Is(r, "authoritative") /\ Live(r)
    BY <1>2, <2>1 DEF Is, Live, Exists
  <2> QED  BY <1>2, <2>1, <2>2, <2>3, <2>4
<1>3. ASSUME NEW s \in Sessions, SpaceOf[s] = space, NEW v \in {"valid", "invalid"}, Review(s, v)
      PROVE  \E row \in Row : /\ rows' = [rows EXCEPT ![s] = row]
                              /\ ~Is(s, "conflict") /\ row.clock = "ended"
  <2>1. rows[s] \in Row /\ rows[s].clock = "ended"
    BY <1>3, RowsThere DEF Review, Ended
  <2>2. PICK row : row = Reviewed(rows[s], v)  OBVIOUS
  <2>3. row \in Row /\ row.clock = "ended"
    BY <2>1, <2>2 DEF Reviewed, Row, Owns, Validities
  <2>4. rows' = [rows EXCEPT ![s] = row] /\ ~Is(s, "conflict")
    BY <1>3, <2>2 DEF Review
  <2> QED  BY <2>3, <2>4
<1>4. ASSUME NEW s \in Sessions, SpaceOf[s] = space, NEW own \in Owns, NEW clock \in Clocks,
             SyncCreate(s, own, clock)
      PROVE  \E row \in Row : /\ rows' = [rows EXCEPT ![s] = row] /\ ~Exists(rows, s)
                              /\ row.own # "authoritative"
  <2>1. PICK row : row = [clock |-> clock, own |-> own, validity |-> "pending"]  OBVIOUS
  <2>2. row \in Row /\ row.own # "authoritative"
    BY <1>4, <2>1 DEF SyncCreate, Row, Validities
  <2> QED  BY <1>4, <2>1, <2>2 DEF SyncCreate
<1>5. ASSUME NEW s \in Sessions, SpaceOf[s] = space, NEW action \in {"pause", "resume", "end"},
             NEW v \in Validities, SyncClock(s, action, v)
      PROVE  \E row \in Row : /\ rows' = [rows EXCEPT ![s] = row]
                              /\ ~Is(s, "conflict") /\ row.own # "authoritative"
                              /\ Ended(s) => row.clock = "ended"
  <2>1. rows[s] \in Row /\ rows[s].own = "provisional" /\ ClockAllows(action, rows[s])
    BY <1>5, RowsThere DEF SyncClock, SyncMayTouch, Is
  <2>2. PICK row : row = ClockAfter(action, v, rows[s])  OBVIOUS
  <2>3. /\ row \in Row /\ row.own = "provisional"
        /\ rows[s].clock = "ended" => row.clock = "ended"
    BY <2>1, <2>2, ClockSteps DEF SpaceKinds
  <2>4. rows' = [rows EXCEPT ![s] = row]
    BY <1>5, <2>2 DEF SyncClock, RowsAfterClock
  <2> QED  BY <2>1, <2>3, <2>4 DEF Is, Ended
<1>6. CASE Rebuild(space)  BY <1>1, <1>6 DEF Rebuild
<1>7. ASSUME NEW s \in Sessions, SpaceOf[s] = space,
             \/ \E v \in {"valid", "invalid"} : Review(s, v)
             \/ \E i \in Items : Correct(s, i) \/ SyncAttribution(s, i)
             \/ \E own \in Owns, clock \in Clocks : SyncCreate(s, own, clock)
             \/ \E action \in {"pause", "resume", "end"}, v \in Validities :
                    SyncClock(s, action, v)
      PROVE  \/ UNCHANGED rows
             \/ \E row \in Row :
                  /\ rows' = [rows EXCEPT ![s] = row] /\ ~Is(s, "conflict")
                  /\ Ended(s) => row.clock = "ended"
                  /\ row.own = "authoritative" => row.clock = "ended"
  <2>1. CASE \E v \in {"valid", "invalid"} : Review(s, v)  BY <1>3, <1>7, <2>1
  <2>2. CASE \E i \in Items : Correct(s, i) \/ SyncAttribution(s, i)
    BY <2>2 DEF Correct, SyncAttribution
  <2>3. CASE \E own \in Owns, clock \in Clocks : SyncCreate(s, own, clock)
    <3>1. PICK row \in Row : /\ rows' = [rows EXCEPT ![s] = row] /\ ~Exists(rows, s)
                             /\ row.own # "authoritative"
      BY <1>4, <1>7, <2>3
    <3> QED  BY <3>1 DEF Is, Ended
  <2>4. CASE \E action \in {"pause", "resume", "end"}, v \in Validities : SyncClock(s, action, v)
    BY <1>5, <1>7, <2>4
  <2> QED  BY <1>7, <2>1, <2>2, <2>3, <2>4
<1>8. CASE \E s \in Sessions : /\ SpaceOf[s] = space
                               /\ \/ UNCHANGED rows
                                  \/ \E row \in Row :
                                       /\ rows' = [rows EXCEPT ![s] = row] /\ ~Is(s, "conflict")
                                       /\ Ended(s) => row.clock = "ended"
                                       /\ row.own = "authoritative" => row.clock = "ended"
  BY <1>1, <1>2, <1>8
<1> QED  BY <1>6, <1>7, <1>8 DEF Elsewhere

\* A step that touches no session under a lease, and none of the handlers.
LEMMA StepBeside ==
    ASSUME CoordinatorInv, UNCHANGED <<locator, ops, child, frame, lease>>,
           \A u \in Tasks, s \in Sessions : lease[SpaceOf[s]] = u => rows'[s] = rows[s],
           rows' \in [Sessions -> Row \cup {Absent}],
           \A r \in Sessions : Ended(r) => Exists(rows', r) /\ rows'[r].clock = "ended",
           \A r \in Sessions : Is(r, "conflict") => Is(r, "conflict")',
           \A r \in Sessions : (Is(r, "authoritative") /\ Live(r))' =>
               Is(r, "authoritative") /\ Live(r)
    PROVE  CoordinatorInv'
<1>1. OpsTyped' /\ OpsStay /\ PhasesMove /\ LocatorTyped'  BY Parts, NoWrite
<1>2. Advance  BY <1>1 DEF Advance
<1>3. ChildTyped'  BY Parts DEF ChildTyped, Known
<1>4. Tabled'  BY <1>1, <1>3 DEF CoordinatorInv, Tabled
<1>5. ASSUME NEW u \in Tasks, NEW f, f = frame'[u]  PROVE FrameHolds(u, f)'
  <2>1. f = frame[u]  BY <1>5
  <2>2. FrameHolds(u, f)  BY <2>1, Framed, Parts
  <2>3. ASSUME f # None  PROVE Undisturbed(u, f)
    <3>1. Placed(f) /\ Compiled(u, f)  BY <2>2, <2>3 DEF FrameHolds
    <3>2. f.at \in {"commit", "child_commit"} =>
             lease'[SpaceOf[f.session]] = u /\ rows'[f.session] = rows[f.session]
      <4> SUFFICES ASSUME f.at \in {"commit", "child_commit"}
                   PROVE  lease'[SpaceOf[f.session]] = u /\ rows'[f.session] = rows[f.session]
        OBVIOUS
      <4>1. f.session \in Sessions  BY <3>1, SessionOf
      <4>2. lease[SpaceOf[f.session]] = u  BY <3>1 DEF Compiled
      <4> QED  BY <4>1, <4>2
    <3>3. UnderLocator(f) => UnderLocator(f)'  BY DEF UnderLocator
    <3> QED  BY <3>2, <3>3 DEF Undisturbed
  <2> QED  BY <1>1, <1>2, <2>2, <2>3, FrameStays, Parts
<1>6. FramesHold'  BY <1>5 DEF FramesHold
<1>7. OneReleases'  BY DEF CoordinatorInv, OneReleases, At
<1>8. \A d, r : Done(d, r)' => Done(d, r)  BY DEF Done
<1>9. MarkedStay'
  <2>1. \A u \in Tasks : At(u, "child_commit")' => At(u, "child_commit") /\ frame'[u] = frame[u]
    BY DEF At
  <2> QED  BY <1>3, <1>8, <2>1, MarksStay
<1> QED  BY <1>2, <1>4, <1>6, <1>7, <1>8, <1>9, SpaceStep

LEMMA StepOthers ==
    ASSUME CoordinatorInv, Others
    PROVE  CoordinatorInv'
<1>1. PICK space \in Spaces : lease[space] = None /\ Elsewhere(space)  BY DEF Others
<1>2. UNCHANGED <<locator, ops, child, frame, lease>>  BY DEF Others
<1>3. \A u \in Tasks, s \in Sessions : lease[SpaceOf[s]] = u => SpaceOf[s] # space
  BY <1>1, NoneAssumption
<1> QED  BY <1>1, <1>2, <1>3, ElsewhereSteps, StepBeside

LEMMA StepNothing ==
    ASSUME CoordinatorInv, UNCHANGED coordinatorVars
    PROVE  CoordinatorInv'
<1>1. UNCHANGED <<rows, locator, ops, child, frame, lease>>  BY DEF coordinatorVars
<1>2. /\ rows' \in [Sessions -> Row \cup {Absent}]
      /\ \A r \in Sessions : Ended(r) => Exists(rows', r) /\ rows'[r].clock = "ended"
      /\ \A r \in Sessions : Is(r, "conflict") => Is(r, "conflict")'
      /\ \A r \in Sessions : (Is(r, "authoritative") /\ Live(r))' =>
             Is(r, "authoritative") /\ Live(r)
  BY <1>1 DEF CoordinatorInv, Tabled, Ended, Is, Live, Exists
<1> QED  BY <1>1, <1>2, StepBeside

LEMMA RowsBefore ==
    ASSUME NEW row \in Before
    PROVE  /\ row \in Row \cup {Absent}
           /\ row # Absent => row.own # "authoritative" \/ row.clock = "ended"
<1>1. /\ Pushed \in Row
      /\ Pushed = [clock |-> "running", own |-> "provisional", validity |-> "pending"]
  BY DEF Pushed, Row, Clocks, Owns, Validities
<1>2. StartedRow = [clock |-> "running", own |-> "authoritative", validity |-> "pending"]
  BY DEF StartedRow
<1>3. ClockAfter("end", "valid", Pushed)
        = [clock |-> "ended", own |-> "provisional", validity |-> "valid"]
  BY <1>1 DEF ClockAfter
<1>4. ClockAfter("end", "valid", StartedRow)
        = [clock |-> "ended", own |-> "authoritative", validity |-> "valid"]
  BY <1>2 DEF ClockAfter
<1>5. [Pushed EXCEPT !.clock = "paused"]
        = [clock |-> "paused", own |-> "provisional", validity |-> "pending"]
  BY <1>1
<1>6. [Pushed EXCEPT !.own = "conflict"]
        = [clock |-> "running", own |-> "conflict", validity |-> "pending"]
  BY <1>1
<1>7. CASE row = Absent  BY <1>7
<1>8. CASE row = Pushed  BY <1>1, <1>8
<1>9. CASE row = ClockAfter("end", "valid", Pushed)
  BY <1>3, <1>9 DEF Row, Clocks, Owns, Validities
<1>10. CASE row = ClockAfter("end", "valid", StartedRow)
  BY <1>4, <1>10 DEF Row, Clocks, Owns, Validities
<1>11. CASE row \in Unattributed
  BY <1>5, <1>6, <1>11 DEF Unattributed, Row, Clocks, Owns, Validities
<1> QED  BY <1>7, <1>8, <1>9, <1>10, <1>11 DEF Before

LEMMA CoordinatorBegins == CoordinatorInit => CoordinatorInv
<1> SUFFICES ASSUME CoordinatorInit  PROVE CoordinatorInv
  OBVIOUS
<1>1. /\ locator = None /\ ops = [c \in Commands |-> None]
      /\ child = [c \in Activations \cup Resolutions |-> [r \in Roles |-> "none"]]
      /\ frame = [t \in Tasks |-> None] /\ lease = [space \in Spaces |-> None]
      /\ rows \in [Sessions -> Before]
  BY SessionsAssumption DEF CoordinatorInit, FocusInit
<1>2. \A c \in Commands : ~Known(c)  BY <1>1 DEF Known
<1>3. /\ Activations \subseteq Commands /\ Resolutions \subseteq Commands
      /\ Starts \cup Ends \cup Touches \subseteq Commands
  BY DEF Commands
<1>4. OpsTyped  BY <1>1, <1>2, <1>3 DEF OpsTyped
<1>5. ChildTyped
  <2>1. "none" \in Statuses  BY DEF Statuses
  <2> QED  BY <1>1, <2>1 DEF ChildTyped, Anchors
<1>6. rows \in [Sessions -> Row \cup {Absent}]  BY <1>1, RowsBefore
<1>7. Tabled  BY <1>1, <1>4, <1>5, <1>6 DEF Tabled, LocatorTyped
<1>8. \A t \in Tasks : frame[t] = None  BY <1>1
<1>9. FramesHold  BY <1>8 DEF FramesHold, FrameHolds
<1>10. OneReleases  BY <1>8 DEF OneReleases, At
<1>11. \A s \in Sessions : ~(Is(s, "authoritative") /\ Live(s))
  BY <1>1, RowsBefore DEF Is, Live, Exists
<1>12. RunningUnderLocator /\ NobodyRuns  BY <1>11 DEF RunningUnderLocator, NobodyRuns
<1>13. MarkedStay  BY <1>1 DEF MarkedStay
<1>14. LosersEnded  BY <1>2, <1>3 DEF LosersEnded
<1>15. PhasesAreProven  BY <1>2, <1>3 DEF PhasesAreProven, Known
<1> QED
  BY <1>7, <1>9, <1>10, <1>12, <1>13, <1>14, <1>15 DEF CoordinatorInv

LEMMA CoordinatorSteps == CoordinatorInv /\ [CoordinatorNext]_coordinatorVars => CoordinatorInv'
<1> SUFFICES ASSUME CoordinatorInv, [CoordinatorNext]_coordinatorVars  PROVE CoordinatorInv'
  OBVIOUS
<1>1. ASSUME NEW t \in Tasks, Begin(t)  PROVE CoordinatorInv'
  <2>1. ASSUME NEW c \in Starts, NEW s \in Sessions, ClaimStart(t, c, s)  PROVE CoordinatorInv'
    BY <2>1, StepClaimStart
  <2>2. ASSUME NEW c \in Touches, NEW kind \in TouchKinds, NEW e \in 1..MaxEpoch,
               TouchLocator(t, c, kind, e)
        PROVE  CoordinatorInv'
    BY <2>2, StepTouch
  <2>3. ASSUME NEW c \in Ends, NEW e \in 1..MaxEpoch, ClaimEnd(t, c, e)  PROVE CoordinatorInv'
    BY <2>3, StepClaimEnd
  <2>4. ASSUME NEW c \in Activations, NEW a \in Sessions, NEW b \in Sessions, Activate(t, c, a, b)
        PROVE  CoordinatorInv'
    BY <2>4, StepActivate
  <2>5. ASSUME NEW c \in Resolutions, NEW w \in {"active", "candidate"}, ReadConflict(t, c, w)
        PROVE  CoordinatorInv'
    BY <2>5, StepReadConflict
  <2> QED  BY <1>1, <2>1, <2>2, <2>3, <2>4, <2>5 DEF Begin
<1>2. ASSUME NEW t \in Tasks, Proceed(t)  PROVE CoordinatorInv'
  BY <1>2, StepCompile, StepCommit, StepRotateEnd, StepReleaseEnd, StepOn, StepChildRestore,
     StepChildCompile, StepChildCommit, StepAwaitResolution, StepAnchorResolution,
     StepReadProof, StepTransfer, StepComplete
  DEF Proceed
<1>3. CASE Crash  BY <1>3, StepCrash
<1>4. CASE Others  BY <1>4, StepOthers
<1>5. CASE UNCHANGED coordinatorVars  BY <1>5, StepNothing
<1> QED  BY <1>1, <1>2, <1>3, <1>4, <1>5 DEF CoordinatorNext

\* The inductive invariant of the coordinator (coordinator.py): what its handlers
\* rely on between their transactions and mutations.
THEOREM CoordinatorInvariance == CoordinatorSpec => []CoordinatorInv
<1>1. CoordinatorInit => CoordinatorInv  BY CoordinatorBegins
<1>2. CoordinatorInv /\ [CoordinatorNext]_coordinatorVars => CoordinatorInv'  BY CoordinatorSteps
<1> QED  BY <1>1, <1>2, PTL DEF CoordinatorSpec

\* A clean verdict of the recovery authority follows from the locator that the
\* handlers leave, and from the marks that they leave on the sessions.
LEMMA CleanVerdicts == CoordinatorInv => CleanIsCoherent
<1> SUFFICES ASSUME CoordinatorInv, NEW expired \in BOOLEAN
             PROVE  /\ Verdict(expired) = "empty" =>
                          \A s \in Sessions : ~(Is(s, "authoritative") /\ Live(s))
                    /\ Verdict(expired) = "awaiting_resolution" => InConflict(locator.op)
                    /\ Verdict(expired) \in {"active_consistent", "recoverable_claiming"} =>
                          \A s \in Sessions \ {locator.session} :
                              ~(Is(s, "authoritative") /\ Live(s))
  BY DEF CleanIsCoherent
<1>1. \A s \in Sessions : Is(s, "authoritative") /\ Live(s) => locator # None /\ locator.session = s
  BY DEF CoordinatorInv, RunningUnderLocator
<1>2. ASSUME Verdict(expired) = "empty"  PROVE locator = None
  <2> SUFFICES ASSUME locator # None  PROVE Verdict(expired) # "empty"
    BY <1>2
  <2>1. Classify # "empty"
    BY DEF Classify, ClassifyAwaiting, ClassifyClaimed, ClassifyTransferred, Required
  <2> QED  BY <2>1 DEF Verdict, Required
<1>3. ASSUME Verdict(expired) = "awaiting_resolution"  PROVE InConflict(locator.op)
  <2>1. locator # None /\ Classify = "awaiting_resolution"
    BY <1>3 DEF Verdict, Required
  <2>2. \/ ClassifyAwaiting(locator.op) = "awaiting_resolution"
        \/ ClassifyClaimed(locator.op) = "awaiting_resolution"
    BY <2>1 DEF Classify, ClassifyTransferred, Required
  <2>3. CASE ClassifyAwaiting(locator.op) = "awaiting_resolution"
    BY <2>3 DEF ClassifyAwaiting, Required
  <2>4. CASE ClassifyClaimed(locator.op) = "awaiting_resolution"
    <3>1. locator.op \in Activations /\ AllSucceeded(locator.op, {"candidate", "active"})
      BY <2>4 DEF ClassifyClaimed, Required
    <3>2. PICK c \in Activations : c = locator.op  BY <3>1
    <3>3. \A role \in {"candidate", "active"} : Done(c, role)
      BY <3>1, <3>2 DEF AllSucceeded, ChildOutcome, Done
    <3>4. \A role \in {"candidate", "active"} : Is(Target(c, role), "conflict")
      BY <2>1, <3>2, <3>3 DEF CoordinatorInv, MarkedStay
    <3>5. c \notin Resolutions /\ c \in Anchors /\ Known(c)
      BY <2>1, <3>2, Endpoints, Parts DEF Anchors
    <3>6. Pair(c).active = Target(c, "active") /\ Pair(c).candidate = Target(c, "candidate")
      BY <3>5 DEF Pair, Target, Sides
    <3>7. \A role \in {"candidate", "active"} : Target(c, role) \in Sessions
      BY <3>5, SidesAreSessions, Parts DEF RolesFor
    <3>8. ASSUME NEW s \in Sessions, Is(s, "conflict")
          PROVE  Fact(s) # None /\ Fact(s).own = "conflict"
      <4>1. rows[s] \in Row /\ Exists(rows, s)  BY <3>8, RowsThere DEF Is
      <4>2. Fact(s) = [ended |-> Ended(s), own |-> rows[s].own, validity |-> rows[s].validity]
        BY <4>1 DEF Fact
      <4>3. Ended(s) \in BOOLEAN  BY <4>1 DEF Ended
      <4>4. Fact(s) \in [ended : BOOLEAN, own : Owns, validity : Validities]
        BY <4>1, <4>2, <4>3 DEF Row
      <4> QED  BY <3>8, <4>2, <4>4, FactAssumption DEF Is
    <3> QED  BY <3>2, <3>4, <3>6, <3>7, <3>8 DEF InConflict
  <2> QED  BY <2>2, <2>3, <2>4
<1> QED  BY <1>1, <1>2, <1>3

\* What the locator, the phases of the operations and the recovery authority say of
\* the sessions is so (coordinator.py, recovery_authority.py), whatever crashed or
\* ran at the same time.
THEOREM EvidenceStands == CoordinatorSpec => []EvidenceHolds
<1>1. CoordinatorInv => EvidenceHolds  BY CleanVerdicts DEF CoordinatorInv, EvidenceHolds
<1> QED  BY <1>1, CoordinatorInvariance, PTL

----------------------------------------------------------------------------
(* The effort that the sessions add up to. *)

\* Ended sessions that were marked as in conflict: they no longer count, but their
\* time may still be in the total of work item i.
Withheld(rs, rv, space, i) ==
    {s \in Sessions : /\ SpaceOf[s] = space
                      /\ Exists(rs, s)
                      /\ rs[s].own = "conflict" /\ rs[s].clock = "ended"
                      /\ rs[s].validity = "valid"
                      /\ rv[s] # <<>> /\ Last(rv[s]) = i}

Adds(e, rs, rv, space, i) ==
    /\ e \in Nat
    /\ e >= Total(rs, rv, space, i)
    /\ e <= Total(rs, rv, space, i) + Cardinality(Withheld(rs, rv, space, i))

\* The inductive invariant of the effort projection.
EffortInv ==
    /\ revisions \in [Sessions -> Seq(Items)]
    /\ effort \in [Spaces -> [Items -> Nat]]
    /\ \A space \in Spaces, i \in Items : Adds(effort[space][i], rows, revisions, space, i)

LEMMA Counted ==
    ASSUME NEW rs, NEW rv, NEW space, NEW i
    PROVE  /\ IsFiniteSet(Contributors(rs, rv, space, i))
           /\ IsFiniteSet(Withheld(rs, rv, space, i))
           /\ Total(rs, rv, space, i) \in Nat
           /\ Cardinality(Withheld(rs, rv, space, i)) \in Nat
<1>1. Contributors(rs, rv, space, i) \subseteq Sessions  BY DEF Contributors
<1>2. Withheld(rs, rv, space, i) \subseteq Sessions  BY DEF Withheld
<1>3. IsFiniteSet(Sessions)  BY SessionsAssumption
<1>4. IsFiniteSet(Contributors(rs, rv, space, i))  BY <1>1, <1>3, FS_Subset
<1>5. IsFiniteSet(Withheld(rs, rv, space, i))  BY <1>2, <1>3, FS_Subset
<1> QED  BY <1>4, <1>5, FS_CardinalityType DEF Total

LEMMA Exactly ==
    ASSUME NEW rs, NEW rv, NEW space, NEW i
    PROVE  Adds(Total(rs, rv, space, i), rs, rv, space, i)
BY Counted DEF Adds

\* Session s has nothing to say of item i.
Silent(rs, rv, s, i) ==
    \/ ~Exists(rs, s) \/ rv[s] = <<>> \/ Last(rv[s]) # i
    \/ ~Counts(rs[s]) /\ ~(rs[s].own = "conflict" /\ rs[s].clock = "ended"
                                                 /\ rs[s].validity = "valid")

LEMMA Unmoved ==
    ASSUME NEW rs, NEW rv, NEW qs, NEW qv, NEW s, NEW space, NEW i,
           \A r \in Sessions \ {s} : rs[r] = qs[r] /\ rv[r] = qv[r],
           SpaceOf[s] = space => Silent(rs, rv, s, i) /\ Silent(qs, qv, s, i)
    PROVE  \A e : Adds(e, rs, rv, space, i) => Adds(e, qs, qv, space, i)
<1>1. ASSUME NEW r \in Sessions
      PROVE  r \in Contributors(rs, rv, space, i) <=> r \in Contributors(qs, qv, space, i)
  <2>1. CASE r = s  BY <2>1 DEF Contributors, Silent, Counts
  <2>2. CASE r # s
    <3>1. rs[r] = qs[r] /\ rv[r] = qv[r]  BY <2>2
    <3> QED  BY <3>1 DEF Contributors, Exists
  <2> QED  BY <2>1, <2>2
<1>2. ASSUME NEW r \in Sessions
      PROVE  r \in Withheld(rs, rv, space, i) <=> r \in Withheld(qs, qv, space, i)
  <2>1. CASE r = s  BY <2>1 DEF Withheld, Silent
  <2>2. CASE r # s
    <3>1. rs[r] = qs[r] /\ rv[r] = qv[r]  BY <2>2
    <3> QED  BY <3>1 DEF Withheld, Exists
  <2> QED  BY <2>1, <2>2
<1>3. Contributors(rs, rv, space, i) = Contributors(qs, qv, space, i)
  BY <1>1 DEF Contributors
<1>4. Withheld(rs, rv, space, i) = Withheld(qs, qv, space, i)
  BY <1>2 DEF Withheld
<1> QED  BY <1>3, <1>4 DEF Adds, Total

LEMMA LastInRange ==
    ASSUME NEW q \in Seq(Items), q # <<>>
    PROVE  Last(q) \in Range(q) /\ Last(q) \in Items
<1>1. Len(q) \in 1..Len(q) /\ DOMAIN q = 1..Len(q)  OBVIOUS
<1>2. q[Len(q)] \in Items  BY <1>1
<1> QED  BY <1>1, <1>2 DEF Last, Range

LEMMA SpaceThere == \A s \in Sessions : SpaceOf[s] \in Spaces
BY DEF Spaces

LEMMA Recounted ==
    ASSUME EffortInv, NEW s \in Sessions,
           revisions' \in [Sessions -> Seq(Items)],
           \A r \in Sessions \ {s} : rows'[r] = rows[r] /\ revisions'[r] = revisions[r],
           Range(revisions[s]) \subseteq Range(revisions'[s]),
           effort' = Recomputed(rows', revisions', s)
    PROVE  EffortInv'
<1> DEFINE here == SpaceOf[s]
<1> DEFINE new == [i \in Items |-> IF i \in Affected(revisions', s)
                                   THEN Total(rows', revisions', here, i) ELSE effort[here][i]]
<1>1. here \in Spaces  BY SpaceThere
<1>2. effort' = [effort EXCEPT ![here] = new]  BY DEF Recomputed
<1>3. new \in [Items -> Nat]
  <2>1. \A i \in Items : Total(rows', revisions', here, i) \in Nat  BY Counted
  <2> QED  BY <1>1, <2>1 DEF EffortInv
<1> HIDE DEF new
<1>4. effort' \in [Spaces -> [Items -> Nat]]  BY <1>2, <1>3 DEF EffortInv
<1>5. ASSUME NEW space \in Spaces, NEW i \in Items
      PROVE  Adds(effort'[space][i], rows', revisions', space, i)
  <2>1. Adds(effort[space][i], rows, revisions, space, i)  BY DEF EffortInv
  <2>2. CASE space = here /\ i \in Affected(revisions', s)
    <3>1. effort'[space] = new  BY <1>2, <2>2 DEF EffortInv
    <3>2. new[i] = Total(rows', revisions', space, i)  BY <2>2 DEF new
    <3> QED  BY <3>1, <3>2, Exactly
  <2>3. CASE ~(space = here /\ i \in Affected(revisions', s))
    <3>1. effort'[space][i] = effort[space][i]
      BY <1>2, <2>3 DEF EffortInv, new
    <3>2. SpaceOf[s] = space =>
             Silent(rows, revisions, s, i) /\ Silent(rows', revisions', s, i)
      <4> SUFFICES ASSUME SpaceOf[s] = space
                   PROVE  Silent(rows, revisions, s, i) /\ Silent(rows', revisions', s, i)
        OBVIOUS
      <4>1. i \notin Range(revisions'[s]) /\ i \notin Range(revisions[s])
        BY <2>3 DEF Affected
      <4>2. revisions[s] \in Seq(Items) /\ revisions'[s] \in Seq(Items)  BY DEF EffortInv
      <4> QED  BY <4>1, <4>2, LastInRange DEF Silent
    <3>3. \A r \in Sessions \ {s} : rows[r] = rows'[r] /\ revisions[r] = revisions'[r]
      OBVIOUS
    <3>4. \A e : Adds(e, rows, revisions, space, i) => Adds(e, rows', revisions', space, i)
      BY <3>2, <3>3, Unmoved
    <3> QED  BY <2>1, <3>1, <3>4
  <2> QED  BY <2>2, <2>3
<1> QED  BY <1>4, <1>5 DEF EffortInv

LEMMA NotRecounted ==
    ASSUME EffortInv, NEW s \in Sessions,
           revisions' \in [Sessions -> Seq(Items)],
           \A r \in Sessions \ {s} : rows'[r] = rows[r] /\ revisions'[r] = revisions[r],
           \A i \in Items : Silent(rows, revisions, s, i) /\ Silent(rows', revisions', s, i),
           effort' = effort
    PROVE  EffortInv'
<1>1. ASSUME NEW space \in Spaces, NEW i \in Items
      PROVE  Adds(effort[space][i], rows', revisions', space, i)
  <2>1. Adds(effort[space][i], rows, revisions, space, i)  BY DEF EffortInv
  <2>2. Silent(rows, revisions, s, i) /\ Silent(rows', revisions', s, i)  OBVIOUS
  <2>3. \A r \in Sessions \ {s} : rows[r] = rows'[r] /\ revisions[r] = revisions'[r]
    OBVIOUS
  <2> QED  BY <2>1, <2>2, <2>3, Unmoved
<1> QED  BY <1>1 DEF EffortInv

LEMMA MarkKeeps ==
    ASSUME EffortInv, rows \in [Sessions -> Row \cup {Absent}], NEW s \in Sessions,
           Exists(rows, s), Mark(s)
    PROVE  EffortInv'
<1>1. rows[s] \in Row /\ rows' = [rows EXCEPT ![s] = [rows[s] EXCEPT !.own = "conflict"]]
  BY DEF Exists, Mark
<1>2. rows'[s] = [clock |-> rows[s].clock, own |-> "conflict", validity |-> rows[s].validity]
  BY <1>1 DEF Row
<1>3. rows'[s] \in Row  BY <1>1, <1>2 DEF Row, Owns
<1>4. \A r \in Sessions \ {s} : rows'[r] = rows[r]  BY <1>1
<1>5. rows'[s] # Absent  BY <1>3, SessionsAssumption
<1>6. revisions' = revisions /\ effort' = effort  BY DEF Mark
<1>7. ASSUME NEW space \in Spaces, NEW i \in Items
      PROVE  Adds(effort[space][i], rows', revisions, space, i)
  <2> DEFINE C == Contributors(rows, revisions, space, i)
             D == Contributors(rows', revisions, space, i)
             W == Withheld(rows, revisions, space, i)
             X == Withheld(rows', revisions, space, i)
  <2>1. D = C \ {s}
    <3>1. s \notin D  BY <1>2 DEF Contributors, Counts
    <3>2. \A r \in Sessions \ {s} : r \in D <=> r \in C
      BY <1>4 DEF Contributors, Exists
    <3> QED  BY <3>1, <3>2 DEF Contributors
  <2>2. W \subseteq X
    <3>1. s \in W => s \in X  BY <1>2, <1>5 DEF Withheld, Exists
    <3>2. \A r \in Sessions \ {s} : r \in W => r \in X
      BY <1>4 DEF Withheld, Exists
    <3> QED  BY <3>1, <3>2 DEF Withheld
  <2>3. s \in C => s \in X /\ s \notin W
    BY <1>2, <1>5 DEF Contributors, Counts, Withheld, Exists
  <2>4. /\ IsFiniteSet(C) /\ IsFiniteSet(D) /\ IsFiniteSet(W) /\ IsFiniteSet(X)
        /\ Cardinality(C) \in Nat /\ Cardinality(D) \in Nat
        /\ Cardinality(W) \in Nat /\ Cardinality(X) \in Nat
    BY Counted DEF Total
  <2>5. effort[space][i] \in Nat /\ effort[space][i] >= Cardinality(C)
        /\ effort[space][i] <= Cardinality(C) + Cardinality(W)
    BY DEF EffortInv, Adds, Total
  <2> HIDE DEF C, D, W, X
  <2>6. Cardinality(D) <= Cardinality(C)
        /\ Cardinality(C) + Cardinality(W) <= Cardinality(D) + Cardinality(X)
    <3>1. CASE s \in C
      <4>1. Cardinality(D) = Cardinality(C) - 1  BY <2>1, <2>4, <3>1, FS_RemoveElement
      <4>2. Cardinality(W \cup {s}) = Cardinality(W) + 1
        BY <2>3, <2>4, <3>1, FS_AddElement
      <4>3. W \cup {s} \subseteq X  BY <2>2, <2>3, <3>1
      <4>4. Cardinality(W \cup {s}) <= Cardinality(X)  BY <2>4, <4>3, FS_Subset
      <4> QED  BY <2>4, <4>1, <4>2, <4>4
    <3>2. CASE s \notin C
      <4>1. D = C  BY <2>1, <3>2
      <4>2. Cardinality(W) <= Cardinality(X)  BY <2>2, <2>4, FS_Subset
      <4> QED  BY <2>4, <4>1, <4>2
    <3> QED  BY <3>1, <3>2
  <2>7. effort[space][i] >= Cardinality(D) /\ effort[space][i] <= Cardinality(D) + Cardinality(X)
    BY <2>4, <2>5, <2>6
  <2> QED  BY <2>5, <2>7 DEF Adds, Total, D, X
<1> QED  BY <1>6, <1>7 DEF EffortInv

LEMMA Transits ==
    ASSUME EffortInv, rows \in [Sessions -> Row \cup {Absent}], NEW s \in Sessions,
           NEW action, NEW v \in Validities,
           Exists(rows, s), ~Is(s, "conflict"), ClockAllows(action, rows[s]),
           Transit(s, action, v)
    PROVE  EffortInv'
<1>1. rows' = [rows EXCEPT ![s] = ClockAfter(action, v, rows[s])] /\ revisions' = revisions
  BY DEF Transit, RowsAfterClock
<1>2. \A r \in Sessions \ {s} : rows'[r] = rows[r] /\ revisions'[r] = revisions[r]  BY <1>1
<1>3. revisions' \in [Sessions -> Seq(Items)]  BY <1>1 DEF EffortInv
<1>4. CASE action = "end"
  <2>1. effort' = Recomputed(rows', revisions', s)
    BY <1>4 DEF Transit
  <2>2. Range(revisions[s]) \subseteq Range(revisions'[s])  BY <1>1
  <2> QED  BY <1>2, <1>3, <2>1, <2>2, Recounted
<1>5. CASE action # "end"
  <2>1. effort' = effort  BY <1>5 DEF Transit
  <2>2. rows[s] \in Row /\ rows'[s] = ClockAfter(action, v, rows[s])  BY <1>1 DEF Exists
  <2>3. CASE action \in {"pause", "resume"}
    <3>1. rows[s].clock # "ended"  BY <2>3 DEF ClockAllows
    <3>2. rows'[s].clock # "ended"  BY <2>2, <2>3 DEF ClockAfter, Row
    <3>3. \A i \in Items : Silent(rows, revisions, s, i) /\ Silent(rows', revisions', s, i)
      BY <3>1, <3>2 DEF Silent, Counts
    <3> QED  BY <1>2, <1>3, <2>1, <3>3, NotRecounted
  <2>4. CASE action \notin {"pause", "resume"}
    <3>1. ClockAfter(action, v, rows[s]) = rows[s]  BY <1>5, <2>4 DEF ClockAfter
    <3>2. rows' = rows  BY <1>1, <3>1
    <3> QED  BY <1>1, <2>1, <3>2 DEF EffortInv
  <2> QED  BY <2>3, <2>4
<1> QED  BY <1>4, <1>5

LEMMA Starting ==
    ASSUME EffortInv, rows \in [Sessions -> Row \cup {Absent}], NEW s \in Sessions,
           NEW j \in Items, ~Exists(rows, s), Start(s, j)
    PROVE  EffortInv'
<1>1. rows' = [rows EXCEPT ![s] = StartedRow] /\ effort' = effort
      /\ revisions' = [revisions EXCEPT ![s] = <<j>>]
  BY DEF Start
<1>2. \A r \in Sessions \ {s} : rows'[r] = rows[r] /\ revisions'[r] = revisions[r]
  BY <1>1 DEF EffortInv
<1>3. revisions' \in [Sessions -> Seq(Items)]
  <2>1. <<j>> \in Seq(Items)  OBVIOUS
  <2> QED  BY <1>1, <2>1 DEF EffortInv
<1>4. rows'[s].clock = "running"  BY <1>1 DEF StartedRow
<1>5. \A i \in Items : Silent(rows, revisions, s, i) /\ Silent(rows', revisions', s, i)
  BY <1>4 DEF Silent, Counts
<1> QED  BY <1>1, <1>2, <1>3, <1>5, NotRecounted

LEMMA Resolving ==
    ASSUME EffortInv, rows \in [Sessions -> Row \cup {Absent}], NEW s \in Sessions,
           CanResolve(s), Win(s) \/ Lose(s)
    PROVE  EffortInv'
<1>1. rows[s] \in Row /\ rows[s].clock # "ended"  BY DEF CanResolve, Is, Live, Exists
<1>2. revisions' = revisions /\ effort' = effort  BY DEF Win, Lose
<1>3. \A r \in Sessions \ {s} : rows'[r] = rows[r]  BY DEF Win, Lose
<1>4. CASE Win(s)
  <2>1. rows'[s] = [rows[s] EXCEPT !.own = "authoritative"]  BY <1>4 DEF Win
  <2>2. rows'[s].clock # "ended"  BY <1>1, <2>1 DEF Row
  <2>3. \A i \in Items : Silent(rows, revisions, s, i) /\ Silent(rows', revisions', s, i)
    BY <1>1, <2>2 DEF Silent, Counts
  <2>4. revisions' \in [Sessions -> Seq(Items)]  BY <1>2 DEF EffortInv
  <2> QED  BY <1>2, <1>3, <2>3, <2>4, NotRecounted
<1>5. CASE Lose(s)
  <2>1. rows'[s].validity = "invalid"  BY <1>5 DEF Lose
  <2>2. \A i \in Items : Silent(rows, revisions, s, i) /\ Silent(rows', revisions', s, i)
    BY <1>1, <2>1 DEF Silent, Counts
  <2>3. revisions' \in [Sessions -> Seq(Items)]  BY <1>2 DEF EffortInv
  <2> QED  BY <1>2, <1>3, <2>2, <2>3, NotRecounted
<1> QED  BY <1>4, <1>5

LEMMA Rebuilding ==
    ASSUME EffortInv, NEW here \in Spaces, Rebuild(here)
    PROVE  EffortInv'
<1> DEFINE new == [i \in Items |-> Total(rows, revisions, here, i)]
<1>1. rows' = rows /\ revisions' = revisions /\ effort' = [effort EXCEPT ![here] = new]
  BY DEF Rebuild
<1>2. new \in [Items -> Nat]  BY Counted
<1> HIDE DEF new
<1>3. effort' \in [Spaces -> [Items -> Nat]]  BY <1>1, <1>2 DEF EffortInv
<1>4. ASSUME NEW space \in Spaces, NEW i \in Items
      PROVE  Adds(effort'[space][i], rows, revisions, space, i)
  <2>1. CASE space = here
    <3>1. effort'[space] = new  BY <1>1, <2>1 DEF EffortInv
    <3>2. new[i] = Total(rows, revisions, space, i)  BY <2>1 DEF new
    <3> QED  BY <3>1, <3>2, Exactly
  <2>2. CASE space # here
    <3>1. effort'[space][i] = effort[space][i]  BY <1>1, <2>2 DEF EffortInv
    <3> QED  BY <3>1 DEF EffortInv
  <2> QED  BY <2>1, <2>2
<1> QED  BY <1>1, <1>3, <1>4 DEF EffortInv

LEMMA Reviewing ==
    ASSUME EffortInv, NEW s \in Sessions, NEW v, Review(s, v)
    PROVE  EffortInv'
<1>1. rows' = [rows EXCEPT ![s] = Reviewed(rows[s], v)] /\ revisions' = revisions
  BY DEF Review
<1>2. effort' = Recomputed(rows', revisions', s)  BY DEF Review
<1>3. \A r \in Sessions \ {s} : rows'[r] = rows[r] /\ revisions'[r] = revisions[r]  BY <1>1
<1>4. revisions' \in [Sessions -> Seq(Items)]  BY <1>1 DEF EffortInv
<1>5. Range(revisions[s]) \subseteq Range(revisions'[s])  BY <1>1
<1> QED  BY <1>2, <1>3, <1>4, <1>5, Recounted

LEMMA Correcting ==
    ASSUME EffortInv, NEW s \in Sessions, NEW j \in Items, Correct(s, j)
    PROVE  EffortInv'
<1>1. rows' = rows /\ revisions' = [revisions EXCEPT ![s] = Append(revisions[s], j)]
  BY DEF Correct
<1>2. effort' = Recomputed(rows', revisions', s)  BY DEF Correct
<1>3. revisions[s] \in Seq(Items) /\ Append(revisions[s], j) \in Seq(Items)  BY DEF EffortInv
<1>4. \A r \in Sessions \ {s} : rows'[r] = rows[r] /\ revisions'[r] = revisions[r]
  BY <1>1 DEF EffortInv
<1>5. revisions' \in [Sessions -> Seq(Items)]  BY <1>1, <1>3 DEF EffortInv
<1>6. revisions'[s] = Append(revisions[s], j)  BY <1>1 DEF EffortInv
<1>7. Range(revisions[s]) \subseteq Range(revisions'[s])
  <2> SUFFICES ASSUME NEW n \in DOMAIN revisions[s]
               PROVE  revisions[s][n] \in Range(revisions'[s])
    BY DEF Range
  <2>1. n \in DOMAIN revisions'[s] /\ revisions'[s][n] = revisions[s][n]  BY <1>3, <1>6
  <2> QED  BY <2>1 DEF Range
<1> QED  BY <1>2, <1>4, <1>5, <1>7, Recounted

\* What devices push never counts.
LEMMA Pushing ==
    ASSUME EffortInv, rows \in [Sessions -> Row \cup {Absent}], NEW s \in Sessions,
           \/ \E own \in Owns, clock \in Clocks : SyncCreate(s, own, clock)
           \/ \E i \in Items : SyncAttribution(s, i)
           \/ \E action \in {"pause", "resume", "end"}, v \in Validities : SyncClock(s, action, v)
    PROVE  EffortInv'
<1>1. ASSUME NEW own \in Owns, NEW clock \in Clocks, SyncCreate(s, own, clock)
      PROVE  EffortInv'
  <2>1. /\ rows' = [rows EXCEPT ![s] = [clock |-> clock, own |-> own, validity |-> "pending"]]
        /\ revisions' = revisions /\ effort' = effort /\ ~Exists(rows, s)
    BY <1>1 DEF SyncCreate
  <2>2. \A r \in Sessions \ {s} : rows'[r] = rows[r] /\ revisions'[r] = revisions[r]  BY <2>1
  <2>3. rows'[s].validity = "pending"  BY <2>1
  <2>4. \A i \in Items : Silent(rows, revisions, s, i) /\ Silent(rows', revisions', s, i)
    BY <2>1, <2>3 DEF Silent, Counts
  <2>5. revisions' \in [Sessions -> Seq(Items)]  BY <2>1 DEF EffortInv
  <2> QED  BY <2>1, <2>2, <2>4, <2>5, NotRecounted
<1>2. ASSUME NEW j \in Items, SyncAttribution(s, j)  PROVE EffortInv'
  <2>1. /\ rows' = rows /\ effort' = effort /\ revisions' = [revisions EXCEPT ![s] = <<j>>]
        /\ rows[s].own = "provisional"
    BY <1>2 DEF SyncAttribution, SyncMayTouch, Is
  <2>2. \A r \in Sessions \ {s} : rows'[r] = rows[r] /\ revisions'[r] = revisions[r]
    BY <2>1 DEF EffortInv
  <2>3. \A i \in Items : Silent(rows, revisions, s, i) /\ Silent(rows', revisions', s, i)
    BY <2>1 DEF Silent, Counts
  <2>4. revisions' \in [Sessions -> Seq(Items)]
    <3>1. <<j>> \in Seq(Items)  OBVIOUS
    <3> QED  BY <2>1, <3>1 DEF EffortInv
  <2> QED  BY <2>1, <2>2, <2>3, <2>4, NotRecounted
<1>3. ASSUME NEW action \in {"pause", "resume", "end"}, NEW v \in Validities,
             SyncClock(s, action, v)
      PROVE  EffortInv'
  <2>1. /\ rows' = [rows EXCEPT ![s] = ClockAfter(action, v, rows[s])]
        /\ revisions' = revisions /\ effort' = effort
        /\ rows[s] \in Row /\ rows[s].own = "provisional"
    BY <1>3 DEF SyncClock, SyncMayTouch, RowsAfterClock, Is, Exists
  <2>2. \A r \in Sessions \ {s} : rows'[r] = rows[r] /\ revisions'[r] = revisions[r]  BY <2>1
  <2>3. rows'[s].own = "provisional"  BY <2>1 DEF ClockAfter, Row
  <2>4. \A i \in Items : Silent(rows, revisions, s, i) /\ Silent(rows', revisions', s, i)
    BY <2>1, <2>3 DEF Silent, Counts
  <2>5. revisions' \in [Sessions -> Seq(Items)]  BY <2>1 DEF EffortInv
  <2> QED  BY <2>1, <2>2, <2>4, <2>5, NotRecounted
<1> QED  BY <1>1, <1>2, <1>3

LEMMA EffortElsewhere ==
    ASSUME EffortInv, rows \in [Sessions -> Row \cup {Absent}], NEW space \in Spaces,
           Elsewhere(space)
    PROVE  EffortInv'
<1>1. CASE Rebuild(space)  BY <1>1, Rebuilding
<1>2. ASSUME NEW s \in Sessions, NEW v \in {"valid", "invalid"}, Review(s, v)
      PROVE  EffortInv'
  BY <1>2, Reviewing
<1>3. ASSUME NEW s \in Sessions, NEW i \in Items, Correct(s, i)  PROVE EffortInv'
  BY <1>3, Correcting
<1>4. ASSUME NEW s \in Sessions,
             \/ \E own \in Owns, clock \in Clocks : SyncCreate(s, own, clock)
             \/ \E i \in Items : SyncAttribution(s, i)
             \/ \E action \in {"pause", "resume", "end"}, v \in Validities :
                    SyncClock(s, action, v)
      PROVE  EffortInv'
  BY <1>4, Pushing
<1> QED  BY <1>1, <1>2, <1>3, <1>4 DEF Elsewhere

LEMMA EffortOfCommit ==
    ASSUME CoordinatorInv, EffortInv, NEW t \in Tasks, Commit(t)
    PROVE  EffortInv'
<1>1. PICK f : /\ f = frame[t] /\ f # None /\ f.at = "commit" /\ Placed(f)
               /\ Compiled(t, f) /\ (Relies(f) => UnderLocator(f))
  BY FrameOf DEF Commit
<1>2. PICK s \in Sessions : s = f.session  BY <1>1, SessionOf
<1>3. PICK kind \in SpaceKinds \cup {"start", "end"} : kind = f.aux.kind
  BY <1>1 DEF Placed, OfSpace
<1>4. IF kind = "start" THEN ~Exists(rows, s)
      ELSE Exists(rows, s) /\ ~Is(s, "conflict") /\ ClockAllows(kind, rows[s])
  BY <1>1, <1>2, <1>3 DEF Compiled
<1>5. rows \in [Sessions -> Row \cup {Absent}]  BY <1>2, RowsThere
<1>6. CASE kind = "start"
  <2>1. PICK i \in Items : Start(s, i)  BY <1>1, <1>2, <1>3, <1>6 DEF Commit, Session
  <2> QED  BY <1>4, <1>5, <1>6, <2>1, Starting
<1>7. CASE kind # "start"
  <2>1. PICK v \in Validities : Transit(s, kind, v)
    BY <1>1, <1>2, <1>3, <1>7 DEF Commit, Session
  <2> QED  BY <1>4, <1>5, <1>7, <2>1, Transits
<1> QED  BY <1>6, <1>7

LEMMA EffortOfChild ==
    ASSUME CoordinatorInv, EffortInv, NEW t \in Tasks, At(t, "child_commit"), ChildEffect(t)
    PROVE  EffortInv'
<1>1. PICK f : /\ f = frame[t] /\ f # None /\ f.at = "child_commit" /\ Placed(f)
               /\ Compiled(t, f) /\ (Relies(f) => UnderLocator(f))
  BY FrameOf
<1>2. PICK s \in Sessions : s = f.session  BY <1>1, SessionOf
<1>3. /\ Exists(rows, s) /\ (f.cmd \in Resolutions => CanResolve(s))
      /\ f.aux \in RolesFor(f.cmd)
  BY <1>1, <1>2 DEF Compiled, Placed, OfChild
<1>4. rows \in [Sessions -> Row \cup {Absent}]  BY <1>2, RowsThere
<1>5. CASE f.cmd \in Resolutions
  <2>1. Win(s) \/ Lose(s)  BY <1>1, <1>2, <1>3, <1>5 DEF ChildEffect, Session, RolesFor
  <2> QED  BY <1>3, <1>4, <1>5, <2>1, Resolving
<1>6. CASE f.cmd \notin Resolutions
  <2>1. Mark(s)  BY <1>1, <1>2, <1>3, <1>6 DEF ChildEffect, Session, RolesFor
  <2> QED  BY <1>3, <1>4, <2>1, MarkKeeps
<1> QED  BY <1>5, <1>6

LEMMA EffortRests ==
    ASSUME EffortInv, UNCHANGED <<rows, revisions, effort>>
    PROVE  EffortInv'
BY DEF EffortInv

LEMMA EffortSteps == CoordinatorInv /\ EffortInv /\ [CoordinatorNext]_coordinatorVars => EffortInv'
<1> SUFFICES ASSUME CoordinatorInv, EffortInv, [CoordinatorNext]_coordinatorVars
             PROVE  EffortInv'
  OBVIOUS
<1>1. ASSUME NEW t \in Tasks, Begin(t)  PROVE EffortInv'
  <2>1. OnlyMeta
    BY <1>1 DEF Begin, ClaimStart, TouchLocator, ClaimEnd, Activate, ReadConflict
  <2> QED  BY <2>1, EffortRests DEF OnlyMeta
<1>2. ASSUME NEW t \in Tasks, Proceed(t)  PROVE EffortInv'
  <2>1. CASE Commit(t)  BY <2>1, EffortOfCommit
  <2>2. CASE ChildCommit(t)  BY <2>2, EffortOfChild DEF ChildCommit
  <2>3. CASE ~Commit(t) /\ ~ChildCommit(t)
    <3>1. UNCHANGED <<rows, revisions, effort>>
      BY <1>2, <2>3 DEF Proceed, Compile, RotateEnd, ReleaseEnd, ChildSkip, ChildRestore,
         ChildRefused, ChildCompile, AwaitResolution, AnchorResolution, ReadProof, Transfer,
         Complete, OnlyMeta
    <3> QED  BY <3>1, EffortRests
  <2> QED  BY <2>1, <2>2, <2>3
<1>3. CASE Crash
  <2>1. CASE UNCHANGED focusVars  BY <2>1, EffortRests DEF focusVars
  <2>2. ASSUME NEW t \in Tasks, At(t, "child_commit"), ChildEffect(t)  PROVE EffortInv'
    BY <2>2, EffortOfChild
  <2> QED  BY <1>3, <2>1, <2>2 DEF Crash
<1>4. CASE Others
  <2>1. PICK space \in Spaces : Elsewhere(space)  BY <1>4 DEF Others
  <2>2. rows \in [Sessions -> Row \cup {Absent}]  BY DEF CoordinatorInv, Tabled
  <2> QED  BY <2>1, <2>2, EffortElsewhere
<1>5. CASE UNCHANGED coordinatorVars  BY <1>5, EffortRests DEF coordinatorVars
<1> QED  BY <1>1, <1>2, <1>3, <1>4, <1>5 DEF CoordinatorNext

LEMMA EffortBegins == CoordinatorInit => EffortInv
<1> SUFFICES ASSUME CoordinatorInit  PROVE EffortInv
  OBVIOUS
<1> DEFINE first == CHOOSE i \in Items : TRUE
<1>1. first \in Items  BY SessionsAssumption
<1>2. /\ revisions = [s \in Sessions |-> IF rows[s] \in Unattributed \cup {Absent}
                                         THEN <<>> ELSE <<first>>]
      /\ effort = [space \in Spaces |-> [i \in Items |-> Total(rows, revisions, space, i)]]
  BY DEF CoordinatorInit, FocusInit
<1> HIDE DEF first
<1>3. <<>> \in Seq(Items) /\ <<first>> \in Seq(Items)  BY <1>1
<1>4. revisions \in [Sessions -> Seq(Items)]  BY <1>2, <1>3
<1>5. \A space, i : Total(rows, revisions, space, i) \in Nat  BY Counted
<1>6. effort \in [Spaces -> [Items -> Nat]]  BY <1>2, <1>5
<1>7. \A space \in Spaces, i \in Items : Adds(effort[space][i], rows, revisions, space, i)
  BY <1>2, Exactly
<1> QED  BY <1>4, <1>6, <1>7 DEF EffortInv

LEMMA EffortIsWhole == EffortInv => EffortIsTotal
<1> SUFFICES ASSUME EffortInv, NEW space \in Spaces, NEW i \in Items
             PROVE  /\ effort[space][i] >= Total(rows, revisions, space, i)
                    /\ effort[space][i] <= Total(rows, revisions, space, i)
                         + Cardinality({s \in Sessions : /\ SpaceOf[s] = space
                                                         /\ Is(s, "conflict") /\ Ended(s)
                                                         /\ rows[s].validity = "valid"
                                                         /\ revisions[s] # <<>>
                                                         /\ Last(revisions[s]) = i})
  BY DEF EffortIsTotal
<1>1. {s \in Sessions : /\ SpaceOf[s] = space
                        /\ Is(s, "conflict") /\ Ended(s)
                        /\ rows[s].validity = "valid"
                        /\ revisions[s] # <<>>
                        /\ Last(revisions[s]) = i} = Withheld(rows, revisions, space, i)
  BY DEF Withheld, Is, Ended
<1>2. Adds(effort[space][i], rows, revisions, space, i)  BY DEF EffortInv
<1> QED  BY <1>1, <1>2 DEF Adds

\* effort_actual_seconds is the focused time of the sessions that count, except for
\* what was marked as in conflict after it ended (effort_projection.py).
THEOREM EffortCounts == CoordinatorSpec => []EffortIsTotal
<1>1. CoordinatorInit => EffortInv  BY EffortBegins
<1>2. CoordinatorInv /\ EffortInv /\ [CoordinatorNext]_coordinatorVars => EffortInv'
  BY EffortSteps
<1>3. EffortInv => EffortIsTotal  BY EffortIsWhole
<1> QED  BY <1>1, <1>2, <1>3, CoordinatorInvariance, PTL DEF CoordinatorSpec
=============================================================================
