--------------------------- MODULE FocusSession ---------------------------
(***************************************************************************)
(* The focus sessions of the Spaces and the effort they add up to: what    *)
(* the policy compiler (focus_session/policy.py) makes of a command once   *)
(* the unit of work holds the Space's exclusive lease, and the effort      *)
(* projection (effort_projection.py) it recomputes in the same mutation.   *)
(*                                                                         *)
(* A session lies in one Space.  Of its row the model keeps the clock, the *)
(* ownership and the validity; every session has one unit of focused time. *)
(* Its attribution revisions are the sequence of work items they name, the *)
(* last one being the effective one.                                       *)
(***************************************************************************)
EXTENDS Naturals, SequencesExt

CONSTANTS Sessions,
          Items,          \* level-2 work items, in every Space
          SpaceOf,        \* session -> its Space
          MaxRevisions,   \* bound: attribution revisions of a session
          InitialRows,    \* the rows to begin with, see Before
          Absent          \* the row of a session that does not exist

ASSUME RevisionAssumption == MaxRevisions \in Nat \ {0}

Spaces == {SpaceOf[s] : s \in Sessions}

Clocks == {"running", "paused", "ended"}
Owns == {"provisional", "conflict", "authoritative"}
Validities == {"pending", "valid", "invalid"}
Row == [clock : Clocks, own : Owns, validity : Validities]

VARIABLES rows,        \* session -> its row
          revisions,   \* session -> the work items it was attributed to
          effort       \* Space -> work item -> effort_actual_seconds

focusVars == <<rows, revisions, effort>>

Exists(rs, s) == rs[s] # Absent
Is(s, own) == Exists(rows, s) /\ rows[s].own = own
Live(s) == Exists(rows, s) /\ rows[s].clock # "ended"
Ended(s) == Exists(rows, s) /\ rows[s].clock = "ended"

----------------------------------------------------------------------------
(* The effort projection. *)

Counts(r) == r.clock = "ended" /\ r.validity = "valid" /\ r.own = "authoritative"

\* The sessions whose focused time belongs to work item i of a Space.
Contributors(rs, rv, space, i) ==
    {s \in Sessions : /\ SpaceOf[s] = space
                      /\ Exists(rs, s) /\ Counts(rs[s])
                      /\ rv[s] # <<>> /\ Last(rv[s]) = i}

Total(rs, rv, space, i) == Cardinality(Contributors(rs, rv, space, i))

\* The computation raises unless every session of the Space has an effective
\* attribution.
Computable(rs, rv, space) ==
    \A s \in Sessions : SpaceOf[s] = space /\ Exists(rs, s) => rv[s] # <<>>

\* Mutant: an item that a session was moved away from is not recomputed.
AffectedNow(rv, s) == IF rv[s] = <<>> THEN {} ELSE {Last(rv[s])}

\* The work items that session s is or was attributed to.
Affected(rv, s) == Range(rv[s])

\* A mutation of session s may leave rows rs and revisions rv: it recomputes
\* the items affected, or does not look when there is none.
CanRecompute(rs, rv, s) ==
    Affected(rv, s) = {} \/ Computable(rs, rv, SpaceOf[s])

Recomputed(rs, rv, s) ==
    [effort EXCEPT ![SpaceOf[s]] =
        [i \in Items |-> IF i \in Affected(rv, s) THEN Total(rs, rv, SpaceOf[s], i)
                                                  ELSE @[i]]]

----------------------------------------------------------------------------
(* What the commands of the coordinator do to the row of a session.  The   *)
(* claim of the Meta locator that the policy asks for first is in module   *)
(* ActiveSession.                                                          *)

StartedRow == [clock |-> "running", own |-> "authoritative", validity |-> "pending"]

CanStart(s) == ~Exists(rows, s)

\* pause, resume and end share one legality table; a session in conflict is
\* read-only.
ClockAllows(action, r) ==
    CASE action = "pause" -> r.clock = "running"
      [] action = "resume" -> r.clock = "paused"
      [] action = "end" -> r.clock # "ended"
      [] OTHER -> TRUE

ClockAfter(action, v, r) ==
    CASE action = "pause" -> [r EXCEPT !.clock = "paused"]
      [] action = "resume" -> [r EXCEPT !.clock = "running"]
      [] action = "end" -> [r EXCEPT !.clock = "ended", !.validity = v]
      [] OTHER -> r

RowsAfterClock(s, action, v) == [rows EXCEPT ![s] = ClockAfter(action, v, @)]

\* Notes and plan items change none of the three fields.
CanTransit(s, action) ==
    /\ Exists(rows, s) /\ ~Is(s, "conflict")
    /\ ClockAllows(action, rows[s])
    /\ action = "end" => CanRecompute(rows, revisions, s)

Start(s, i) ==
    /\ rows' = [rows EXCEPT ![s] = StartedRow]
    /\ revisions' = [revisions EXCEPT ![s] = <<i>>]
    /\ UNCHANGED effort

Transit(s, action, v) ==
    LET after == RowsAfterClock(s, action, v) IN
    /\ rows' = after
    /\ effort' = IF action = "end" THEN Recomputed(after, revisions, s) ELSE effort
    /\ UNCHANGED revisions

\* mark_activation_conflict asks for nothing but the row, and recomputes
\* nothing.
CanMark(s) == Exists(rows, s)

Mark(s) == /\ rows' = [rows EXCEPT ![s].own = "conflict"]
           /\ UNCHANGED <<revisions, effort>>

\* Both children of a resolution want a session in conflict that has not ended.
CanResolve(s) == Is(s, "conflict") /\ Live(s)

Win(s) == /\ rows' = [rows EXCEPT ![s].own = "authoritative"]
          /\ UNCHANGED <<revisions, effort>>

Lose(s) ==
    /\ rows' = [rows EXCEPT ![s] = [clock |-> "ended", own |-> "authoritative",
                                    validity |-> "invalid"]]
    /\ UNCHANGED <<revisions, effort>>

----------------------------------------------------------------------------
(* Commands that do not pass through the coordinator. *)

\* submit_review: of an ended session, as often as the user likes; a valid
\* provisional one becomes authoritative.
Reviewed(r, v) ==
    [r EXCEPT !.validity = v,
              !.own = IF @ = "provisional" /\ v = "valid" THEN "authoritative" ELSE @]

Review(s, v) ==
    LET after == [rows EXCEPT ![s] = Reviewed(@, v)] IN
    /\ Ended(s) /\ ~Is(s, "conflict")
    /\ CanRecompute(after, revisions, s)
    /\ rows' = after
    /\ effort' = Recomputed(after, revisions, s)
    /\ UNCHANGED revisions

\* correct_attribution appends a revision that names another work item.
Correct(s, i) ==
    LET after == [revisions EXCEPT ![s] = Append(@, i)] IN
    /\ Exists(rows, s) /\ ~Is(s, "conflict")
    /\ Len(revisions[s]) < MaxRevisions
    /\ revisions[s] # <<>> => Last(revisions[s]) # i
    /\ CanRecompute(rows, after, s)
    /\ revisions' = after
    /\ effort' = Recomputed(rows, after, s)
    /\ UNCHANGED rows

\* rebuild_effort_projection repairs every work item of a Space.
Rebuild(space) ==
    /\ Computable(rows, revisions, space)
    /\ effort' = [effort EXCEPT ![space] =
                      [i \in Items |-> Total(rows, revisions, space, i)]]
    /\ UNCHANGED <<rows, revisions>>

\* A device pushes a session that it began offline, and its attribution in a
\* mutation of its own.
SyncCreate(s, own, clock) ==
    /\ ~Exists(rows, s)
    /\ own \in {"provisional", "conflict"}
    /\ rows' = [rows EXCEPT ![s] = [clock |-> clock, own |-> own,
                                    validity |-> "pending"]]
    /\ UNCHANGED <<revisions, effort>>

SyncMayTouch(s) == Is(s, "provisional") /\ rows[s].validity = "pending"

SyncAttribution(s, i) ==
    /\ SyncMayTouch(s)
    /\ revisions[s] = <<>>
    /\ revisions' = [revisions EXCEPT ![s] = <<i>>]
    /\ UNCHANGED <<rows, effort>>

\* It pushes one legal transition of the clock: no effort is recomputed.
SyncClock(s, action, v) ==
    /\ SyncMayTouch(s)
    /\ ClockAllows(action, rows[s])
    /\ rows' = RowsAfterClock(s, action, v)
    /\ UNCHANGED <<revisions, effort>>

\* Sessions that were there before: devices pushed one that runs, one that
\* ended valid, one that is paused and whose attribution is still to come, or
\* one that they hold to be in conflict; or a session was reviewed and counts.
Pushed == [clock |-> "running", own |-> "provisional", validity |-> "pending"]
Unattributed == {[Pushed EXCEPT !.clock = "paused"], [Pushed EXCEPT !.own = "conflict"]}
Before == {Absent, Pushed, ClockAfter("end", "valid", Pushed),
           ClockAfter("end", "valid", StartedRow)} \cup Unattributed

ASSUME SessionsAssumption ==
    /\ IsFiniteSet(Sessions) /\ Items # {} /\ Absent \notin Row
    /\ InitialRows \subseteq [Sessions -> Before]

FocusInit ==
    /\ rows \in InitialRows
    /\ revisions = [s \in Sessions |-> IF rows[s] \in Unattributed \cup {Absent}
                                       THEN <<>> ELSE <<CHOOSE i \in Items : TRUE>>]
    /\ effort = [space \in Spaces |-> [i \in Items |-> Total(rows, revisions, space, i)]]

Elsewhere(space) ==
    \/ Rebuild(space)
    \/ \E s \in Sessions : SpaceOf[s] = space /\
         \/ \E v \in {"valid", "invalid"} : Review(s, v)
         \/ \E i \in Items : Correct(s, i) \/ SyncAttribution(s, i)
         \/ \E own \in Owns, clock \in Clocks : SyncCreate(s, own, clock)
         \/ \E action \in {"pause", "resume", "end"}, v \in Validities :
                SyncClock(s, action, v)

FocusTypeOK ==
    /\ rows \in [Sessions -> Row \cup {Absent}]
    /\ revisions \in [Sessions -> UNION {[1..n -> Items] : n \in 0..MaxRevisions}]
    /\ effort \in [Spaces -> [Items -> 0..Cardinality(Sessions)]]

\* effort_actual_seconds is the focused time of the sessions that count: the
\* mutations that recompute an item only when a session of it changes, the
\* corrections that move a session from one item to another, and the promotion
\* of a provisional session by its review leave nothing behind.  The one
\* exception is an ended session that was marked as in conflict: it no longer
\* counts but may still be in the total.
EffortIsTotal ==
    \A space \in Spaces, i \in Items :
        /\ effort[space][i] >= Total(rows, revisions, space, i)
        /\ effort[space][i] <= Total(rows, revisions, space, i)
             + Cardinality({s \in Sessions : /\ SpaceOf[s] = space
                                             /\ Is(s, "conflict") /\ Ended(s)
                                             /\ rows[s].validity = "valid"
                                             /\ revisions[s] # <<>>
                                             /\ Last(revisions[s]) = i})
=============================================================================
