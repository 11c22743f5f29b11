----------------------------- MODULE NativeVfs -----------------------------
(***************************************************************************)
(* The native SQLite file system (native/pxii_vfs/pxii_vfs.c) and the      *)
(* Python authority over it (runtime/sqlite_vfs.py).  A database is never   *)
(* opened by its path: a binding is made under a random token, connections *)
(* open through the token, and a revoked binding is freed with its last    *)
(* connection.  A binding records which companions (here the rollback      *)
(* journal) lay beside the database when it was made; it trusts no other.  *)
(*                                                                         *)
(* Bounds: there are as many tokens as bindings can live at once (Tokens), *)
(* a fresh token being the random one of the code; MaxFaults failing       *)
(* operations of the operating system in a behaviour.                      *)
(***************************************************************************)
EXTENDS Naturals, FiniteSets

CONSTANTS Tokens,     \* names of bindings
          Stores,     \* databases: the meta database and one per Space
          None,
          MaxFaults

VARIABLES bindings,   \* token -> the binding in the native registry
          journal,    \* store -> is there a rollback journal beside it?
          faults      \* operations of the system that failed so far

vfsVars == <<bindings, journal, faults>>

NoBinding == [file |-> None, references |-> 0, revoked |-> FALSE, knows |-> FALSE]

VfsTypeOK ==
    /\ \A t \in Tokens :
          \/ bindings[t] = NoBinding
          \/ bindings[t] \in [file : Stores, references : 0..3,
                              revoked : BOOLEAN, knows : BOOLEAN]
    /\ journal \in [Stores -> BOOLEAN]
    /\ faults \in 0..MaxFaults

VfsInit ==
    /\ bindings = [t \in Tokens |-> NoBinding]
    /\ journal \in [Stores -> BOOLEAN]        \* the last process may have died in a transaction
    /\ faults = 0

\* An operation of the system fails.
Fails == faults < MaxFaults /\ faults' = faults + 1

Lives(t) == bindings[t] # NoBinding

FreshToken == CHOOSE t \in Tokens : ~Lives(t)

Bound(x) == {t \in Tokens : bindings[t].file = x}

\* A new binding, with the companions that lie beside the database now.
Binding(x) == [file |-> x, references |-> 0, revoked |-> FALSE, knows |-> journal[x]]

Bind(t, x) == bindings' = [bindings EXCEPT ![t] = Binding(x)]

\* A binding after references changed or it was revoked: freed, it leaves the registry.
Freed(b) == IF b.revoked /\ b.references = 0 THEN NoBinding ELSE b

\* A connection opens: a revoked binding refuses it.
CanConnect(t) == Lives(t) /\ ~bindings[t].revoked

\* The journal of a transaction nobody has open is rolled back by the first
\* connection that knows of it; one that does not know reads on.
SeesHot(b, writing) == b.knows /\ journal[b.file] /\ ~writing

Connected(b, writing) ==
    [b EXCEPT !.references = @ + 1,
              !.knows = IF SeesHot(b, writing) THEN FALSE ELSE @]

Connect(t, writing) ==
    /\ CanConnect(t)
    /\ bindings' = [bindings EXCEPT ![t] = Connected(@, writing)]
    /\ journal' = [journal EXCEPT ![bindings[t].file] =
                                @ /\ ~SeesHot(bindings[t], writing)]

\* A transaction begins to write: the journal is created, or the one on
\* record is opened.  A record of a journal that is gone refuses both.
CanJournal(t) == CanConnect(t) /\ (bindings[t].knows => journal[bindings[t].file])

BeginTransaction(t) ==
    /\ CanJournal(t)
    /\ bindings' = [bindings EXCEPT ![t].knows = TRUE]
    /\ journal' = [journal EXCEPT ![bindings[t].file] = TRUE]

\* A transaction ends: its journal is deleted, and the record of its binding with it.
EndTransaction(t) ==
    /\ bindings' = [bindings EXCEPT ![t].knows = FALSE]
    /\ journal' = [journal EXCEPT ![bindings[t].file] = FALSE]

\* The connections of an engine are closed and its binding is revoked.
Disposed(b) == Freed([b EXCEPT !.references = 0, !.revoked = TRUE])

Dispose(t) == bindings' = [bindings EXCEPT ![t] = Disposed(@)]

\* A binding is revoked: it is freed at once, unless connections are open.
Revoked(b) == Freed([b EXCEPT !.revoked = TRUE])

Revoke(t) == bindings' = [bindings EXCEPT ![t] = Revoked(@)]
=============================================================================
