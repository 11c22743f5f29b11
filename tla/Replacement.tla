---------------------------- MODULE Replacement ----------------------------
(***************************************************************************)
(* Migration by replacement (db/migrations.py, runtime/sqlite_vfs.py): a   *)
(* database that is not at the head schema is copied into a new file, the  *)
(* copy is upgraded and verified, and the two change places by renames.    *)
(* A rename or a deletion may fail before it happened or after; what has   *)
(* happened is then read off the names.  The process may die between two   *)
(* of them.                                                                *)
(***************************************************************************)
EXTENDS NativeVfs

VARIABLES
    place,        \* store -> which file lies under its name, and under the random names of a replacement
    schema,       \* store -> the schema of its file, "old" or "head"
    copy,         \* the content of the replacement that is being made
    mig,          \* the migration of the owner task
    exitRequired, \* the process must end before anything is trusted again
    pending       \* cleanups of the owner task that are still to be retried

migVars == <<place, schema, copy, mig, exitRequired, pending>>

\* The file of the store ("source"), the copy ("new"), or nothing.
Placed(main, replacement, backup, tombstone) ==
    [main |-> main, replacement |-> replacement,
     backup |-> backup, tombstone |-> tombstone]

InPlace == Placed("source", None, None, None)
Absent == Placed(None, None, None, None)

NoMigration == [pc |-> "none", store |-> None, sealed |-> FALSE, attempt |-> 0, result |-> "none"]

MigPcs == {"none", "begin", "copy", "upgrade", "verify", "seal", "close", "commit",
           "sealLate", "discard", "failed"}

MigTypeOK ==
    /\ place \in [Stores -> [main : {None, "source", "new"}, replacement : {None, "new"},
                             backup : {None, "source"}, tombstone : {None, "new"}]]
    /\ schema \in [Stores -> {"old", "head"}]
    /\ copy \in {"empty", "copied", "partial", "head"}
    /\ mig \in [pc : MigPcs, store : Stores \cup {None}, sealed : BOOLEAN, attempt : 0..2,
                result : {"none", "kept", "replaced", "failed"}]
    /\ exitRequired \in BOOLEAN
    /\ pending \in SUBSET {"checkpoint", "marker"}

MigInit(existing) ==
    /\ place = [x \in Stores |-> IF x \in existing THEN InPlace ELSE Absent]
    /\ schema \in [Stores -> {"old", "head"}]
    /\ copy = "empty"
    /\ mig = NoMigration
    /\ exitRequired = FALSE
    /\ pending = {}

\* The migration goes on at a step, and nothing else of it changes.
Goto(pc) == mig' = [mig EXCEPT !.pc = pc]

\* It is over.  A published copy is the store's file from now on.
Ended(result) == mig' = [NoMigration EXCEPT !.result = result]

Settled(x) ==
    IF place[x].main = "new"
      THEN /\ place' = [place EXCEPT ![x] = InPlace]
           /\ schema' = [schema EXCEPT ![x] = "head"]
      ELSE UNCHANGED <<place, schema>>

\* The source is bound and its schema verified, which rolls back what a dead
\* process left; a store that is at head stays as it is, else a replacement
\* is created.
MigrateBegin ==
    /\ mig.pc = "begin"
    /\ journal' = [journal EXCEPT ![mig.store] = FALSE]
    /\ UNCHANGED <<schema, exitRequired, pending, bindings>>
    /\ \/ /\ schema[mig.store] = "head"
          /\ Ended("kept")
          /\ UNCHANGED <<place, copy, faults>>
       \/ /\ schema[mig.store] = "old"
          /\ place' = [place EXCEPT ![mig.store].replacement = "new"]
          /\ copy' = "empty"
          /\ Goto("copy")
          /\ UNCHANGED faults
       \/ /\ Fails
          /\ Ended("failed")
          /\ UNCHANGED <<place, copy>>

\* A step that fills or checks the copy; one that fails may have done its work or part of it.
Filled(pc, next, done, part) ==
    /\ mig.pc = pc
    /\ UNCHANGED <<place, schema, exitRequired, pending, journal, bindings>>
    /\ \/ copy' = done /\ Goto(next) /\ UNCHANGED faults
       \/ Fails /\ Goto("sealLate") /\ copy' \in {copy, part, done}

OnlineBackup == Filled("copy", "upgrade", "copied", "partial")
UpgradeCopy == Filled("upgrade", "verify", "head", "partial")
VerifyCopy == Filled("verify", "seal", copy, copy)

\* The source is checkpointed and its binding sealed.  Without a receipt the
\* outcome can never be retried: the owner keeps a cleanup that does not end.
Seal ==
    /\ mig.pc = "seal"
    /\ UNCHANGED <<place, schema, copy, journal, bindings>>
    /\ \/ /\ mig' = [mig EXCEPT !.pc = "close", !.sealed = TRUE]
          /\ UNCHANGED <<faults, exitRequired, pending>>
       \/ /\ Fails
          /\ Goto("failed")
          /\ exitRequired' = TRUE
          /\ pending' = pending \cup {"checkpoint"}

\* The migration failed before the seal: sealing is tried once, so that the
\* replacement can be discarded.
SealLate ==
    /\ mig.pc = "sealLate"
    /\ UNCHANGED <<place, schema, copy, exitRequired, pending, journal, bindings>>
    /\ \/ mig' = [mig EXCEPT !.pc = "discard", !.sealed = TRUE] /\ UNCHANGED faults
       \/ Fails /\ Goto("failed")

CloseTargets ==
    /\ mig.pc = "close"
    /\ UNCHANGED <<place, schema, copy, exitRequired, pending, journal, bindings>>
    /\ \/ mig' = [mig EXCEPT !.pc = "commit", !.attempt = 1] /\ UNCHANGED faults
       \/ Fails /\ Goto("discard")

\* Which step of the commit comes next, read off the names.
Stage(p) ==
    CASE p.main = "source" -> "initial"
      [] p.main = None -> "sourceQuarantined"
      [] p.main = "new" /\ p.backup = "source" -> "replacementPublished"
      [] OTHER -> "sourceRetired"

Quarantined(p) == [p EXCEPT !.main = None, !.backup = "source"]
Published(p) == [p EXCEPT !.main = "new", !.replacement = None]
Retired(p) == [p EXCEPT !.backup = None]
Restored(p) == [p EXCEPT !.main = "source", !.backup = None]

NextPlace(p) ==
    CASE Stage(p) = "initial" -> Quarantined(p)
      [] Stage(p) = "sourceQuarantined" -> Published(p)
      [] Stage(p) = "replacementPublished" -> Retired(p)
      [] OTHER -> p

\* After a step that failed without having happened: a source that lies
\* under the random name is renamed back.
Repair(p) == IF Stage(p) = "sourceQuarantined" THEN Restored(p) ELSE p

CommitStep ==
    LET x == mig.store
        p == place[x] IN
    /\ mig.pc = "commit" /\ Stage(p) # "sourceRetired"
    /\ place' = [place EXCEPT ![x] = NextPlace(p)]
    /\ UNCHANGED <<schema, copy, mig, exitRequired, pending, journal, bindings, faults>>

\* Faulty variant: what failed once is discarded.
AfterFailureDiscard == Goto("discard")

\* A commit that failed is tried a second time from where the names say it
\* stands; what cannot be completed then is discarded.
AfterFailure == IF mig.attempt = 1 THEN mig' = [mig EXCEPT !.attempt = 2] ELSE Goto("discard")

\* A step fails: it has happened all the same, or it has not and is repaired;
\* the repair may fail as well.
CommitFails ==
    LET x == mig.store
        p == place[x] IN
    /\ mig.pc = "commit" /\ Stage(p) # "sourceRetired"
    /\ \/ Fails /\ \E q \in {NextPlace(p), Repair(p)} : place' = [place EXCEPT ![x] = q]
       \/ Stage(p) = "sourceQuarantined" /\ faults + 2 <= MaxFaults
          /\ faults' = faults + 2 /\ UNCHANGED place
    /\ AfterFailure
    /\ UNCHANGED <<schema, copy, exitRequired, pending, journal, bindings>>

\* The replacement is in place.  If it took a second attempt, the process
\* does not go on with it.
Committed ==
    /\ mig.pc = "commit" /\ Stage(place[mig.store]) = "sourceRetired"
    /\ Settled(mig.store)
    /\ exitRequired' = (exitRequired \/ mig.attempt = 2)
    /\ Ended(IF mig.attempt = 2 THEN "failed" ELSE "replaced")
    /\ UNCHANGED <<copy, pending, journal, bindings, faults>>

\* A sealed replacement that was not put in place is quarantined under
\* another random name and deleted, if the source is where it was.
Discard ==
    LET x == mig.store
        p == place[x] IN
    /\ mig.pc = "discard"
    /\ UNCHANGED <<schema, copy, exitRequired, pending, journal, bindings>>
    /\ \/ /\ p.main = "source" /\ p.replacement = "new"
          /\ place' = [place EXCEPT ![x].replacement = None, ![x].tombstone = "new"]
          /\ UNCHANGED <<mig, faults>>
       \/ /\ p.main = "source" /\ p.replacement = None
          /\ place' = [place EXCEPT ![x].tombstone = None]
          /\ Goto("failed")
          /\ UNCHANGED faults
       \/ /\ p.main # "source"
          /\ Goto("failed")
          /\ UNCHANGED <<place, faults>>
       \/ /\ Fails
          /\ Goto("failed")
          /\ UNCHANGED place

MigrateFailed ==
    /\ mig.pc = "failed"
    /\ Ended("failed")
    /\ UNCHANGED <<place, schema, copy, exitRequired, pending, journal, bindings, faults>>

MigrationStep ==
    \/ MigrateBegin \/ OnlineBackup \/ UpgradeCopy \/ VerifyCopy
    \/ Seal \/ SealLate \/ CloseTargets
    \/ CommitStep \/ CommitFails \/ Committed \/ Discard \/ MigrateFailed

\* The process ends: what lies under a random name is forgotten there, and a
\* copy that took the store's name is the store.  (gone: what was not yet a store.)
Forget(gone) ==
    /\ place' = [x \in Stores |->
                    IF x \in gone THEN Absent
                    ELSE IF place[x].main = "new" THEN InPlace
                    ELSE Placed(place[x].main, None, place[x].backup, None)]
    /\ schema' = [x \in Stores |->
                    IF place[x].main = "new" THEN "head" ELSE schema[x]]
    /\ mig' = NoMigration
    /\ copy' = "empty"
    /\ exitRequired' = FALSE
    /\ pending' = {}

\* Whatever failed and whenever the process died, one file under one of the
\* names holds the whole of the store's data.
DataSurvivesOf(existing) ==
    \A x \in existing :
        \/ place[x].main = "source" \/ place[x].backup = "source"
        \/ place[x].main = "new" /\ copy = "head"
=============================================================================
