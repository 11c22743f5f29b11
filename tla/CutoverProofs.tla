--------------------------- MODULE CutoverProofs ---------------------------
(***************************************************************************)
(* Proofs about backup and cutover, for any bounds on the clock, the       *)
(* mutations and the mishaps and any number of restores and cutovers.      *)
(*                                                                         *)
(* Control says who holds which lease at which label; it is what makes     *)
(* every later part inductive, because a root is only moved while nobody   *)
(* else has it.  Rescue follows the content users last saw through the two *)
(* renames and their reversal; Sound follows whole contents from root to   *)
(* snapshot to root; Spared is what retention may rely on.  The last part  *)
(* is about the files themselves (DurableFiles): Standing says what each   *)
(* name and file of a stage may be between any two of its system calls.    *)
(***************************************************************************)
EXTENDS Cutover, DurableFiles, FiniteSetTheorems, TLAPS

Copying == {"meta", "space", "publish"}
Early == {"owner", "global", "verify", "recheck", "move"}   \* the active root is in place
Late == {"put", "check", "consume", "new", "old"}           \* it lies at the rollback path
Fenced == {"verify", "recheck", "move"} \cup Late
Names == Copying \cup Early \cup Late \cup
         {"idle", "first", "second", "end", "lock", "sleep", "retain", "remove", "copy", "done"}

Labels ==
    /\ pc \in [Actors -> Names]
    /\ pc["request"] \in {"idle", "first", "second", "end"}
    /\ pc["scheduler"] \in Copying \cup {"idle", "lock", "sleep", "retain", "remove"}
    /\ pc["tool"] \in Copying \cup Early \cup Late \cup {"idle", "lock", "copy", "done"}

\* Who holds the leases where.
Control ==
    /\ lease["request"] = IF pc["request"] = "idle" THEN None ELSE Shared
    /\ lease["scheduler"] = IF pc["scheduler"] \in Copying THEN Exclusive ELSE None
    /\ pc["tool"] \in Copying \cup Fenced => lease["tool"] = Exclusive
    /\ pc["tool"] \notin Copying \cup Fenced \cup {"done"} => lease["tool"] = None
    /\ lease["tool"] # Shared
    /\ \A a, b \in Actors : a # b /\ lease[a] = Exclusive => lease[b] = None
    /\ owner = "server" <=> server # "off"
    /\ pc["tool"] \in Fenced \cup {"global"} => owner = "tool"
    /\ owner = "tool" => pc["tool"] \in Fenced \cup {"global", "done"}
    /\ pc["request"] # "idle" => server \in {"ready", "draining"}

\* What the labels say of the variables a step goes on with.
Local ==
    /\ job \in [restore : Restores \cup {None}, cut : Cuts \cup {None}]
    /\ pc["tool"] \in Early \cup Late => job.restore \in Restores /\ job.cut \in Cuts
    /\ pc["tool"] = "copy" => job.restore \in Restores /\ temp["tool"] \in Data
    /\ \A a \in SnapActors : pc[a] \in {"space", "publish"} => temp[a] \in Data
    /\ pc["request"] = "first" => active.meta < MaxWrites

\* What users last saw is in place, or on its way out and back.
Rescue ==
    /\ server \in {"opened", "ready", "draining"} => active = current
    /\ pc["tool"] \in Early => rollback[job.cut] = None
    /\ pc["tool"] \in {"recheck", "move"} => vouched = active /\ active \in Data
    /\ pc["tool"] \in {"check", "consume"} => active \in Data
    /\ pc["tool"] \in Late => rollback[job.cut] = vouched /\ vouched \in Data
    /\ IF pc["tool"] \in Late THEN \E c \in Cuts : rollback[c] = current
                              ELSE CurrentDataExists

\* The same, while no process has died and at most one step has failed.
Harmless ==
    deaths = 0 /\ failures <= 1 =>
        /\ IF pc["tool"] \in Late THEN rollback[job.cut] = current ELSE active = current
        /\ pc["tool"] \in {"new", "old"} => failures = 1

\* Contents are whole, but for the one a request is writing.
WholeOrNone(d) == d = None \/ Whole(d)
Sound ==
    torn \/
    /\ \A s \in Seconds : WholeOrNone(snaps[s])
    /\ \A c \in Cuts : WholeOrNone(rollback[c])
    /\ \A r \in Restores : WholeOrNone(proof[r])
    /\ pc["request"] # "second" => WholeOrNone(active)
    /\ pc["tool"] = "copy" => Whole(temp["tool"])
    /\ pc["tool"] \in {"recheck", "move", "put"} => WholeOrNone(staging[job.restore])
    /\ \A a \in SnapActors :
          /\ pc[a] = "space" => active \in Data /\ temp[a].meta = active.meta
          /\ pc[a] = "publish" => Whole(temp[a])

\* Enough verified snapshots are newer than one that is about to be removed.
Newer(s) == {n \in s + 1..MaxSeconds : Verified(n)}
Spared == collided \/ \A s \in expired : Verified(s) /\ Cardinality(Newer(s)) >= Keep

TypeOfRoots ==
    /\ active \in Roots /\ current \in Data /\ vouched \in Roots
    /\ rollback \in [Cuts -> Roots] /\ rejected \in [Cuts -> Roots]
    /\ staging \in [Restores -> Roots] /\ proof \in [Restores -> Roots]
    /\ source \in [Restores -> Seconds \cup {None}]
TypeOfSnaps ==
    /\ snaps \in [Seconds -> Roots] /\ now \in Seconds /\ expired \subseteq Seconds
    /\ temp \in [Actors -> Roots]
    /\ torn \in BOOLEAN /\ collided \in BOOLEAN
TypeOfControl ==
    /\ server \in {"off", "starting", "opened", "ready", "draining"}
    /\ owner \in {"server", "tool", None}
    /\ lease \in [Actors -> {Shared, Exclusive, None}] /\ DOMAIN pc = Actors
    /\ job.restore \in Restores \cup {None} /\ job.cut \in Cuts \cup {None}
    /\ {failures, deaths, copies} \subseteq Nat /\ failures + deaths + copies <= MaxMishaps

CutoverInv == TypeOK /\ Labels /\ Control /\ Local /\ Rescue /\ Harmless /\ Sound /\ Spared

\* Types, one lemma per part of TypeOK.
LEMMA TypedRootsNext ==
    ASSUME CutoverInv, Next
    PROVE  TypeOfRoots'
<1> USE NoneAssumption, BoundAssumption DEF CutoverInv, roots, counts, history, Go,
        Take, Drop, NoJob, TypeOK, TypeOfRoots, Roots, Local, Labels, Actors,
        SnapActors, Early, Late
<1>1. ASSUME Tick
      PROVE  TypeOfRoots'
  BY <1>1 DEF Tick
<1>2. ASSUME ServerStart
      PROVE  TypeOfRoots'
  BY <1>2 DEF ServerStart
<1>3. ASSUME ServerOpen
      PROVE  TypeOfRoots'
  BY <1>3 DEF ServerOpen, Data
<1>4. ASSUME ServerDrain
      PROVE  TypeOfRoots'
  BY <1>4 DEF ServerDrain
<1>5. ASSUME ServerClose
      PROVE  TypeOfRoots'
  BY <1>5 DEF ServerClose, Drained
<1>6. ASSUME SchedulerClose
      PROVE  TypeOfRoots'
  BY <1>6 DEF SchedulerClose
<1>7. ASSUME RequestBegin
      PROVE  TypeOfRoots'
  BY <1>7 DEF RequestBegin
<1>8. ASSUME RequestWrite
      PROVE  TypeOfRoots'
  <2>1. active \in Data
    BY <1>8 DEF RequestWrite, Control, Rescue, TypeOK
  <2>2. active' \in Data
    BY <1>8, <2>1 DEF RequestWrite, Data, Labels
  <2> QED
    BY <1>8, <2>2 DEF RequestWrite
<1>9. ASSUME RequestEnd
      PROVE  TypeOfRoots'
  BY <1>9 DEF RequestEnd
<1>10. ASSUME ToolSnapshot
      PROVE  TypeOfRoots'
  BY <1>10 DEF ToolSnapshot
<1>11. ASSUME NEW a \in SnapActors, SnapLock(a)
      PROVE  TypeOfRoots'
  BY <1>11 DEF SnapLock
<1>12. ASSUME NEW a \in SnapActors, SnapCopy(a)
      PROVE  TypeOfRoots'
  BY <1>12 DEF SnapCopy
<1>13. ASSUME NEW a \in SnapActors, SnapPublish(a)
      PROVE  TypeOfRoots'
  BY <1>13 DEF SnapPublish, SnapEnd
<1>14. ASSUME NEW a \in SnapActors, SnapFail(a)
      PROVE  TypeOfRoots'
  BY <1>14 DEF SnapFail, SnapEnd
<1>15. ASSUME RetainScan
      PROVE  TypeOfRoots'
  BY <1>15 DEF RetainScan, Expired
<1>16. ASSUME RetainRemove
      PROVE  TypeOfRoots'
  BY <1>16 DEF RetainRemove
<1>17. ASSUME SchedulerWake
      PROVE  TypeOfRoots'
  BY <1>17 DEF SchedulerWake
<1>18. ASSUME NEW r \in Restores, NEW s \in Seconds, RestoreBegin(r, s)
      PROVE  TypeOfRoots'
  BY <1>18 DEF RestoreBegin
<1>19. ASSUME RestoreCopy
      PROVE  TypeOfRoots'
  BY <1>19 DEF RestoreCopy
<1>20. ASSUME RestoreFail
      PROVE  TypeOfRoots'
  BY <1>20 DEF RestoreFail
<1>21. ASSUME NEW r \in Restores, NEW c \in Cuts, CutoverBegin(r, c)
      PROVE  TypeOfRoots'
  BY <1>21 DEF CutoverBegin
<1>22. ASSUME TakeOwner
      PROVE  TypeOfRoots'
  BY <1>22 DEF TakeOwner
<1>23. ASSUME TakeGlobal
      PROVE  TypeOfRoots'
  BY <1>23 DEF TakeGlobal
<1>24. ASSUME VerifyStaged
      PROVE  TypeOfRoots'
  BY <1>24 DEF VerifyStaged
<1>25. ASSUME Recheck
      PROVE  TypeOfRoots'
  BY <1>25 DEF Recheck
<1>26. ASSUME MoveActive
      PROVE  TypeOfRoots'
  BY <1>26 DEF MoveActive
<1>27. ASSUME PutStaged
      PROVE  TypeOfRoots'
  BY <1>27 DEF PutStaged
<1>28. ASSUME CheckPublished
      PROVE  TypeOfRoots'
  BY <1>28 DEF CheckPublished
<1>29. ASSUME Consume
      PROVE  TypeOfRoots'
  BY <1>29 DEF Consume, Rescue
<1>30. ASSUME CutoverFail
      PROVE  TypeOfRoots'
  BY <1>30 DEF CutoverFail, Raise, Mishap, Reversal
<1>31. ASSUME ConsumeFail
      PROVE  TypeOfRoots'
  BY <1>31 DEF ConsumeFail, Raise, Mishap, Reversal
<1>32. ASSUME ReverseNew
      PROVE  TypeOfRoots'
  BY <1>32 DEF ReverseNew
<1>33. ASSUME ReverseOld
      PROVE  TypeOfRoots'
  BY <1>33 DEF ReverseOld
<1>34. ASSUME ReverseFail
      PROVE  TypeOfRoots'
  BY <1>34 DEF ReverseFail, Raise, Mishap
<1>35. ASSUME CutoverEnd
      PROVE  TypeOfRoots'
  BY <1>35 DEF CutoverEnd
<1>36. ASSUME ToolDies
      PROVE  TypeOfRoots'
  BY <1>36 DEF ToolDies, Mishap
<1>37. ASSUME ServerDies
      PROVE  TypeOfRoots'
  BY <1>37 DEF ServerDies, Mishap
<1>38. ASSUME NEW r \in Restores, CopyBack(r)
      PROVE  TypeOfRoots'
  BY <1>38 DEF CopyBack, Mishap
<1> QED
  BY <1>1, <1>2, <1>3, <1>4, <1>5, <1>6, <1>7, <1>8, <1>9, <1>10, <1>11, <1>12, <1>13,
     <1>14, <1>15, <1>16, <1>17, <1>18, <1>19, <1>20, <1>21, <1>22, <1>23, <1>24, <1>25,
     <1>26, <1>27, <1>28, <1>29, <1>30, <1>31, <1>32, <1>33, <1>34, <1>35, <1>36, <1>37,
     <1>38 DEF Next, ServerStep, RequestStep, RetainStep, RestoreStep, SnapStep,
     CutoverStep

LEMMA TypedSnapsNext ==
    ASSUME CutoverInv, Next
    PROVE  TypeOfSnaps'
<1> USE NoneAssumption, BoundAssumption DEF CutoverInv, roots, counts, history, Go,
        Take, Drop, NoJob, TypeOK, TypeOfSnaps, Roots, Seconds, Local, Labels, Actors,
        SnapActors
<1>1. ASSUME Tick
      PROVE  TypeOfSnaps'
  BY <1>1 DEF Tick
<1>2. ASSUME ServerStart
      PROVE  TypeOfSnaps'
  BY <1>2 DEF ServerStart
<1>3. ASSUME ServerOpen
      PROVE  TypeOfSnaps'
  BY <1>3 DEF ServerOpen
<1>4. ASSUME ServerDrain
      PROVE  TypeOfSnaps'
  BY <1>4 DEF ServerDrain
<1>5. ASSUME ServerClose
      PROVE  TypeOfSnaps'
  BY <1>5 DEF ServerClose, Drained
<1>6. ASSUME SchedulerClose
      PROVE  TypeOfSnaps'
  BY <1>6 DEF SchedulerClose
<1>7. ASSUME RequestBegin
      PROVE  TypeOfSnaps'
  BY <1>7 DEF RequestBegin
<1>8. ASSUME RequestWrite
      PROVE  TypeOfSnaps'
  BY <1>8 DEF RequestWrite
<1>9. ASSUME RequestEnd
      PROVE  TypeOfSnaps'
  BY <1>9 DEF RequestEnd
<1>10. ASSUME ToolSnapshot
      PROVE  TypeOfSnaps'
  BY <1>10 DEF ToolSnapshot
<1>11. ASSUME NEW a \in SnapActors, SnapLock(a)
      PROVE  TypeOfSnaps'
  BY <1>11 DEF SnapLock
<1>12. ASSUME NEW a \in SnapActors, SnapCopy(a)
      PROVE  TypeOfSnaps'
  <2>1. active \in Data /\ pc[a] \in {"meta", "space"}
    BY <1>12 DEF SnapCopy
  <2>2. CASE pc[a] = "meta"
    <3>1. [meta |-> active.meta, space |-> 0] \in Data
      BY <2>1 DEF Data
    <3> QED
      BY <1>12, <2>2, <3>1 DEF SnapCopy
  <2>3. CASE pc[a] = "space"
    <3>1. [temp[a] EXCEPT !.space = active.space] \in Data
      BY <2>1, <2>3 DEF Data
    <3> QED
      BY <1>12, <2>3, <3>1 DEF SnapCopy
  <2> QED
    BY <2>1, <2>2, <2>3
<1>13. ASSUME NEW a \in SnapActors, SnapPublish(a)
      PROVE  TypeOfSnaps'
  <2>1. snaps[now] = None \/ snaps[now] # None
    OBVIOUS
  <2>2. snaps' \in [Seconds -> Roots] /\ collided' \in BOOLEAN
    BY <1>13 DEF SnapPublish
  <2>3. temp' = [temp EXCEPT ![a] = None]
    BY <1>13 DEF SnapPublish, SnapEnd
  <2> QED
    BY <1>13, <2>2, <2>3 DEF SnapPublish
<1>14. ASSUME NEW a \in SnapActors, SnapFail(a)
      PROVE  TypeOfSnaps'
  BY <1>14 DEF SnapFail, SnapEnd
<1>15. ASSUME RetainScan
      PROVE  TypeOfSnaps'
  BY <1>15 DEF RetainScan, Expired
<1>16. ASSUME RetainRemove
      PROVE  TypeOfSnaps'
  BY <1>16 DEF RetainRemove
<1>17. ASSUME SchedulerWake
      PROVE  TypeOfSnaps'
  BY <1>17 DEF SchedulerWake
<1>18. ASSUME NEW r \in Restores, NEW s \in Seconds, RestoreBegin(r, s)
      PROVE  TypeOfSnaps'
  BY <1>18 DEF RestoreBegin
<1>19. ASSUME RestoreCopy
      PROVE  TypeOfSnaps'
  BY <1>19 DEF RestoreCopy
<1>20. ASSUME RestoreFail
      PROVE  TypeOfSnaps'
  BY <1>20 DEF RestoreFail
<1>21. ASSUME NEW r \in Restores, NEW c \in Cuts, CutoverBegin(r, c)
      PROVE  TypeOfSnaps'
  BY <1>21 DEF CutoverBegin
<1>22. ASSUME TakeOwner
      PROVE  TypeOfSnaps'
  BY <1>22 DEF TakeOwner
<1>23. ASSUME TakeGlobal
      PROVE  TypeOfSnaps'
  BY <1>23 DEF TakeGlobal
<1>24. ASSUME VerifyStaged
      PROVE  TypeOfSnaps'
  BY <1>24 DEF VerifyStaged
<1>25. ASSUME Recheck
      PROVE  TypeOfSnaps'
  BY <1>25 DEF Recheck
<1>26. ASSUME MoveActive
      PROVE  TypeOfSnaps'
  BY <1>26 DEF MoveActive
<1>27. ASSUME PutStaged
      PROVE  TypeOfSnaps'
  BY <1>27 DEF PutStaged
<1>28. ASSUME CheckPublished
      PROVE  TypeOfSnaps'
  BY <1>28 DEF CheckPublished
<1>29. ASSUME Consume
      PROVE  TypeOfSnaps'
  BY <1>29 DEF Consume
<1>30. ASSUME CutoverFail
      PROVE  TypeOfSnaps'
  BY <1>30 DEF CutoverFail, Raise, Mishap, Reversal
<1>31. ASSUME ConsumeFail
      PROVE  TypeOfSnaps'
  BY <1>31 DEF ConsumeFail, Raise, Mishap, Reversal
<1>32. ASSUME ReverseNew
      PROVE  TypeOfSnaps'
  BY <1>32 DEF ReverseNew
<1>33. ASSUME ReverseOld
      PROVE  TypeOfSnaps'
  BY <1>33 DEF ReverseOld
<1>34. ASSUME ReverseFail
      PROVE  TypeOfSnaps'
  BY <1>34 DEF ReverseFail, Raise, Mishap
<1>35. ASSUME CutoverEnd
      PROVE  TypeOfSnaps'
  BY <1>35 DEF CutoverEnd
<1>36. ASSUME ToolDies
      PROVE  TypeOfSnaps'
  BY <1>36 DEF ToolDies, Mishap
<1>37. ASSUME ServerDies
      PROVE  TypeOfSnaps'
  BY <1>37 DEF ServerDies, Mishap
<1>38. ASSUME NEW r \in Restores, CopyBack(r)
      PROVE  TypeOfSnaps'
  BY <1>38 DEF CopyBack, Mishap
<1> QED
  BY <1>1, <1>2, <1>3, <1>4, <1>5, <1>6, <1>7, <1>8, <1>9, <1>10, <1>11, <1>12, <1>13,
     <1>14, <1>15, <1>16, <1>17, <1>18, <1>19, <1>20, <1>21, <1>22, <1>23, <1>24, <1>25,
     <1>26, <1>27, <1>28, <1>29, <1>30, <1>31, <1>32, <1>33, <1>34, <1>35, <1>36, <1>37,
     <1>38 DEF Next, ServerStep, RequestStep, RetainStep, RestoreStep, SnapStep,
     CutoverStep

LEMMA TypedControlNext ==
    ASSUME CutoverInv, Next
    PROVE  TypeOfControl'
<1> USE NoneAssumption, BoundAssumption DEF CutoverInv, roots, counts, history, Go,
        Take, Drop, NoJob, TypeOK, TypeOfControl, Actors, SnapActors, Shared, Exclusive
<1>1. ASSUME Tick
      PROVE  TypeOfControl'
  BY <1>1 DEF Tick
<1>2. ASSUME ServerStart
      PROVE  TypeOfControl'
  BY <1>2 DEF ServerStart
<1>3. ASSUME ServerOpen
      PROVE  TypeOfControl'
  BY <1>3 DEF ServerOpen
<1>4. ASSUME ServerDrain
      PROVE  TypeOfControl'
  BY <1>4 DEF ServerDrain
<1>5. ASSUME ServerClose
      PROVE  TypeOfControl'
  BY <1>5 DEF ServerClose, Drained
<1>6. ASSUME SchedulerClose
      PROVE  TypeOfControl'
  BY <1>6 DEF SchedulerClose
<1>7. ASSUME RequestBegin
      PROVE  TypeOfControl'
  BY <1>7 DEF RequestBegin
<1>8. ASSUME RequestWrite
      PROVE  TypeOfControl'
  BY <1>8 DEF RequestWrite
<1>9. ASSUME RequestEnd
      PROVE  TypeOfControl'
  BY <1>9 DEF RequestEnd
<1>10. ASSUME ToolSnapshot
      PROVE  TypeOfControl'
  BY <1>10 DEF ToolSnapshot
<1>11. ASSUME NEW a \in SnapActors, SnapLock(a)
      PROVE  TypeOfControl'
  BY <1>11 DEF SnapLock
<1>12. ASSUME NEW a \in SnapActors, SnapCopy(a)
      PROVE  TypeOfControl'
  BY <1>12 DEF SnapCopy
<1>13. ASSUME NEW a \in SnapActors, SnapPublish(a)
      PROVE  TypeOfControl'
  BY <1>13 DEF SnapPublish, SnapEnd
<1>14. ASSUME NEW a \in SnapActors, SnapFail(a)
      PROVE  TypeOfControl'
  BY <1>14 DEF SnapFail, SnapEnd
<1>15. ASSUME RetainScan
      PROVE  TypeOfControl'
  BY <1>15 DEF RetainScan, Expired
<1>16. ASSUME RetainRemove
      PROVE  TypeOfControl'
  BY <1>16 DEF RetainRemove
<1>17. ASSUME SchedulerWake
      PROVE  TypeOfControl'
  BY <1>17 DEF SchedulerWake
<1>18. ASSUME NEW r \in Restores, NEW s \in Seconds, RestoreBegin(r, s)
      PROVE  TypeOfControl'
  BY <1>18 DEF RestoreBegin
<1>19. ASSUME RestoreCopy
      PROVE  TypeOfControl'
  BY <1>19 DEF RestoreCopy
<1>20. ASSUME RestoreFail
      PROVE  TypeOfControl'
  BY <1>20 DEF RestoreFail
<1>21. ASSUME NEW r \in Restores, NEW c \in Cuts, CutoverBegin(r, c)
      PROVE  TypeOfControl'
  BY <1>21 DEF CutoverBegin
<1>22. ASSUME TakeOwner
      PROVE  TypeOfControl'
  BY <1>22 DEF TakeOwner
<1>23. ASSUME TakeGlobal
      PROVE  TypeOfControl'
  BY <1>23 DEF TakeGlobal
<1>24. ASSUME VerifyStaged
      PROVE  TypeOfControl'
  BY <1>24 DEF VerifyStaged
<1>25. ASSUME Recheck
      PROVE  TypeOfControl'
  BY <1>25 DEF Recheck
<1>26. ASSUME MoveActive
      PROVE  TypeOfControl'
  BY <1>26 DEF MoveActive
<1>27. ASSUME PutStaged
      PROVE  TypeOfControl'
  BY <1>27 DEF PutStaged
<1>28. ASSUME CheckPublished
      PROVE  TypeOfControl'
  BY <1>28 DEF CheckPublished
<1>29. ASSUME Consume
      PROVE  TypeOfControl'
  BY <1>29 DEF Consume
<1>30. ASSUME CutoverFail
      PROVE  TypeOfControl'
  BY <1>30 DEF CutoverFail, Raise, Mishap, Reversal
<1>31. ASSUME ConsumeFail
      PROVE  TypeOfControl'
  BY <1>31 DEF ConsumeFail, Raise, Mishap, Reversal
<1>32. ASSUME ReverseNew
      PROVE  TypeOfControl'
  BY <1>32 DEF ReverseNew
<1>33. ASSUME ReverseOld
      PROVE  TypeOfControl'
  BY <1>33 DEF ReverseOld
<1>34. ASSUME ReverseFail
      PROVE  TypeOfControl'
  BY <1>34 DEF ReverseFail, Raise, Mishap
<1>35. ASSUME CutoverEnd
      PROVE  TypeOfControl'
  BY <1>35 DEF CutoverEnd
<1>36. ASSUME ToolDies
      PROVE  TypeOfControl'
  BY <1>36 DEF ToolDies, Mishap
<1>37. ASSUME ServerDies
      PROVE  TypeOfControl'
  BY <1>37 DEF ServerDies, Mishap
<1>38. ASSUME NEW r \in Restores, CopyBack(r)
      PROVE  TypeOfControl'
  BY <1>38 DEF CopyBack, Mishap
<1> QED
  BY <1>1, <1>2, <1>3, <1>4, <1>5, <1>6, <1>7, <1>8, <1>9, <1>10, <1>11, <1>12, <1>13,
     <1>14, <1>15, <1>16, <1>17, <1>18, <1>19, <1>20, <1>21, <1>22, <1>23, <1>24, <1>25,
     <1>26, <1>27, <1>28, <1>29, <1>30, <1>31, <1>32, <1>33, <1>34, <1>35, <1>36, <1>37,
     <1>38 DEF Next, ServerStep, RequestStep, RetainStep, RestoreStep, SnapStep,
     CutoverStep

\* Each actor stays among its own labels.
LEMMA LabelsNext ==
    ASSUME CutoverInv, Next
    PROVE  Labels'
<1> USE NoneAssumption, BoundAssumption DEF CutoverInv, roots, counts, history, Go,
        Take, Drop, NoJob, TypeOK, Labels, Copying, Early, Late, Names, Actors,
        SnapActors
<1>1. ASSUME Tick
      PROVE  Labels'
  BY <1>1 DEF Tick
<1>2. ASSUME ServerStart
      PROVE  Labels'
  BY <1>2 DEF ServerStart
<1>3. ASSUME ServerOpen
      PROVE  Labels'
  BY <1>3 DEF ServerOpen
<1>4. ASSUME ServerDrain
      PROVE  Labels'
  BY <1>4 DEF ServerDrain
<1>5. ASSUME ServerClose
      PROVE  Labels'
  BY <1>5 DEF ServerClose, Drained
<1>6. ASSUME SchedulerClose
      PROVE  Labels'
  BY <1>6 DEF SchedulerClose
<1>7. ASSUME RequestBegin
      PROVE  Labels'
  BY <1>7 DEF RequestBegin
<1>8. ASSUME RequestWrite
      PROVE  Labels'
  BY <1>8 DEF RequestWrite
<1>9. ASSUME RequestEnd
      PROVE  Labels'
  BY <1>9 DEF RequestEnd
<1>10. ASSUME ToolSnapshot
      PROVE  Labels'
  BY <1>10 DEF ToolSnapshot
<1>11. ASSUME NEW a \in SnapActors, SnapLock(a)
      PROVE  Labels'
  BY <1>11 DEF SnapLock
<1>12. ASSUME NEW a \in SnapActors, SnapCopy(a)
      PROVE  Labels'
  BY <1>12 DEF SnapCopy
<1>13. ASSUME NEW a \in SnapActors, SnapPublish(a)
      PROVE  Labels'
  BY <1>13 DEF SnapPublish, SnapEnd
<1>14. ASSUME NEW a \in SnapActors, SnapFail(a)
      PROVE  Labels'
  BY <1>14 DEF SnapFail, SnapEnd
<1>15. ASSUME RetainScan
      PROVE  Labels'
  BY <1>15 DEF RetainScan, Expired
<1>16. ASSUME RetainRemove
      PROVE  Labels'
  BY <1>16 DEF RetainRemove
<1>17. ASSUME SchedulerWake
      PROVE  Labels'
  BY <1>17 DEF SchedulerWake
<1>18. ASSUME NEW r \in Restores, NEW s \in Seconds, RestoreBegin(r, s)
      PROVE  Labels'
  BY <1>18 DEF RestoreBegin
<1>19. ASSUME RestoreCopy
      PROVE  Labels'
  BY <1>19 DEF RestoreCopy
<1>20. ASSUME RestoreFail
      PROVE  Labels'
  BY <1>20 DEF RestoreFail
<1>21. ASSUME NEW r \in Restores, NEW c \in Cuts, CutoverBegin(r, c)
      PROVE  Labels'
  BY <1>21 DEF CutoverBegin
<1>22. ASSUME TakeOwner
      PROVE  Labels'
  BY <1>22 DEF TakeOwner
<1>23. ASSUME TakeGlobal
      PROVE  Labels'
  BY <1>23 DEF TakeGlobal
<1>24. ASSUME VerifyStaged
      PROVE  Labels'
  BY <1>24 DEF VerifyStaged
<1>25. ASSUME Recheck
      PROVE  Labels'
  BY <1>25 DEF Recheck
<1>26. ASSUME MoveActive
      PROVE  Labels'
  BY <1>26 DEF MoveActive
<1>27. ASSUME PutStaged
      PROVE  Labels'
  BY <1>27 DEF PutStaged
<1>28. ASSUME CheckPublished
      PROVE  Labels'
  BY <1>28 DEF CheckPublished
<1>29. ASSUME Consume
      PROVE  Labels'
  BY <1>29 DEF Consume
<1>30. ASSUME CutoverFail
      PROVE  Labels'
  BY <1>30 DEF CutoverFail, Raise, Mishap, Reversal
<1>31. ASSUME ConsumeFail
      PROVE  Labels'
  BY <1>31 DEF ConsumeFail, Raise, Mishap, Reversal
<1>32. ASSUME ReverseNew
      PROVE  Labels'
  BY <1>32 DEF ReverseNew
<1>33. ASSUME ReverseOld
      PROVE  Labels'
  BY <1>33 DEF ReverseOld
<1>34. ASSUME ReverseFail
      PROVE  Labels'
  BY <1>34 DEF ReverseFail, Raise, Mishap
<1>35. ASSUME CutoverEnd
      PROVE  Labels'
  BY <1>35 DEF CutoverEnd
<1>36. ASSUME ToolDies
      PROVE  Labels'
  BY <1>36 DEF ToolDies, Mishap
<1>37. ASSUME ServerDies
      PROVE  Labels'
  BY <1>37 DEF ServerDies, Mishap
<1>38. ASSUME NEW r \in Restores, CopyBack(r)
      PROVE  Labels'
  BY <1>38 DEF CopyBack, Mishap
<1> QED
  BY <1>1, <1>2, <1>3, <1>4, <1>5, <1>6, <1>7, <1>8, <1>9, <1>10, <1>11, <1>12, <1>13,
     <1>14, <1>15, <1>16, <1>17, <1>18, <1>19, <1>20, <1>21, <1>22, <1>23, <1>24, <1>25,
     <1>26, <1>27, <1>28, <1>29, <1>30, <1>31, <1>32, <1>33, <1>34, <1>35, <1>36, <1>37,
     <1>38 DEF Next, ServerStep, RequestStep, RetainStep, RestoreStep, SnapStep,
     CutoverStep

\* The leases and the owner follow the labels.
LEMMA ControlNext ==
    ASSUME CutoverInv, Next
    PROVE  Control'
<1> USE NoneAssumption, BoundAssumption DEF CutoverInv, roots, counts, history, Go,
        Take, Drop, NoJob, TypeOK, Control, Labels, Free, Copying, Fenced, Early, Late,
        Names, Shared, Exclusive, Actors, SnapActors
<1>1. ASSUME Tick
      PROVE  Control'
  BY <1>1 DEF Tick
<1>2. ASSUME ServerStart
      PROVE  Control'
  BY <1>2 DEF ServerStart
<1>3. ASSUME ServerOpen
      PROVE  Control'
  BY <1>3 DEF ServerOpen
<1>4. ASSUME ServerDrain
      PROVE  Control'
  BY <1>4 DEF ServerDrain
<1>5. ASSUME ServerClose
      PROVE  Control'
  BY <1>5 DEF ServerClose, Drained
<1>6. ASSUME SchedulerClose
      PROVE  Control'
  BY <1>6 DEF SchedulerClose
<1>7. ASSUME RequestBegin
      PROVE  Control'
  BY <1>7 DEF RequestBegin
<1>8. ASSUME RequestWrite
      PROVE  Control'
  BY <1>8 DEF RequestWrite
<1>9. ASSUME RequestEnd
      PROVE  Control'
  BY <1>9 DEF RequestEnd
<1>10. ASSUME ToolSnapshot
      PROVE  Control'
  BY <1>10 DEF ToolSnapshot
<1>11. ASSUME NEW a \in SnapActors, SnapLock(a)
      PROVE  Control'
  BY <1>11 DEF SnapLock
<1>12. ASSUME NEW a \in SnapActors, SnapCopy(a)
      PROVE  Control'
  BY <1>12 DEF SnapCopy
<1>13. ASSUME NEW a \in SnapActors, SnapPublish(a)
      PROVE  Control'
  <2>1. /\ lease' = [lease EXCEPT ![a] = None]
        /\ server' \in {server, "ready", "draining"} /\ (server' # server => server = "opened")
        /\ pc' \in {[pc EXCEPT ![a] = l] : l \in {"idle", "sleep", "retain"}}
        /\ a = "tool" => pc' = [pc EXCEPT ![a] = "idle"]
        /\ UNCHANGED owner
    BY <1>13 DEF SnapPublish, SnapEnd
  <2>2. CASE a = "tool"
    BY <1>13, <2>1, <2>2 DEF SnapPublish
  <2>3. CASE a = "scheduler"
    BY <1>13, <2>1, <2>3 DEF SnapPublish
  <2> QED
    BY <2>2, <2>3
<1>14. ASSUME NEW a \in SnapActors, SnapFail(a)
      PROVE  Control'
  <2>1. /\ lease' = [lease EXCEPT ![a] = None]
        /\ server' \in {server, "ready", "draining"} /\ (server' # server => server = "opened")
        /\ pc' \in {[pc EXCEPT ![a] = l] : l \in {"idle", "sleep", "retain"}}
        /\ a = "tool" => pc' = [pc EXCEPT ![a] = "idle"]
        /\ UNCHANGED owner
    BY <1>14 DEF SnapFail, SnapEnd
  <2>2. CASE a = "tool"
    BY <1>14, <2>1, <2>2 DEF SnapFail
  <2>3. CASE a = "scheduler"
    BY <1>14, <2>1, <2>3 DEF SnapFail
  <2> QED
    BY <2>2, <2>3
<1>15. ASSUME RetainScan
      PROVE  Control'
  BY <1>15 DEF RetainScan, Expired
<1>16. ASSUME RetainRemove
      PROVE  Control'
  BY <1>16 DEF RetainRemove
<1>17. ASSUME SchedulerWake
      PROVE  Control'
  BY <1>17 DEF SchedulerWake
<1>18. ASSUME NEW r \in Restores, NEW s \in Seconds, RestoreBegin(r, s)
      PROVE  Control'
  BY <1>18 DEF RestoreBegin
<1>19. ASSUME RestoreCopy
      PROVE  Control'
  BY <1>19 DEF RestoreCopy
<1>20. ASSUME RestoreFail
      PROVE  Control'
  BY <1>20 DEF RestoreFail
<1>21. ASSUME NEW r \in Restores, NEW c \in Cuts, CutoverBegin(r, c)
      PROVE  Control'
  BY <1>21 DEF CutoverBegin
<1>22. ASSUME TakeOwner
      PROVE  Control'
  BY <1>22 DEF TakeOwner
<1>23. ASSUME TakeGlobal
      PROVE  Control'
  BY <1>23 DEF TakeGlobal
<1>24. ASSUME VerifyStaged
      PROVE  Control'
  BY <1>24 DEF VerifyStaged
<1>25. ASSUME Recheck
      PROVE  Control'
  BY <1>25 DEF Recheck
<1>26. ASSUME MoveActive
      PROVE  Control'
  BY <1>26 DEF MoveActive
<1>27. ASSUME PutStaged
      PROVE  Control'
  BY <1>27 DEF PutStaged
<1>28. ASSUME CheckPublished
      PROVE  Control'
  BY <1>28 DEF CheckPublished
<1>29. ASSUME Consume
      PROVE  Control'
  BY <1>29 DEF Consume
<1>30. ASSUME CutoverFail
      PROVE  Control'
  BY <1>30 DEF CutoverFail, Raise, Mishap, Reversal
<1>31. ASSUME ConsumeFail
      PROVE  Control'
  BY <1>31 DEF ConsumeFail, Raise, Mishap, Reversal
<1>32. ASSUME ReverseNew
      PROVE  Control'
  BY <1>32 DEF ReverseNew
<1>33. ASSUME ReverseOld
      PROVE  Control'
  BY <1>33 DEF ReverseOld
<1>34. ASSUME ReverseFail
      PROVE  Control'
  BY <1>34 DEF ReverseFail, Raise, Mishap
<1>35. ASSUME CutoverEnd
      PROVE  Control'
  BY <1>35 DEF CutoverEnd
<1>36. ASSUME ToolDies
      PROVE  Control'
  BY <1>36 DEF ToolDies, Mishap
<1>37. ASSUME ServerDies
      PROVE  Control'
  BY <1>37 DEF ServerDies, Mishap
<1>38. ASSUME NEW r \in Restores, CopyBack(r)
      PROVE  Control'
  BY <1>38 DEF CopyBack, Mishap
<1> QED
  BY <1>1, <1>2, <1>3, <1>4, <1>5, <1>6, <1>7, <1>8, <1>9, <1>10, <1>11, <1>12, <1>13,
     <1>14, <1>15, <1>16, <1>17, <1>18, <1>19, <1>20, <1>21, <1>22, <1>23, <1>24, <1>25,
     <1>26, <1>27, <1>28, <1>29, <1>30, <1>31, <1>32, <1>33, <1>34, <1>35, <1>36, <1>37,
     <1>38 DEF Next, ServerStep, RequestStep, RetainStep, RestoreStep, SnapStep,
     CutoverStep

\* The variables a step goes on with are there.
LEMMA LocalNext ==
    ASSUME CutoverInv, Next
    PROVE  Local'
<1> USE NoneAssumption, BoundAssumption DEF CutoverInv, roots, counts, history, Go,
        Take, Drop, NoJob, TypeOK, Local, Labels, Control, Copying, Early, Late, Names,
        Actors, SnapActors
<1>1. ASSUME Tick
      PROVE  Local'
  BY <1>1 DEF Tick
<1>2. ASSUME ServerStart
      PROVE  Local'
  BY <1>2 DEF ServerStart
<1>3. ASSUME ServerOpen
      PROVE  Local'
  BY <1>3 DEF ServerOpen
<1>4. ASSUME ServerDrain
      PROVE  Local'
  BY <1>4 DEF ServerDrain
<1>5. ASSUME ServerClose
      PROVE  Local'
  BY <1>5 DEF ServerClose, Drained
<1>6. ASSUME SchedulerClose
      PROVE  Local'
  BY <1>6 DEF SchedulerClose
<1>7. ASSUME RequestBegin
      PROVE  Local'
  BY <1>7 DEF RequestBegin
<1>8. ASSUME RequestWrite
      PROVE  Local'
  BY <1>8 DEF RequestWrite
<1>9. ASSUME RequestEnd
      PROVE  Local'
  BY <1>9 DEF RequestEnd
<1>10. ASSUME ToolSnapshot
      PROVE  Local'
  BY <1>10 DEF ToolSnapshot
<1>11. ASSUME NEW a \in SnapActors, SnapLock(a)
      PROVE  Local'
  BY <1>11 DEF SnapLock
<1>12. ASSUME NEW a \in SnapActors, SnapCopy(a)
      PROVE  Local'
  <2>1. active \in Data /\ pc[a] \in {"meta", "space"}
    BY <1>12 DEF SnapCopy, Roots, TypeOK
  <2>2. CASE pc[a] = "meta"
    <3>1. [meta |-> active.meta, space |-> 0] \in Data
      BY <2>1, BoundAssumption DEF Data
    <3> QED
      BY <1>12, <2>2, <3>1 DEF SnapCopy
  <2>3. CASE pc[a] = "space"
    <3>1. [temp[a] EXCEPT !.space = active.space] \in Data
      BY <2>1, <2>3 DEF Data
    <3> QED
      BY <1>12, <2>3, <3>1 DEF SnapCopy
  <2> QED
    BY <2>1, <2>2, <2>3
<1>13. ASSUME NEW a \in SnapActors, SnapPublish(a)
      PROVE  Local'
  BY <1>13 DEF SnapPublish, SnapEnd
<1>14. ASSUME NEW a \in SnapActors, SnapFail(a)
      PROVE  Local'
  BY <1>14 DEF SnapFail, SnapEnd
<1>15. ASSUME RetainScan
      PROVE  Local'
  BY <1>15 DEF RetainScan, Expired
<1>16. ASSUME RetainRemove
      PROVE  Local'
  BY <1>16 DEF RetainRemove
<1>17. ASSUME SchedulerWake
      PROVE  Local'
  BY <1>17 DEF SchedulerWake
<1>18. ASSUME NEW r \in Restores, NEW s \in Seconds, RestoreBegin(r, s)
      PROVE  Local'
  BY <1>18 DEF RestoreBegin, Verified, Roots
<1>19. ASSUME RestoreCopy
      PROVE  Local'
  BY <1>19 DEF RestoreCopy
<1>20. ASSUME RestoreFail
      PROVE  Local'
  BY <1>20 DEF RestoreFail
<1>21. ASSUME NEW r \in Restores, NEW c \in Cuts, CutoverBegin(r, c)
      PROVE  Local'
  BY <1>21 DEF CutoverBegin
<1>22. ASSUME TakeOwner
      PROVE  Local'
  BY <1>22 DEF TakeOwner
<1>23. ASSUME TakeGlobal
      PROVE  Local'
  BY <1>23 DEF TakeGlobal
<1>24. ASSUME VerifyStaged
      PROVE  Local'
  BY <1>24 DEF VerifyStaged
<1>25. ASSUME Recheck
      PROVE  Local'
  BY <1>25 DEF Recheck
<1>26. ASSUME MoveActive
      PROVE  Local'
  <2>1. pc["request"] = "idle"
    BY <1>26 DEF MoveActive, Control, Fenced, Late, Shared, Exclusive, Actors, Labels
  <2> QED
    BY <1>26, <2>1 DEF MoveActive
<1>27. ASSUME PutStaged
      PROVE  Local'
  <2>1. pc["request"] = "idle"
    BY <1>27 DEF PutStaged, Control, Fenced, Late, Shared, Exclusive, Actors, Labels
  <2> QED
    BY <1>27, <2>1 DEF PutStaged
<1>28. ASSUME CheckPublished
      PROVE  Local'
  BY <1>28 DEF CheckPublished
<1>29. ASSUME Consume
      PROVE  Local'
  BY <1>29 DEF Consume
<1>30. ASSUME CutoverFail
      PROVE  Local'
  BY <1>30 DEF CutoverFail, Raise, Mishap, Reversal
<1>31. ASSUME ConsumeFail
      PROVE  Local'
  BY <1>31 DEF ConsumeFail, Raise, Mishap, Reversal
<1>32. ASSUME ReverseNew
      PROVE  Local'
  <2>1. pc["request"] = "idle"
    BY <1>32 DEF ReverseNew, Control, Fenced, Late, Shared, Exclusive, Actors, Labels
  <2> QED
    BY <1>32, <2>1 DEF ReverseNew
<1>33. ASSUME ReverseOld
      PROVE  Local'
  <2>1. pc["request"] = "idle"
    BY <1>33 DEF ReverseOld, Control, Fenced, Late, Shared, Exclusive, Actors, Labels
  <2> QED
    BY <1>33, <2>1 DEF ReverseOld
<1>34. ASSUME ReverseFail
      PROVE  Local'
  BY <1>34 DEF ReverseFail, Raise, Mishap
<1>35. ASSUME CutoverEnd
      PROVE  Local'
  BY <1>35 DEF CutoverEnd
<1>36. ASSUME ToolDies
      PROVE  Local'
  BY <1>36 DEF ToolDies, Mishap
<1>37. ASSUME ServerDies
      PROVE  Local'
  BY <1>37 DEF ServerDies, Mishap
<1>38. ASSUME NEW r \in Restores, CopyBack(r)
      PROVE  Local'
  BY <1>38 DEF CopyBack, Mishap
<1> QED
  BY <1>1, <1>2, <1>3, <1>4, <1>5, <1>6, <1>7, <1>8, <1>9, <1>10, <1>11, <1>12, <1>13,
     <1>14, <1>15, <1>16, <1>17, <1>18, <1>19, <1>20, <1>21, <1>22, <1>23, <1>24, <1>25,
     <1>26, <1>27, <1>28, <1>29, <1>30, <1>31, <1>32, <1>33, <1>34, <1>35, <1>36, <1>37,
     <1>38 DEF Next, ServerStep, RequestStep, RetainStep, RestoreStep, SnapStep,
     CutoverStep

\* What users last saw is found at every step of a cutover and its reversal.
LEMMA RescueNext ==
    ASSUME CutoverInv, Next
    PROVE  Rescue'
<1> USE NoneAssumption, BoundAssumption DEF CutoverInv, roots, counts, history, Go,
        Take, Drop, NoJob, TypeOK, Rescue, CurrentDataExists, Local, Labels, Control,
        Copying, Early, Late, Fenced, Names, Actors, SnapActors
<1>1. ASSUME Tick
      PROVE  Rescue'
  BY <1>1 DEF Tick
<1>2. ASSUME ServerStart
      PROVE  Rescue'
  BY <1>2 DEF ServerStart
<1>3. ASSUME ServerOpen
      PROVE  Rescue'
  BY <1>3 DEF ServerOpen
<1>4. ASSUME ServerDrain
      PROVE  Rescue'
  BY <1>4 DEF ServerDrain
<1>5. ASSUME ServerClose
      PROVE  Rescue'
  BY <1>5 DEF ServerClose, Drained
<1>6. ASSUME SchedulerClose
      PROVE  Rescue'
  BY <1>6 DEF SchedulerClose
<1>7. ASSUME RequestBegin
      PROVE  Rescue'
  BY <1>7 DEF RequestBegin
<1>8. ASSUME RequestWrite
      PROVE  Rescue'
  BY <1>8 DEF RequestWrite
<1>9. ASSUME RequestEnd
      PROVE  Rescue'
  BY <1>9 DEF RequestEnd
<1>10. ASSUME ToolSnapshot
      PROVE  Rescue'
  BY <1>10 DEF ToolSnapshot
<1>11. ASSUME NEW a \in SnapActors, SnapLock(a)
      PROVE  Rescue'
  BY <1>11 DEF SnapLock
<1>12. ASSUME NEW a \in SnapActors, SnapCopy(a)
      PROVE  Rescue'
  BY <1>12 DEF SnapCopy
<1>13. ASSUME NEW a \in SnapActors, SnapPublish(a)
      PROVE  Rescue'
  BY <1>13 DEF SnapPublish, SnapEnd
<1>14. ASSUME NEW a \in SnapActors, SnapFail(a)
      PROVE  Rescue'
  BY <1>14 DEF SnapFail, SnapEnd
<1>15. ASSUME RetainScan
      PROVE  Rescue'
  BY <1>15 DEF RetainScan, Expired
<1>16. ASSUME RetainRemove
      PROVE  Rescue'
  BY <1>16 DEF RetainRemove
<1>17. ASSUME SchedulerWake
      PROVE  Rescue'
  BY <1>17 DEF SchedulerWake
<1>18. ASSUME NEW r \in Restores, NEW s \in Seconds, RestoreBegin(r, s)
      PROVE  Rescue'
  BY <1>18 DEF RestoreBegin
<1>19. ASSUME RestoreCopy
      PROVE  Rescue'
  BY <1>19 DEF RestoreCopy
<1>20. ASSUME RestoreFail
      PROVE  Rescue'
  BY <1>20 DEF RestoreFail
<1>21. ASSUME NEW r \in Restores, NEW c \in Cuts, CutoverBegin(r, c)
      PROVE  Rescue'
  BY <1>21 DEF CutoverBegin
<1>22. ASSUME TakeOwner
      PROVE  Rescue'
  BY <1>22 DEF TakeOwner
<1>23. ASSUME TakeGlobal
      PROVE  Rescue'
  BY <1>23 DEF TakeGlobal
<1>24. ASSUME VerifyStaged
      PROVE  Rescue'
  <2>1. active \in Data /\ vouched' = active /\ rollback[job.cut] = None
    BY <1>24 DEF VerifyStaged, Roots
  <2> QED
    BY <1>24, <2>1 DEF VerifyStaged
<1>25. ASSUME Recheck
      PROVE  Rescue'
  BY <1>25 DEF Recheck
<1>26. ASSUME MoveActive
      PROVE  Rescue'
  BY <1>26 DEF MoveActive
<1>27. ASSUME PutStaged
      PROVE  Rescue'
  <2>1. staging[job.restore] \in Data /\ active' \in Data
    BY <1>27 DEF PutStaged, Roots
  <2> QED
    BY <1>27, <2>1 DEF PutStaged
<1>28. ASSUME CheckPublished
      PROVE  Rescue'
  BY <1>28 DEF CheckPublished
<1>29. ASSUME Consume
      PROVE  Rescue'
  BY <1>29 DEF Consume
<1>30. ASSUME CutoverFail
      PROVE  Rescue'
  BY <1>30 DEF CutoverFail, Raise, Mishap, Reversal
<1>31. ASSUME ConsumeFail
      PROVE  Rescue'
  BY <1>31 DEF ConsumeFail, Raise, Mishap, Reversal
<1>32. ASSUME ReverseNew
      PROVE  Rescue'
  BY <1>32 DEF ReverseNew
<1>33. ASSUME ReverseOld
      PROVE  Rescue'
  BY <1>33 DEF ReverseOld
<1>34. ASSUME ReverseFail
      PROVE  Rescue'
  BY <1>34 DEF ReverseFail, Raise, Mishap
<1>35. ASSUME CutoverEnd
      PROVE  Rescue'
  BY <1>35 DEF CutoverEnd
<1>36. ASSUME ToolDies
      PROVE  Rescue'
  BY <1>36 DEF ToolDies, Mishap
<1>37. ASSUME ServerDies
      PROVE  Rescue'
  BY <1>37 DEF ServerDies, Mishap
<1>38. ASSUME NEW r \in Restores, CopyBack(r)
      PROVE  Rescue'
  BY <1>38 DEF CopyBack, Mishap
<1> QED
  BY <1>1, <1>2, <1>3, <1>4, <1>5, <1>6, <1>7, <1>8, <1>9, <1>10, <1>11, <1>12, <1>13,
     <1>14, <1>15, <1>16, <1>17, <1>18, <1>19, <1>20, <1>21, <1>22, <1>23, <1>24, <1>25,
     <1>26, <1>27, <1>28, <1>29, <1>30, <1>31, <1>32, <1>33, <1>34, <1>35, <1>36, <1>37,
     <1>38 DEF Next, ServerStep, RequestStep, RetainStep, RestoreStep, SnapStep,
     CutoverStep

\* Fewer than two failures do not lose the way back.
LEMMA HarmlessNext ==
    ASSUME CutoverInv, Next
    PROVE  Harmless'
<1> USE NoneAssumption, BoundAssumption DEF CutoverInv, roots, counts, history, Go,
        Take, Drop, NoJob, TypeOK, Harmless, Rescue, Local, Labels, Control, Copying,
        Early, Late, Fenced, Names, Actors, SnapActors
<1>1. ASSUME Tick
      PROVE  Harmless'
  BY <1>1 DEF Tick
<1>2. ASSUME ServerStart
      PROVE  Harmless'
  BY <1>2 DEF ServerStart
<1>3. ASSUME ServerOpen
      PROVE  Harmless'
  BY <1>3 DEF ServerOpen
<1>4. ASSUME ServerDrain
      PROVE  Harmless'
  BY <1>4 DEF ServerDrain
<1>5. ASSUME ServerClose
      PROVE  Harmless'
  BY <1>5 DEF ServerClose, Drained
<1>6. ASSUME SchedulerClose
      PROVE  Harmless'
  BY <1>6 DEF SchedulerClose
<1>7. ASSUME RequestBegin
      PROVE  Harmless'
  BY <1>7 DEF RequestBegin
<1>8. ASSUME RequestWrite
      PROVE  Harmless'
  BY <1>8 DEF RequestWrite
<1>9. ASSUME RequestEnd
      PROVE  Harmless'
  BY <1>9 DEF RequestEnd
<1>10. ASSUME ToolSnapshot
      PROVE  Harmless'
  BY <1>10 DEF ToolSnapshot
<1>11. ASSUME NEW a \in SnapActors, SnapLock(a)
      PROVE  Harmless'
  BY <1>11 DEF SnapLock
<1>12. ASSUME NEW a \in SnapActors, SnapCopy(a)
      PROVE  Harmless'
  BY <1>12 DEF SnapCopy
<1>13. ASSUME NEW a \in SnapActors, SnapPublish(a)
      PROVE  Harmless'
  BY <1>13 DEF SnapPublish, SnapEnd
<1>14. ASSUME NEW a \in SnapActors, SnapFail(a)
      PROVE  Harmless'
  BY <1>14 DEF SnapFail, SnapEnd
<1>15. ASSUME RetainScan
      PROVE  Harmless'
  BY <1>15 DEF RetainScan, Expired
<1>16. ASSUME RetainRemove
      PROVE  Harmless'
  BY <1>16 DEF RetainRemove
<1>17. ASSUME SchedulerWake
      PROVE  Harmless'
  BY <1>17 DEF SchedulerWake
<1>18. ASSUME NEW r \in Restores, NEW s \in Seconds, RestoreBegin(r, s)
      PROVE  Harmless'
  BY <1>18 DEF RestoreBegin
<1>19. ASSUME RestoreCopy
      PROVE  Harmless'
  BY <1>19 DEF RestoreCopy
<1>20. ASSUME RestoreFail
      PROVE  Harmless'
  BY <1>20 DEF RestoreFail
<1>21. ASSUME NEW r \in Restores, NEW c \in Cuts, CutoverBegin(r, c)
      PROVE  Harmless'
  BY <1>21 DEF CutoverBegin
<1>22. ASSUME TakeOwner
      PROVE  Harmless'
  BY <1>22 DEF TakeOwner
<1>23. ASSUME TakeGlobal
      PROVE  Harmless'
  BY <1>23 DEF TakeGlobal
<1>24. ASSUME VerifyStaged
      PROVE  Harmless'
  BY <1>24 DEF VerifyStaged
<1>25. ASSUME Recheck
      PROVE  Harmless'
  BY <1>25 DEF Recheck
<1>26. ASSUME MoveActive
      PROVE  Harmless'
  BY <1>26 DEF MoveActive
<1>27. ASSUME PutStaged
      PROVE  Harmless'
  BY <1>27 DEF PutStaged
<1>28. ASSUME CheckPublished
      PROVE  Harmless'
  BY <1>28 DEF CheckPublished
<1>29. ASSUME Consume
      PROVE  Harmless'
  BY <1>29 DEF Consume
<1>30. ASSUME CutoverFail
      PROVE  Harmless'
  BY <1>30 DEF CutoverFail, Raise, Mishap, Reversal
<1>31. ASSUME ConsumeFail
      PROVE  Harmless'
  BY <1>31 DEF ConsumeFail, Raise, Mishap, Reversal
<1>32. ASSUME ReverseNew
      PROVE  Harmless'
  BY <1>32 DEF ReverseNew
<1>33. ASSUME ReverseOld
      PROVE  Harmless'
  BY <1>33 DEF ReverseOld
<1>34. ASSUME ReverseFail
      PROVE  Harmless'
  BY <1>34 DEF ReverseFail, Raise, Mishap
<1>35. ASSUME CutoverEnd
      PROVE  Harmless'
  BY <1>35 DEF CutoverEnd
<1>36. ASSUME ToolDies
      PROVE  Harmless'
  BY <1>36 DEF ToolDies, Mishap
<1>37. ASSUME ServerDies
      PROVE  Harmless'
  BY <1>37 DEF ServerDies, Mishap
<1>38. ASSUME NEW r \in Restores, CopyBack(r)
      PROVE  Harmless'
  BY <1>38 DEF CopyBack, Mishap
<1> QED
  BY <1>1, <1>2, <1>3, <1>4, <1>5, <1>6, <1>7, <1>8, <1>9, <1>10, <1>11, <1>12, <1>13,
     <1>14, <1>15, <1>16, <1>17, <1>18, <1>19, <1>20, <1>21, <1>22, <1>23, <1>24, <1>25,
     <1>26, <1>27, <1>28, <1>29, <1>30, <1>31, <1>32, <1>33, <1>34, <1>35, <1>36, <1>37,
     <1>38 DEF Next, ServerStep, RequestStep, RetainStep, RestoreStep, SnapStep,
     CutoverStep

\* Whole contents are only copied while nobody is writing them.
LEMMA SoundNext ==
    ASSUME CutoverInv, Next
    PROVE  Sound'
<1> USE NoneAssumption, BoundAssumption DEF CutoverInv, roots, counts, history, Go,
        Take, Drop, NoJob, Roots, TypeOK, Sound, WholeOrNone, Whole, Rescue, Local,
        Labels, Control, Copying, Early, Late, Fenced, Names, Actors, SnapActors
<1>1. ASSUME Tick
      PROVE  Sound'
  BY <1>1 DEF Tick
<1>2. ASSUME ServerStart
      PROVE  Sound'
  BY <1>2 DEF ServerStart
<1>3. ASSUME ServerOpen
      PROVE  Sound'
  BY <1>3 DEF ServerOpen
<1>4. ASSUME ServerDrain
      PROVE  Sound'
  BY <1>4 DEF ServerDrain
<1>5. ASSUME ServerClose
      PROVE  Sound'
  BY <1>5 DEF ServerClose, Drained
<1>6. ASSUME SchedulerClose
      PROVE  Sound'
  BY <1>6 DEF SchedulerClose
<1>7. ASSUME RequestBegin
      PROVE  Sound'
  BY <1>7 DEF RequestBegin
<1>8. ASSUME RequestWrite
      PROVE  Sound'
  BY <1>8 DEF RequestWrite
<1>9. ASSUME RequestEnd
      PROVE  Sound'
  BY <1>9 DEF RequestEnd
<1>10. ASSUME ToolSnapshot
      PROVE  Sound'
  BY <1>10 DEF ToolSnapshot
<1>11. ASSUME NEW a \in SnapActors, SnapLock(a)
      PROVE  Sound'
  BY <1>11 DEF SnapLock
<1>12. ASSUME NEW a \in SnapActors, SnapCopy(a)
      PROVE  Sound'
  BY <1>12 DEF SnapCopy
<1>13. ASSUME NEW a \in SnapActors, SnapPublish(a)
      PROVE  Sound'
  BY <1>13 DEF SnapPublish, SnapEnd
<1>14. ASSUME NEW a \in SnapActors, SnapFail(a)
      PROVE  Sound'
  BY <1>14 DEF SnapFail, SnapEnd
<1>15. ASSUME RetainScan
      PROVE  Sound'
  BY <1>15 DEF RetainScan, Expired
<1>16. ASSUME RetainRemove
      PROVE  Sound'
  BY <1>16 DEF RetainRemove
<1>17. ASSUME SchedulerWake
      PROVE  Sound'
  BY <1>17 DEF SchedulerWake
<1>18. ASSUME NEW r \in Restores, NEW s \in Seconds, RestoreBegin(r, s)
      PROVE  Sound'
  BY <1>18 DEF RestoreBegin, Verified
<1>19. ASSUME RestoreCopy
      PROVE  Sound'
  BY <1>19 DEF RestoreCopy
<1>20. ASSUME RestoreFail
      PROVE  Sound'
  BY <1>20 DEF RestoreFail
<1>21. ASSUME NEW r \in Restores, NEW c \in Cuts, CutoverBegin(r, c)
      PROVE  Sound'
  BY <1>21 DEF CutoverBegin
<1>22. ASSUME TakeOwner
      PROVE  Sound'
  BY <1>22 DEF TakeOwner
<1>23. ASSUME TakeGlobal
      PROVE  Sound'
  BY <1>23 DEF TakeGlobal
<1>24. ASSUME VerifyStaged
      PROVE  Sound'
  BY <1>24 DEF VerifyStaged, Admitted
<1>25. ASSUME Recheck
      PROVE  Sound'
  BY <1>25 DEF Recheck, Admitted
<1>26. ASSUME MoveActive
      PROVE  Sound'
  BY <1>26 DEF MoveActive
<1>27. ASSUME PutStaged
      PROVE  Sound'
  BY <1>27 DEF PutStaged
<1>28. ASSUME CheckPublished
      PROVE  Sound'
  BY <1>28 DEF CheckPublished
<1>29. ASSUME Consume
      PROVE  Sound'
  BY <1>29 DEF Consume
<1>30. ASSUME CutoverFail
      PROVE  Sound'
  BY <1>30 DEF CutoverFail, Raise, Mishap, Reversal
<1>31. ASSUME ConsumeFail
      PROVE  Sound'
  BY <1>31 DEF ConsumeFail, Raise, Mishap, Reversal
<1>32. ASSUME ReverseNew
      PROVE  Sound'
  BY <1>32 DEF ReverseNew
<1>33. ASSUME ReverseOld
      PROVE  Sound'
  BY <1>33 DEF ReverseOld
<1>34. ASSUME ReverseFail
      PROVE  Sound'
  BY <1>34 DEF ReverseFail, Raise, Mishap
<1>35. ASSUME CutoverEnd
      PROVE  Sound'
  BY <1>35 DEF CutoverEnd
<1>36. ASSUME ToolDies
      PROVE  Sound'
  BY <1>36 DEF ToolDies, Mishap
<1>37. ASSUME ServerDies
      PROVE  Sound'
  BY <1>37 DEF ServerDies, Mishap
<1>38. ASSUME NEW r \in Restores, CopyBack(r)
      PROVE  Sound'
  BY <1>38 DEF CopyBack, Mishap
<1> QED
  BY <1>1, <1>2, <1>3, <1>4, <1>5, <1>6, <1>7, <1>8, <1>9, <1>10, <1>11, <1>12, <1>13,
     <1>14, <1>15, <1>16, <1>17, <1>18, <1>19, <1>20, <1>21, <1>22, <1>23, <1>24, <1>25,
     <1>26, <1>27, <1>28, <1>29, <1>30, <1>31, <1>32, <1>33, <1>34, <1>35, <1>36, <1>37,
     <1>38 DEF Next, ServerStep, RequestStep, RetainStep, RestoreStep, SnapStep,
     CutoverStep

\* The steps that touch the snapshots or what retention is about to remove.
Touching == RetainScan \/ RetainRemove \/ \E a \in SnapActors : SnapPublish(a)
Untouched == snaps' = snaps /\ expired' \subseteq expired /\ collided' = collided
LEMMA SnapSteps ==
    ASSUME Next
    PROVE  Touching \/ Untouched
<1> USE DEF Touching, Untouched, roots, history
<1>1. ASSUME Tick
      PROVE  Touching \/ Untouched
  BY <1>1 DEF Tick
<1>2. ASSUME ServerStart
      PROVE  Touching \/ Untouched
  BY <1>2 DEF ServerStart
<1>3. ASSUME ServerOpen
      PROVE  Touching \/ Untouched
  BY <1>3 DEF ServerOpen
<1>4. ASSUME ServerDrain
      PROVE  Touching \/ Untouched
  BY <1>4 DEF ServerDrain
<1>5. ASSUME ServerClose
      PROVE  Touching \/ Untouched
  BY <1>5 DEF ServerClose, Drained
<1>6. ASSUME SchedulerClose
      PROVE  Touching \/ Untouched
  BY <1>6 DEF SchedulerClose
<1>7. ASSUME RequestBegin
      PROVE  Touching \/ Untouched
  BY <1>7 DEF RequestBegin
<1>8. ASSUME RequestWrite
      PROVE  Touching \/ Untouched
  BY <1>8 DEF RequestWrite
<1>9. ASSUME RequestEnd
      PROVE  Touching \/ Untouched
  BY <1>9 DEF RequestEnd
<1>10. ASSUME ToolSnapshot
      PROVE  Touching \/ Untouched
  BY <1>10 DEF ToolSnapshot
<1>11. ASSUME NEW a \in SnapActors, SnapLock(a)
      PROVE  Touching \/ Untouched
  BY <1>11 DEF SnapLock
<1>12. ASSUME NEW a \in SnapActors, SnapCopy(a)
      PROVE  Touching \/ Untouched
  BY <1>12 DEF SnapCopy
<1>13. ASSUME NEW a \in SnapActors, SnapPublish(a)
      PROVE  Touching \/ Untouched
  BY <1>13
<1>14. ASSUME NEW a \in SnapActors, SnapFail(a)
      PROVE  Touching \/ Untouched
  BY <1>14 DEF SnapFail, SnapEnd
<1>15. ASSUME RetainScan
      PROVE  Touching \/ Untouched
  BY <1>15
<1>16. ASSUME RetainRemove
      PROVE  Touching \/ Untouched
  BY <1>16
<1>17. ASSUME SchedulerWake
      PROVE  Touching \/ Untouched
  BY <1>17 DEF SchedulerWake
<1>18. ASSUME NEW r \in Restores, NEW s \in Seconds, RestoreBegin(r, s)
      PROVE  Touching \/ Untouched
  BY <1>18 DEF RestoreBegin
<1>19. ASSUME RestoreCopy
      PROVE  Touching \/ Untouched
  BY <1>19 DEF RestoreCopy
<1>20. ASSUME RestoreFail
      PROVE  Touching \/ Untouched
  BY <1>20 DEF RestoreFail
<1>21. ASSUME NEW r \in Restores, NEW c \in Cuts, CutoverBegin(r, c)
      PROVE  Touching \/ Untouched
  BY <1>21 DEF CutoverBegin
<1>22. ASSUME TakeOwner
      PROVE  Touching \/ Untouched
  BY <1>22 DEF TakeOwner
<1>23. ASSUME TakeGlobal
      PROVE  Touching \/ Untouched
  BY <1>23 DEF TakeGlobal
<1>24. ASSUME VerifyStaged
      PROVE  Touching \/ Untouched
  BY <1>24 DEF VerifyStaged
<1>25. ASSUME Recheck
      PROVE  Touching \/ Untouched
  BY <1>25 DEF Recheck
<1>26. ASSUME MoveActive
      PROVE  Touching \/ Untouched
  BY <1>26 DEF MoveActive
<1>27. ASSUME PutStaged
      PROVE  Touching \/ Untouched
  BY <1>27 DEF PutStaged
<1>28. ASSUME CheckPublished
      PROVE  Touching \/ Untouched
  BY <1>28 DEF CheckPublished
<1>29. ASSUME Consume
      PROVE  Touching \/ Untouched
  BY <1>29 DEF Consume
<1>30. ASSUME CutoverFail
      PROVE  Touching \/ Untouched
  BY <1>30 DEF CutoverFail, Raise, Mishap, Reversal
<1>31. ASSUME ConsumeFail
      PROVE  Touching \/ Untouched
  BY <1>31 DEF ConsumeFail, Raise, Mishap, Reversal
<1>32. ASSUME ReverseNew
      PROVE  Touching \/ Untouched
  BY <1>32 DEF ReverseNew
<1>33. ASSUME ReverseOld
      PROVE  Touching \/ Untouched
  BY <1>33 DEF ReverseOld
<1>34. ASSUME ReverseFail
      PROVE  Touching \/ Untouched
  BY <1>34 DEF ReverseFail, Raise, Mishap
<1>35. ASSUME CutoverEnd
      PROVE  Touching \/ Untouched
  BY <1>35 DEF CutoverEnd
<1>36. ASSUME ToolDies
      PROVE  Touching \/ Untouched
  BY <1>36 DEF ToolDies, Mishap
<1>37. ASSUME ServerDies
      PROVE  Touching \/ Untouched
  BY <1>37 DEF ServerDies, Mishap
<1>38. ASSUME NEW r \in Restores, CopyBack(r)
      PROVE  Touching \/ Untouched
  BY <1>38 DEF CopyBack, Mishap
<1> QED
  BY <1>1, <1>2, <1>3, <1>4, <1>5, <1>6, <1>7, <1>8, <1>9, <1>10, <1>11, <1>12, <1>13,
     <1>14, <1>15, <1>16, <1>17, <1>18, <1>19, <1>20, <1>21, <1>22, <1>23, <1>24, <1>25,
     <1>26, <1>27, <1>28, <1>29, <1>30, <1>31, <1>32, <1>33, <1>34, <1>35, <1>36, <1>37,
     <1>38 DEF Next, ServerStep, RequestStep, RetainStep, RestoreStep, SnapStep,
     CutoverStep

\* There are finitely many newer snapshots.
LEMMA NewerIsFinite ==
    ASSUME NEW s \in Seconds
    PROVE  IsFiniteSet(Newer(s)) /\ IsFiniteSet(Newer(s))'
<1>1. IsFiniteSet(s + 1 .. MaxSeconds)
  BY BoundAssumption, FS_Interval DEF Seconds
<1>2. /\ Newer(s) \subseteq s + 1 .. MaxSeconds
      /\ Newer(s)' \subseteq s + 1 .. MaxSeconds
  BY DEF Newer
<1> QED
  BY <1>1, <1>2, FS_Subset

\* What is about to be removed is spared as long as the snapshots newer than it
\* are only added to.
LEMMA SparedIfMore ==
    ASSUME CutoverInv,
           expired' \subseteq expired, collided => collided',
           ~collided' => \A s \in Seconds :
               Verified(s) /\ (\E o \in expired' : o <= s) => Verified(s)'
    PROVE  Spared'
<1> SUFFICES ASSUME ~collided', NEW s \in expired'
             PROVE  Verified(s)' /\ Cardinality(Newer(s)') >= Keep
  BY DEF Spared, Newer
<1>1. s \in Seconds /\ Seconds \subseteq Int
  BY BoundAssumption DEF CutoverInv, TypeOK, Seconds
<1>2. Verified(s) /\ Cardinality(Newer(s)) >= Keep
  BY DEF CutoverInv, Spared
<1>3. Newer(s) \subseteq Newer(s)'
  <2> SUFFICES ASSUME NEW n \in s + 1 .. MaxSeconds, Verified(n)
               PROVE  Verified(n)'
    BY DEF Newer
  <2>1. n \in Seconds /\ s <= n
    BY <1>1, BoundAssumption DEF Seconds
  <2> QED
    BY <2>1
<1>4. Cardinality(Newer(s)) <= Cardinality(Newer(s)')
  BY <1>1, <1>3, NewerIsFinite, FS_Subset
<1>5. Cardinality(Newer(s)) \in Nat /\ Cardinality(Newer(s)') \in Nat
  BY <1>1, NewerIsFinite, FS_CardinalityType
<1>6. Verified(s)'
  BY <1>1, <1>2
<1> QED
  BY <1>2, <1>4, <1>5, <1>6, BoundAssumption

\* Retention: what it lists is spared, and it removes the oldest one first.
LEMMA SparedNext ==
    ASSUME CutoverInv, Next
    PROVE  Spared'
<1> USE BoundAssumption DEF CutoverInv
<1>1. CASE Untouched
  BY <1>1, SparedIfMore DEF Verified, Untouched
<1>2. ASSUME NEW a \in SnapActors, SnapPublish(a)
      PROVE  Spared'
  <2>1. CASE snaps[now] = None
    <3>1. /\ snaps' = [snaps EXCEPT ![now] = temp[a]] /\ expired' = expired
          /\ collided' = collided
      BY <1>2, <2>1 DEF SnapPublish
    <3>2. \A n \in Seconds : Verified(n) => snaps'[n] = snaps[n]
      BY <2>1, <3>1 DEF Verified, TypeOK
    <3> QED
      BY <3>1, <3>2, SparedIfMore DEF Verified
  <2>2. CASE snaps[now] # None
    BY <1>2, <2>2 DEF SnapPublish, Spared
  <2> QED
    BY <2>1, <2>2
<1>3. CASE RetainScan
  <2>1. expired' = Expired(Keep) /\ snaps' = snaps
    BY <1>3 DEF RetainScan
  <2> QED
    BY <2>1 DEF Spared, Expired, Newer, Verified
<1>4. CASE RetainRemove
  <2>1. CASE expired = {}
    BY <1>4, <2>1, SparedIfMore DEF RetainRemove, history, Verified
  <2>2. ASSUME NEW s \in expired, \A e \in expired : s <= e,
               snaps' = [snaps EXCEPT ![s] = None], expired' = expired \ {s}
        PROVE  Spared'
    <3>1. s \in Seconds /\ Seconds \subseteq Int /\ expired \subseteq Seconds
          /\ snaps \in [Seconds -> Roots]
      BY BoundAssumption DEF TypeOK, Seconds
    <3>2. \A n \in Seconds : (\E e \in expired' : e <= n) => n # s
      BY <2>2, <3>1
    <3>3. collided' = collided
      BY <1>4 DEF RetainRemove, history
    <3> QED
      BY <2>2, <3>1, <3>2, <3>3, SparedIfMore DEF Verified
  <2> QED
    BY <1>4, <2>1, <2>2 DEF RetainRemove
<1> QED
  BY <1>1, <1>2, <1>3, <1>4, SnapSteps DEF Touching


\* The invariant holds initially,
LEMMA InvInit == Init => CutoverInv
<1> SUFFICES ASSUME Init PROVE CutoverInv
  OBVIOUS
<1> USE BoundAssumption, NoneAssumption DEF Init, NoJob
<1>1. [meta |-> 0, space |-> 0] \in Data
  BY DEF Data
<1>2. active = [meta |-> 0, space |-> 0] /\ current = active
  OBVIOUS
<1>3. TypeOK
  <2> USE <1>1, <1>2
  <2>1. TypeOfRoots
    BY DEF TypeOfRoots, Roots
  <2>2. TypeOfSnaps
    <3>1. now \in Seconds
      BY DEF Seconds
    <3> QED
      BY <3>1 DEF TypeOfSnaps, Roots
  <2>3. TypeOfControl
    BY DEF TypeOfControl
  <2> QED
    BY <2>1, <2>2, <2>3 DEF TypeOK, TypeOfRoots, TypeOfSnaps, TypeOfControl
<1>4. Labels /\ Control /\ Local
  BY DEF Labels, Control, Local, Names, Copying, Early, Late, Fenced, Actors,
     SnapActors, Shared, Exclusive
<1>5. Rescue /\ Harmless /\ Spared
  BY DEF Rescue, Harmless, Spared, CurrentDataExists, Early, Late, Actors
<1>6. Sound
  BY <1>2 DEF Sound, WholeOrNone, Whole, Actors, SnapActors
<1> QED
  BY <1>3, <1>4, <1>5, <1>6 DEF CutoverInv

\* and every step keeps it.
LEMMA InvNext == CutoverInv /\ [Next]_vars => CutoverInv'
<1> SUFFICES ASSUME CutoverInv, [Next]_vars PROVE CutoverInv'
  OBVIOUS
<1>1. CASE Next
  <2>1. TypeOK'
    BY <1>1, TypedRootsNext, TypedSnapsNext, TypedControlNext
    DEF TypeOK, TypeOfRoots, TypeOfSnaps, TypeOfControl
  <2> QED
    BY <1>1, <2>1, LabelsNext, ControlNext, LocalNext, RescueNext, HarmlessNext,
       SoundNext,
       SparedNext DEF CutoverInv
<1>2. CASE UNCHANGED vars
  BY <1>2 DEF CutoverInv, vars, roots, counts, history, TypeOK, Labels, Control, Local,
     Rescue, CurrentDataExists, Harmless, Sound, Spared, Newer, Verified
<1> QED
  BY <1>1, <1>2

\* The inductive invariant holds in every reachable state.
THEOREM Invariance == Spec => []CutoverInv
  BY InvInit, InvNext, PTL DEF Spec

\* Every variable keeps its type, whatever fails or dies.
THEOREM TypeCorrect == Spec => []TypeOK
<1>1. CutoverInv => TypeOK
  BY DEF CutoverInv
<1> QED
  BY <1>1, Invariance, PTL

\* coordinator.cutover and _reverse_publication: the content users last saw is
\* the active root or a whole rollback root at every moment, and one failing
\* step does not leave the active root without it.
THEOREM NothingIsLost == Spec => []DataAreNeverLost
<1>1. CutoverInv => CurrentDataExists
  BY DEF CutoverInv, Rescue, CurrentDataExists
<1>2. CutoverInv => OneFailureIsHarmless
  BY DEF CutoverInv, Harmless, OneFailureIsHarmless, Late
<1> QED
  BY <1>1, <1>2, Invariance, PTL DEF DataAreNeverLost

\* The two fences of a cutover, the owner lease and the global lease EXCLUSIVE:
\* while roots move there is no server, no request and no snapshot under way,
\* and what lies at the rollback path is what its proof vouches for.
THEOREM RootsMoveAlone == Spec => []MovesAlone
<1>1. CutoverInv => MovesAlone
  <2> SUFFICES ASSUME CutoverInv, pc["tool"] \in {"move"} \cup Late
               PROVE  MovesAlone
    BY DEF MovesAlone, Late
  <2>1. lease["tool"] = Exclusive /\ owner = "tool"
    BY DEF CutoverInv, Control, Fenced, Late
  <2>2. server = "off"
    BY <2>1 DEF CutoverInv, Control
  <2>3. lease["request"] = None /\ lease["scheduler"] = None
    BY <2>1 DEF CutoverInv, Control, Actors
  <2>4. pc["request"] = "idle" /\ pc["scheduler"] \notin Copying
    BY <2>3, NoneAssumption DEF CutoverInv, Control
  <2>5. vouched = IF pc["tool"] = "move" THEN active ELSE rollback[job.cut]
    BY DEF CutoverInv, Rescue
  <2> QED
    BY <2>2, <2>4, <2>5 DEF MovesAlone, Copying
<1> QED
  BY <1>1, Invariance, PTL

\* A step of retention removes nothing that is not spared.
LEMMA NewestAreKept ==
    ASSUME CutoverInv, Next, NEW s \in Seconds, Verified(s), snaps'[s] = None, ~collided'
    PROVE  Cardinality({n \in s + 1..MaxSeconds : Verified(n)}) >= Keep
<1>1. CASE Untouched
  BY <1>1 DEF Untouched, Verified
<1>2. ASSUME NEW a \in SnapActors, SnapPublish(a)
      PROVE  FALSE
  <2>1. snaps[now] = None
    BY <1>2 DEF SnapPublish
  <2>2. snaps' = [snaps EXCEPT ![now] = temp[a]]
    BY <1>2, <2>1 DEF SnapPublish
  <2> QED
    BY <2>1, <2>2 DEF Verified, CutoverInv, TypeOK
<1>3. CASE RetainScan
  BY <1>3 DEF RetainScan, Verified
<1>4. CASE RetainRemove
  <2>1. ~collided /\ s \in expired
    BY <1>4 DEF RetainRemove, history, Verified, CutoverInv, TypeOK
  <2> QED
    BY <2>1 DEF CutoverInv, Spared, Newer
<1> QED
  BY <1>1, <1>2, <1>3, <1>4, SnapSteps DEF Touching

\* The snapshots of _create_full_snapshot are whole although their databases
\* are copied one by one under the lease, and _retain, which holds none, leaves
\* the newest Keep verified ones.
THEOREM ReliableSnapshots == Spec => SnapshotsAreReliable
<1>1. CutoverInv => SnapshotsAreWhole
  BY DEF CutoverInv, Sound, WholeOrNone, SnapshotsAreWhole
<1>2. CutoverInv /\ [Next]_vars
        => [\A s \in Seconds : Verified(s) /\ snaps'[s] = None /\ ~collided'
               => Cardinality({n \in s + 1..MaxSeconds : Verified(n)}) >= Keep]_vars
  BY NewestAreKept
<1> QED
  BY <1>1, <1>2, Invariance, PTL DEF SnapshotsAreReliable, RetentionKeepsNewest, Spec

----------------------------------------------------------------------------
(* The files of a mutation.  While a stage is published, Standing says what *)
(* each of its names and files is after the system calls so far; StageInv   *)
(* is what is left of that when the request is gone.                        *)

Marks == {"none", "temp", "key", "there", "torn", "whole"}
Thing(X) == [now : X, may : SUBSET X]

TypeOfFiles ==
    /\ log \in [Ops -> {"none", "intent", "staged", "done"}]
    /\ ns \in Thing({"none", "there"}) /\ ns.now \in ns.may
    /\ tree \in [Ops -> [Items -> Thing(Marks)]]
    /\ fence \in Thing(Int) /\ fence.now \in fence.may /\ given \in Int
    /\ note \in Thing(Ops \cup {"first", "torn"}) /\ draft \in Thing({"none", "torn", "whole"})
    /\ doing \in [task : {"idle"}] \cup [task : {"collect"}]
                 \cup [task : {"publish"}, op : Ops, at : 1..20]
                 \cup [task : {"write"}, op : Ops, at : 1..5]
                 \cup [task : {"fence"}, at : 1..5]
                 \cup [task : {"remove"}, todo : SUBSET Ops]
                 \cup [task : {"off"}, todo : SUBSET Ops]
    /\ stops \in Nat /\ adopted \subseteq Ops /\ gutted \subseteq Ops

\* A file that call c creates and whose name call p flushes, a directory, and the
\* stage itself, before the k-th call.
FileAt(k, c, p) ==
    IF k <= c THEN Exactly("none")
    ELSE [now |-> IF k = c + 1 THEN "torn" ELSE "whole",
          may |-> {m \in {"none", "torn", "whole"} :
                     \/ m = "none" /\ k <= p
                     \/ m = "torn" /\ k <= c + 2
                     \/ m = "whole" /\ k >= c + 2}]
DirAt(k, c, p) ==
    IF k <= c THEN Exactly("none")
    ELSE [now |-> "there", may |-> IF k <= p THEN {"none", "there"} ELSE {"there"}]
NameAt(k) ==
    CASE k <= 3  -> Exactly("none")
      [] k \in 4..18 -> [now |-> "temp", may |-> {"none", "temp"}]
      [] k = 19  -> [now |-> "key", may |-> {"none", "temp", "key"}]
      [] OTHER   -> Exactly("key")

Standing(o, k, i) ==
    CASE i = "name"     -> NameAt(k)
      [] i = "before"   -> DirAt(k, 4, 17)
      [] i = "after"    -> DirAt(k, 5, 17)
      [] i = "manifest" -> FileAt(k, 14, 17)
      [] i = "beforeImage" /\ "before" \in Images[o] -> FileAt(k, 6, 12)
      [] i = "afterImage" /\ "after" \in Images[o] -> FileAt(k, 9, 13)
      [] OTHER -> Exactly("none")

PublishInv ==
    doing.task = "publish" =>
        /\ log[doing.op] = "intent"
        /\ tree[doing.op] = [i \in Items |-> Standing(doing.op, doing.at, i)]
        /\ doing.at = 2 => ns.now = "there"
        /\ doing.at >= 3 => ns.may = {"there"}

StageInv(o) ==
    /\ log[o] = "none" => tree[o] = NoStage
    /\ log[o] # "done" => o \notin gutted
    /\ tree[o]["name"].now \in tree[o]["name"].may
    /\ o \notin gutted /\ "key" \in tree[o]["name"].may =>
           tree[o]["name"].now = "key" /\ Durable(o)
    /\ log[o] = "staged" /\ o \notin adopted =>
           ns.may = {"there"} /\ tree[o]["name"].may = {"key"}

RemoveInv == doing.task = "remove" => \A o \in doing.todo : log[o] = "done"

NoteInv ==
    /\ "torn" \notin note.may
    /\ doing.task = "write" /\ doing.at = 4 => "torn" \notin draft.may

FenceInv ==
    /\ \A f \in fence.may : f >= given
    /\ doing.task = "fence" /\ doing.at = 3 => "torn" \notin draft.may
    /\ doing.task = "fence" /\ doing.at = 5 => fence.may = {fence.now}

FileInv ==
    /\ TypeOfFiles /\ PublishInv /\ RemoveInv /\ NoteInv /\ FenceInv
    /\ \A o \in Ops : StageInv(o)

LEMMA Calls ==
    /\ Len(Publication) = 19
    /\ Publication[1] = Do("namespace", "name") /\ Publication[2] = Do("flushparent", "name")
    /\ Publication[3] = Do("mktemp", "name")
    /\ Publication[4] = Do("mkdir", "before") /\ Publication[5] = Do("mkdir", "after")
    /\ Publication[6] = Do("create", "beforeImage") /\ Publication[7] = Do("write", "beforeImage")
    /\ Publication[8] = Do("flush", "beforeImage")
    /\ Publication[9] = Do("create", "afterImage") /\ Publication[10] = Do("write", "afterImage")
    /\ Publication[11] = Do("flush", "afterImage")
    /\ Publication[12] = Do("flushdir", "before") /\ Publication[13] = Do("flushdir", "after")
    /\ Publication[14] = Do("create", "manifest") /\ Publication[15] = Do("write", "manifest")
    /\ Publication[16] = Do("flush", "manifest") /\ Publication[17] = Do("flushdir", "name")
    /\ Publication[18] = Do("rename", "name") /\ Publication[19] = Do("flushnames", "name")
BY DEF Publication, ImageCalls, Image

LEMMA ItemsAre == Items = {"name", "before", "after", "manifest", "beforeImage", "afterImage"}
BY DEF Items, Entries, Blobs, Image, Sides

LEMMA BlobsAre == Blobs = {"beforeImage", "afterImage"}
BY DEF Blobs, Image, Sides

LEMMA ExpectedAre ==
    ASSUME NEW o \in Ops
    PROVE  /\ Expected(o) \subseteq {"manifest", "beforeImage", "afterImage"}
           /\ "manifest" \in Expected(o)
           /\ "beforeImage" \in Expected(o) <=> "before" \in Images[o]
           /\ "afterImage" \in Expected(o) <=> "after" \in Images[o]
BY ImagesAssumption DEF Expected, Image, Sides

\* What one system call does to a file or a directory that stands as it should.
LEMMA FileStands ==
    ASSUME NEW k \in Nat, NEW c \in Nat, NEW p \in Nat, c + 2 < p
    PROVE  /\ k = c => Created(FileAt(k, c, p)) = FileAt(k + 1, c, p)
           /\ k = c + 1 => Written(FileAt(k, c, p)) = FileAt(k + 1, c, p)
           /\ k = c + 2 => FileFlushed(FileAt(k, c, p)) = FileAt(k + 1, c, p)
           /\ k = p => EntryFlushed(FileAt(k, c, p)) = FileAt(k + 1, c, p)
           /\ k \notin {c, c + 1, c + 2, p} => FileAt(k, c, p) = FileAt(k + 1, c, p)
           /\ k <= c => FileAt(k, c, p) = Exactly("none")
<1>1. k = c => Created(FileAt(k, c, p)) = FileAt(k + 1, c, p)
  BY DEF Created, Changed, FileAt, Exactly
<1>2. k = c + 1 => Written(FileAt(k, c, p)) = FileAt(k + 1, c, p)
  BY DEF Written, Changed, FileAt, Exactly
<1>3. k = c + 2 => FileFlushed(FileAt(k, c, p)) = FileAt(k + 1, c, p)
  <2> HAVE k = c + 2
  <2>1. FileAt(k, c, p) = [now |-> "whole", may |-> {"none", "torn", "whole"}]
    BY DEF FileAt
  <2>2. FileAt(k + 1, c, p) = [now |-> "whole", may |-> {"none", "whole"}]
    BY DEF FileAt
  <2>3. {"none", "torn", "whole"} \ {"torn"} = {"none", "whole"}
    OBVIOUS
  <2> QED BY <2>1, <2>2, <2>3 DEF FileFlushed
<1>4. k = p => EntryFlushed(FileAt(k, c, p)) = FileAt(k + 1, c, p)
  <2> HAVE k = p
  <2>1. FileAt(k, c, p) = [now |-> "whole", may |-> {"none", "whole"}]
    BY DEF FileAt
  <2>2. FileAt(k + 1, c, p) = [now |-> "whole", may |-> {"whole"}]
    BY DEF FileAt
  <2>3. {"none", "whole"} \ {"none"} = {"whole"}
    OBVIOUS
  <2> QED BY <2>1, <2>2, <2>3 DEF EntryFlushed
<1>5. k \notin {c, c + 1, c + 2, p} => FileAt(k, c, p) = FileAt(k + 1, c, p)
  <2> HAVE k \notin {c, c + 1, c + 2, p}
  <2>1. CASE k < c
    BY <2>1 DEF FileAt
  <2>2. CASE k > c + 2
    <3>1. \A m : (m = "none" /\ k <= p) <=> (m = "none" /\ k + 1 <= p)
      BY <2>2
    <3> QED BY <2>2, <3>1 DEF FileAt
  <2> QED BY <2>1, <2>2
<1>6. k <= c => FileAt(k, c, p) = Exactly("none")
  BY DEF FileAt
<1> QED BY <1>1, <1>2, <1>3, <1>4, <1>5, <1>6

LEMMA DirStands ==
    ASSUME NEW k \in Nat, NEW c \in Nat, NEW p \in Nat, c < p
    PROVE  /\ k = c => MadeDirectory(DirAt(k, c, p)) = DirAt(k + 1, c, p)
           /\ k = p => EntryFlushed(DirAt(k, c, p)) = DirAt(k + 1, c, p)
           /\ k \notin {c, p} => DirAt(k, c, p) = DirAt(k + 1, c, p)
           /\ k <= c => DirAt(k, c, p) = Exactly("none")
<1>1. k = c => MadeDirectory(DirAt(k, c, p)) = DirAt(k + 1, c, p)
  BY DEF MadeDirectory, Changed, DirAt, Exactly
<1>2. k = p => EntryFlushed(DirAt(k, c, p)) = DirAt(k + 1, c, p)
  <2>1. {"none", "there"} \ {"none"} = {"there"}
    OBVIOUS
  <2> QED BY <2>1 DEF EntryFlushed, DirAt
<1>3. k \notin {c, p} => DirAt(k, c, p) = DirAt(k + 1, c, p)
  BY DEF DirAt
<1> QED BY <1>1, <1>2, <1>3 DEF DirAt

\* What one system call does to a stage that stands as it should.
LEMMA CallStands ==
    ASSUME NEW o \in Ops, NEW k \in 1..18,
           NEW s, s = [i \in Items |-> Standing(o, k, i)],
           NEW d, d = Publication[k]
    PROVE  (IF Skipped(o, d) THEN s ELSE Called(s, d.call, d.item))
           = [i \in Items |-> Standing(o, k + 1, i)]
<1>n. /\ k \notin {3, 18} => NameAt(k) = NameAt(k + 1)
      /\ k = 3 => NameAt(k + 1) = Changed(NameAt(k), "temp")
      /\ k = 18 => NameAt(k + 1) = Renamed(NameAt(k))
  <2>1. {"none", "temp"} \cup {"key"} = {"none", "temp", "key"} /\ {"none"} \cup {"temp"} = {"none", "temp"}
    OBVIOUS
  <2>2. CASE k = 3
    <3>1. NameAt(3) = Exactly("none") /\ NameAt(4) = [now |-> "temp", may |-> {"none", "temp"}]
      BY DEF NameAt
    <3> QED BY <2>1, <2>2, <3>1 DEF Changed, Exactly
  <2>3. CASE k = 18
    BY <2>1, <2>3 DEF NameAt, Changed, Renamed
  <2>4. CASE k \notin {3, 18}
    BY <2>4 DEF NameAt
  <2> QED BY <2>2, <2>3, <2>4
<1>f. /\ k = 6 => Created(FileAt(k, 6, 12)) = FileAt(k + 1, 6, 12)
      /\ k = 7 => Written(FileAt(k, 6, 12)) = FileAt(k + 1, 6, 12)
      /\ k = 8 => FileFlushed(FileAt(k, 6, 12)) = FileAt(k + 1, 6, 12)
      /\ k = 12 => EntryFlushed(FileAt(k, 6, 12)) = FileAt(k + 1, 6, 12)
      /\ k \notin {6, 7, 8, 12} => FileAt(k, 6, 12) = FileAt(k + 1, 6, 12)
  BY FileStands
<1>g. /\ k = 9 => Created(FileAt(k, 9, 13)) = FileAt(k + 1, 9, 13)
      /\ k = 10 => Written(FileAt(k, 9, 13)) = FileAt(k + 1, 9, 13)
      /\ k = 11 => FileFlushed(FileAt(k, 9, 13)) = FileAt(k + 1, 9, 13)
      /\ k = 13 => EntryFlushed(FileAt(k, 9, 13)) = FileAt(k + 1, 9, 13)
      /\ k \notin {9, 10, 11, 13} => FileAt(k, 9, 13) = FileAt(k + 1, 9, 13)
  BY FileStands
<1>h. /\ k = 14 => Created(FileAt(k, 14, 17)) = FileAt(k + 1, 14, 17)
      /\ k = 15 => Written(FileAt(k, 14, 17)) = FileAt(k + 1, 14, 17)
      /\ k = 16 => FileFlushed(FileAt(k, 14, 17)) = FileAt(k + 1, 14, 17)
      /\ k = 17 => EntryFlushed(FileAt(k, 14, 17)) = FileAt(k + 1, 14, 17)
      /\ k \notin {14, 15, 16, 17} => FileAt(k, 14, 17) = FileAt(k + 1, 14, 17)
  BY FileStands
<1>d. /\ k = 4 => MadeDirectory(DirAt(k, 4, 17)) = DirAt(k + 1, 4, 17)
      /\ k = 17 => EntryFlushed(DirAt(k, 4, 17)) = DirAt(k + 1, 4, 17)
      /\ k \notin {4, 17} => DirAt(k, 4, 17) = DirAt(k + 1, 4, 17)
  BY DirStands
<1>e. /\ k = 5 => MadeDirectory(DirAt(k, 5, 17)) = DirAt(k + 1, 5, 17)
      /\ k = 17 => EntryFlushed(DirAt(k, 5, 17)) = DirAt(k + 1, 5, 17)
      /\ k \notin {5, 17} => DirAt(k, 5, 17) = DirAt(k + 1, 5, 17)
  BY DirStands
<1>1. CASE k = 1
  <2>0. d.call = "namespace" /\ d.item = "name"
    BY <1>1, Calls DEF Do
  <2>1. /\ NameAt(2) = NameAt(1)
        /\ DirAt(2, 4, 17) = DirAt(1, 4, 17)
        /\ DirAt(2, 5, 17) = DirAt(1, 5, 17)
        /\ FileAt(2, 14, 17) = FileAt(1, 14, 17)
        /\ FileAt(2, 6, 12) = FileAt(1, 6, 12)
        /\ FileAt(2, 9, 13) = FileAt(1, 9, 13)
    BY <1>1, <1>n, <1>f, <1>g, <1>h, <1>d, <1>e
  <2>2. (IF Skipped(o, d) THEN s ELSE Called(s, d.call, d.item)) = s
    BY <2>0 DEF Called
  <2> QED BY <2>1, <2>2, <1>1, ItemsAre DEF Standing
<1>2. CASE k = 2
  <2>0. d.call = "flushparent" /\ d.item = "name"
    BY <1>2, Calls DEF Do
  <2>1. /\ NameAt(3) = NameAt(2)
        /\ DirAt(3, 4, 17) = DirAt(2, 4, 17)
        /\ DirAt(3, 5, 17) = DirAt(2, 5, 17)
        /\ FileAt(3, 14, 17) = FileAt(2, 14, 17)
        /\ FileAt(3, 6, 12) = FileAt(2, 6, 12)
        /\ FileAt(3, 9, 13) = FileAt(2, 9, 13)
    BY <1>2, <1>n, <1>f, <1>g, <1>h, <1>d, <1>e
  <2>2. (IF Skipped(o, d) THEN s ELSE Called(s, d.call, d.item)) = s
    BY <2>0 DEF Called
  <2> QED BY <2>1, <2>2, <1>2, ItemsAre DEF Standing
<1>3. CASE k = 3
  <2>0. d.call = "mktemp" /\ d.item = "name"
    BY <1>3, Calls DEF Do
  <2>1. /\ NameAt(4) = Changed(NameAt(3), "temp")
        /\ DirAt(4, 4, 17) = DirAt(3, 4, 17)
        /\ DirAt(4, 5, 17) = DirAt(3, 5, 17)
        /\ FileAt(4, 14, 17) = FileAt(3, 14, 17)
        /\ FileAt(4, 6, 12) = FileAt(3, 6, 12)
        /\ FileAt(4, 9, 13) = FileAt(3, 9, 13)
    BY <1>3, <1>n, <1>f, <1>g, <1>h, <1>d, <1>e
  <2>2. Called(s, d.call, d.item) = [s EXCEPT !["name"] = Changed(@, "temp")]
    BY <2>0 DEF Called
  <2>3. Skipped(o, d) <=> FALSE
    BY <2>0, BlobsAre, ExpectedAre DEF Skipped
  <2> QED BY <2>1, <2>2, <2>3, <1>3, ItemsAre DEF Standing
<1>4. CASE k = 4
  <2>0. d.call = "mkdir" /\ d.item = "before"
    BY <1>4, Calls DEF Do
  <2>1. /\ NameAt(5) = NameAt(4)
        /\ DirAt(5, 4, 17) = MadeDirectory(DirAt(4, 4, 17))
        /\ DirAt(5, 5, 17) = DirAt(4, 5, 17)
        /\ FileAt(5, 14, 17) = FileAt(4, 14, 17)
        /\ FileAt(5, 6, 12) = FileAt(4, 6, 12)
        /\ FileAt(5, 9, 13) = FileAt(4, 9, 13)
    BY <1>4, <1>n, <1>f, <1>g, <1>h, <1>d, <1>e
  <2>2. Called(s, d.call, d.item) = [s EXCEPT !["before"] = MadeDirectory(@)]
    BY <2>0 DEF Called
  <2>3. Skipped(o, d) <=> FALSE
    BY <2>0, BlobsAre, ExpectedAre DEF Skipped
  <2> QED BY <2>1, <2>2, <2>3, <1>4, ItemsAre DEF Standing
<1>5. CASE k = 5
  <2>0. d.call = "mkdir" /\ d.item = "after"
    BY <1>5, Calls DEF Do
  <2>1. /\ NameAt(6) = NameAt(5)
        /\ DirAt(6, 4, 17) = DirAt(5, 4, 17)
        /\ DirAt(6, 5, 17) = MadeDirectory(DirAt(5, 5, 17))
        /\ FileAt(6, 14, 17) = FileAt(5, 14, 17)
        /\ FileAt(6, 6, 12) = FileAt(5, 6, 12)
        /\ FileAt(6, 9, 13) = FileAt(5, 9, 13)
    BY <1>5, <1>n, <1>f, <1>g, <1>h, <1>d, <1>e
  <2>2. Called(s, d.call, d.item) = [s EXCEPT !["after"] = MadeDirectory(@)]
    BY <2>0 DEF Called
  <2>3. Skipped(o, d) <=> FALSE
    BY <2>0, BlobsAre, ExpectedAre DEF Skipped
  <2> QED BY <2>1, <2>2, <2>3, <1>5, ItemsAre DEF Standing
<1>6. CASE k = 6
  <2>0. d.call = "create" /\ d.item = "beforeImage"
    BY <1>6, Calls DEF Do
  <2>1. /\ NameAt(7) = NameAt(6)
        /\ DirAt(7, 4, 17) = DirAt(6, 4, 17)
        /\ DirAt(7, 5, 17) = DirAt(6, 5, 17)
        /\ FileAt(7, 14, 17) = FileAt(6, 14, 17)
        /\ FileAt(7, 6, 12) = Created(FileAt(6, 6, 12))
        /\ FileAt(7, 9, 13) = FileAt(6, 9, 13)
    BY <1>6, <1>n, <1>f, <1>g, <1>h, <1>d, <1>e
  <2>2. Called(s, d.call, d.item) = [s EXCEPT !["beforeImage"] = Created(@)]
    BY <2>0 DEF Called
  <2>3. Skipped(o, d) <=> ("before" \notin Images[o])
    BY <2>0, BlobsAre, ExpectedAre DEF Skipped
  <2> QED BY <2>1, <2>2, <2>3, <1>6, ItemsAre DEF Standing
<1>7. CASE k = 7
  <2>0. d.call = "write" /\ d.item = "beforeImage"
    BY <1>7, Calls DEF Do
  <2>1. /\ NameAt(8) = NameAt(7)
        /\ DirAt(8, 4, 17) = DirAt(7, 4, 17)
        /\ DirAt(8, 5, 17) = DirAt(7, 5, 17)
        /\ FileAt(8, 14, 17) = FileAt(7, 14, 17)
        /\ FileAt(8, 6, 12) = Written(FileAt(7, 6, 12))
        /\ FileAt(8, 9, 13) = FileAt(7, 9, 13)
    BY <1>7, <1>n, <1>f, <1>g, <1>h, <1>d, <1>e
  <2>2. Called(s, d.call, d.item) = [s EXCEPT !["beforeImage"] = Written(@)]
    BY <2>0 DEF Called
  <2>3. Skipped(o, d) <=> ("before" \notin Images[o])
    BY <2>0, BlobsAre, ExpectedAre DEF Skipped
  <2> QED BY <2>1, <2>2, <2>3, <1>7, ItemsAre DEF Standing
<1>8. CASE k = 8
  <2>0. d.call = "flush" /\ d.item = "beforeImage"
    BY <1>8, Calls DEF Do
  <2>1. /\ NameAt(9) = NameAt(8)
        /\ DirAt(9, 4, 17) = DirAt(8, 4, 17)
        /\ DirAt(9, 5, 17) = DirAt(8, 5, 17)
        /\ FileAt(9, 14, 17) = FileAt(8, 14, 17)
        /\ FileAt(9, 6, 12) = FileFlushed(FileAt(8, 6, 12))
        /\ FileAt(9, 9, 13) = FileAt(8, 9, 13)
    BY <1>8, <1>n, <1>f, <1>g, <1>h, <1>d, <1>e
  <2>2. Called(s, d.call, d.item) = [s EXCEPT !["beforeImage"] = FileFlushed(@)]
    BY <2>0 DEF Called
  <2>3. Skipped(o, d) <=> ("before" \notin Images[o])
    BY <2>0, BlobsAre, ExpectedAre DEF Skipped
  <2> QED BY <2>1, <2>2, <2>3, <1>8, ItemsAre DEF Standing
<1>9. CASE k = 9
  <2>0. d.call = "create" /\ d.item = "afterImage"
    BY <1>9, Calls DEF Do
  <2>1. /\ NameAt(10) = NameAt(9)
        /\ DirAt(10, 4, 17) = DirAt(9, 4, 17)
        /\ DirAt(10, 5, 17) = DirAt(9, 5, 17)
        /\ FileAt(10, 14, 17) = FileAt(9, 14, 17)
        /\ FileAt(10, 6, 12) = FileAt(9, 6, 12)
        /\ FileAt(10, 9, 13) = Created(FileAt(9, 9, 13))
    BY <1>9, <1>n, <1>f, <1>g, <1>h, <1>d, <1>e
  <2>2. Called(s, d.call, d.item) = [s EXCEPT !["afterImage"] = Created(@)]
    BY <2>0 DEF Called
  <2>3. Skipped(o, d) <=> ("after" \notin Images[o])
    BY <2>0, BlobsAre, ExpectedAre DEF Skipped
  <2> QED BY <2>1, <2>2, <2>3, <1>9, ItemsAre DEF Standing
<1>10. CASE k = 10
  <2>0. d.call = "write" /\ d.item = "afterImage"
    BY <1>10, Calls DEF Do
  <2>1. /\ NameAt(11) = NameAt(10)
        /\ DirAt(11, 4, 17) = DirAt(10, 4, 17)
        /\ DirAt(11, 5, 17) = DirAt(10, 5, 17)
        /\ FileAt(11, 14, 17) = FileAt(10, 14, 17)
        /\ FileAt(11, 6, 12) = FileAt(10, 6, 12)
        /\ FileAt(11, 9, 13) = Written(FileAt(10, 9, 13))
    BY <1>10, <1>n, <1>f, <1>g, <1>h, <1>d, <1>e
  <2>2. Called(s, d.call, d.item) = [s EXCEPT !["afterImage"] = Written(@)]
    BY <2>0 DEF Called
  <2>3. Skipped(o, d) <=> ("after" \notin Images[o])
    BY <2>0, BlobsAre, ExpectedAre DEF Skipped
  <2> QED BY <2>1, <2>2, <2>3, <1>10, ItemsAre DEF Standing
<1>11. CASE k = 11
  <2>0. d.call = "flush" /\ d.item = "afterImage"
    BY <1>11, Calls DEF Do
  <2>1. /\ NameAt(12) = NameAt(11)
        /\ DirAt(12, 4, 17) = DirAt(11, 4, 17)
        /\ DirAt(12, 5, 17) = DirAt(11, 5, 17)
        /\ FileAt(12, 14, 17) = FileAt(11, 14, 17)
        /\ FileAt(12, 6, 12) = FileAt(11, 6, 12)
        /\ FileAt(12, 9, 13) = FileFlushed(FileAt(11, 9, 13))
    BY <1>11, <1>n, <1>f, <1>g, <1>h, <1>d, <1>e
  <2>2. Called(s, d.call, d.item) = [s EXCEPT !["afterImage"] = FileFlushed(@)]
    BY <2>0 DEF Called
  <2>3. Skipped(o, d) <=> ("after" \notin Images[o])
    BY <2>0, BlobsAre, ExpectedAre DEF Skipped
  <2> QED BY <2>1, <2>2, <2>3, <1>11, ItemsAre DEF Standing
<1>12. CASE k = 12
  <2>0. d.call = "flushdir" /\ d.item = "before"
    BY <1>12, Calls DEF Do
  <2>1. /\ NameAt(13) = NameAt(12)
        /\ DirAt(13, 4, 17) = DirAt(12, 4, 17)
        /\ DirAt(13, 5, 17) = DirAt(12, 5, 17)
        /\ FileAt(13, 14, 17) = FileAt(12, 14, 17)
        /\ FileAt(13, 6, 12) = EntryFlushed(FileAt(12, 6, 12))
        /\ FileAt(13, 9, 13) = FileAt(12, 9, 13)
    BY <1>12, <1>n, <1>f, <1>g, <1>h, <1>d, <1>e
  <2> DEFINE t == Called(s, d.call, d.item)
  <2>2. ~Skipped(o, d) /\ t = DirectoryFlushed(s, d.item)
    BY <2>0, BlobsAre DEF Skipped, Called
  <2>3. \A i \in Items : t[i] = IF i \in {"beforeImage"} THEN EntryFlushed(s[i]) ELSE s[i]
    BY <2>2, <2>0, ItemsAre DEF DirectoryFlushed, Below, Entries, Sides, Image
  <2>4. EntryFlushed(Exactly("none")) = Exactly("none")
    BY DEF EntryFlushed, Exactly
  <2>5. \A i \in Items : t[i] = Standing(o, k + 1, i)
    <3> HIDE DEF t
    <3> QED BY <2>1, <2>3, <2>4, <1>12, ItemsAre DEF Standing
  <2>6. t = [i \in Items |-> t[i]]
    BY <2>2 DEF DirectoryFlushed
  <2> QED BY <2>2, <2>5, <2>6
<1>13. CASE k = 13
  <2>0. d.call = "flushdir" /\ d.item = "after"
    BY <1>13, Calls DEF Do
  <2>1. /\ NameAt(14) = NameAt(13)
        /\ DirAt(14, 4, 17) = DirAt(13, 4, 17)
        /\ DirAt(14, 5, 17) = DirAt(13, 5, 17)
        /\ FileAt(14, 14, 17) = FileAt(13, 14, 17)
        /\ FileAt(14, 6, 12) = FileAt(13, 6, 12)
        /\ FileAt(14, 9, 13) = EntryFlushed(FileAt(13, 9, 13))
    BY <1>13, <1>n, <1>f, <1>g, <1>h, <1>d, <1>e
  <2> DEFINE t == Called(s, d.call, d.item)
  <2>2. ~Skipped(o, d) /\ t = DirectoryFlushed(s, d.item)
    BY <2>0, BlobsAre DEF Skipped, Called
  <2>3. \A i \in Items : t[i] = IF i \in {"afterImage"} THEN EntryFlushed(s[i]) ELSE s[i]
    BY <2>2, <2>0, ItemsAre DEF DirectoryFlushed, Below, Entries, Sides, Image
  <2>4. EntryFlushed(Exactly("none")) = Exactly("none")
    BY DEF EntryFlushed, Exactly
  <2>5. \A i \in Items : t[i] = Standing(o, k + 1, i)
    <3> HIDE DEF t
    <3> QED BY <2>1, <2>3, <2>4, <1>13, ItemsAre DEF Standing
  <2>6. t = [i \in Items |-> t[i]]
    BY <2>2 DEF DirectoryFlushed
  <2> QED BY <2>2, <2>5, <2>6
<1>14. CASE k = 14
  <2>0. d.call = "create" /\ d.item = "manifest"
    BY <1>14, Calls DEF Do
  <2>1. /\ NameAt(15) = NameAt(14)
        /\ DirAt(15, 4, 17) = DirAt(14, 4, 17)
        /\ DirAt(15, 5, 17) = DirAt(14, 5, 17)
        /\ FileAt(15, 14, 17) = Created(FileAt(14, 14, 17))
        /\ FileAt(15, 6, 12) = FileAt(14, 6, 12)
        /\ FileAt(15, 9, 13) = FileAt(14, 9, 13)
    BY <1>14, <1>n, <1>f, <1>g, <1>h, <1>d, <1>e
  <2>2. Called(s, d.call, d.item) = [s EXCEPT !["manifest"] = Created(@)]
    BY <2>0 DEF Called
  <2>3. Skipped(o, d) <=> FALSE
    BY <2>0, BlobsAre, ExpectedAre DEF Skipped
  <2> QED BY <2>1, <2>2, <2>3, <1>14, ItemsAre DEF Standing
<1>15. CASE k = 15
  <2>0. d.call = "write" /\ d.item = "manifest"
    BY <1>15, Calls DEF Do
  <2>1. /\ NameAt(16) = NameAt(15)
        /\ DirAt(16, 4, 17) = DirAt(15, 4, 17)
        /\ DirAt(16, 5, 17) = DirAt(15, 5, 17)
        /\ FileAt(16, 14, 17) = Written(FileAt(15, 14, 17))
        /\ FileAt(16, 6, 12) = FileAt(15, 6, 12)
        /\ FileAt(16, 9, 13) = FileAt(15, 9, 13)
    BY <1>15, <1>n, <1>f, <1>g, <1>h, <1>d, <1>e
  <2>2. Called(s, d.call, d.item) = [s EXCEPT !["manifest"] = Written(@)]
    BY <2>0 DEF Called
  <2>3. Skipped(o, d) <=> FALSE
    BY <2>0, BlobsAre, ExpectedAre DEF Skipped
  <2> QED BY <2>1, <2>2, <2>3, <1>15, ItemsAre DEF Standing
<1>16. CASE k = 16
  <2>0. d.call = "flush" /\ d.item = "manifest"
    BY <1>16, Calls DEF Do
  <2>1. /\ NameAt(17) = NameAt(16)
        /\ DirAt(17, 4, 17) = DirAt(16, 4, 17)
        /\ DirAt(17, 5, 17) = DirAt(16, 5, 17)
        /\ FileAt(17, 14, 17) = FileFlushed(FileAt(16, 14, 17))
        /\ FileAt(17, 6, 12) = FileAt(16, 6, 12)
        /\ FileAt(17, 9, 13) = FileAt(16, 9, 13)
    BY <1>16, <1>n, <1>f, <1>g, <1>h, <1>d, <1>e
  <2>2. Called(s, d.call, d.item) = [s EXCEPT !["manifest"] = FileFlushed(@)]
    BY <2>0 DEF Called
  <2>3. Skipped(o, d) <=> FALSE
    BY <2>0, BlobsAre, ExpectedAre DEF Skipped
  <2> QED BY <2>1, <2>2, <2>3, <1>16, ItemsAre DEF Standing
<1>17. CASE k = 17
  <2>0. d.call = "flushdir" /\ d.item = "name"
    BY <1>17, Calls DEF Do
  <2>1. /\ NameAt(18) = NameAt(17)
        /\ DirAt(18, 4, 17) = EntryFlushed(DirAt(17, 4, 17))
        /\ DirAt(18, 5, 17) = EntryFlushed(DirAt(17, 5, 17))
        /\ FileAt(18, 14, 17) = EntryFlushed(FileAt(17, 14, 17))
        /\ FileAt(18, 6, 12) = FileAt(17, 6, 12)
        /\ FileAt(18, 9, 13) = FileAt(17, 9, 13)
    BY <1>17, <1>n, <1>f, <1>g, <1>h, <1>d, <1>e
  <2> DEFINE t == Called(s, d.call, d.item)
  <2>2. ~Skipped(o, d) /\ t = DirectoryFlushed(s, d.item)
    BY <2>0, BlobsAre DEF Skipped, Called
  <2>3. \A i \in Items : t[i] = IF i \in {"before", "after", "manifest"} THEN EntryFlushed(s[i]) ELSE s[i]
    BY <2>2, <2>0, ItemsAre DEF DirectoryFlushed, Below, Entries, Sides, Image
  <2>4. EntryFlushed(Exactly("none")) = Exactly("none")
    BY DEF EntryFlushed, Exactly
  <2>5. \A i \in Items : t[i] = Standing(o, k + 1, i)
    <3> HIDE DEF t
    <3> QED BY <2>1, <2>3, <2>4, <1>17, ItemsAre DEF Standing
  <2>6. t = [i \in Items |-> t[i]]
    BY <2>2 DEF DirectoryFlushed
  <2> QED BY <2>2, <2>5, <2>6
<1>18. CASE k = 18
  <2>0. d.call = "rename" /\ d.item = "name"
    BY <1>18, Calls DEF Do
  <2>1. /\ NameAt(19) = Renamed(NameAt(18))
        /\ DirAt(19, 4, 17) = DirAt(18, 4, 17)
        /\ DirAt(19, 5, 17) = DirAt(18, 5, 17)
        /\ FileAt(19, 14, 17) = FileAt(18, 14, 17)
        /\ FileAt(19, 6, 12) = FileAt(18, 6, 12)
        /\ FileAt(19, 9, 13) = FileAt(18, 9, 13)
    BY <1>18, <1>n, <1>f, <1>g, <1>h, <1>d, <1>e
  <2>2. Called(s, d.call, d.item) = [s EXCEPT !["name"] = Renamed(@)]
    BY <2>0 DEF Called
  <2>3. Skipped(o, d) <=> FALSE
    BY <2>0, BlobsAre, ExpectedAre DEF Skipped
  <2> QED BY <2>1, <2>2, <2>3, <1>18, ItemsAre DEF Standing
<1> QED BY <1>1, <1>2, <1>3, <1>4, <1>5, <1>6, <1>7, <1>8, <1>9, <1>10, <1>11, <1>12, <1>13,
              <1>14, <1>15, <1>16, <1>17, <1>18

LEMMA LastCallStands ==
    ASSUME NEW o \in Ops, NEW s, s = [i \in Items |-> Standing(o, 19, i)]
    PROVE  NameFlushed(s) = [i \in Items |-> Standing(o, 20, i)]
<1>1. s["name"] = [now |-> "key", may |-> {"none", "temp", "key"}]
  BY ItemsAre DEF Standing, NameAt
<1>2. \A i \in Items \ {"name"} : Standing(o, 19, i) = Standing(o, 20, i)
  <2>1. /\ DirAt(19, 4, 17) = DirAt(20, 4, 17) /\ DirAt(19, 5, 17) = DirAt(20, 5, 17)
    BY DEF DirAt
  <2>2. FileAt(19, 6, 12) = FileAt(20, 6, 12) /\ FileAt(19, 9, 13) = FileAt(20, 9, 13)
    BY FileStands
  <2>3. FileAt(19, 14, 17) = FileAt(20, 14, 17)
    BY FileStands
  <2> QED BY <2>1, <2>2, <2>3, ItemsAre DEF Standing
<1>3. Standing(o, 20, "name") = Exactly("key")
  BY DEF Standing, NameAt
<1>4. NameFlushed(s) = [s EXCEPT !["name"] = Exactly("key")]
  <2>1. s["name"].now = "key"
    BY <1>1
  <2> QED BY <2>1 DEF NameFlushed
<1> QED BY <1>2, <1>3, <1>4, ItemsAre

\* What may be left of a stage: each item is as it may be, or gone with a name above.
LEMMA LeftIs ==
    ASSUME NEW stage \in [Items -> Thing(Marks)], NEW l \in Left(stage)
    PROVE  \E p \in [Items -> Marks] :
              /\ \A i \in Items : p[i] \in stage[i].may
              /\ l = [i \in Items |->
                        IF \E j \in Items : i \in Below(j) /\ p[j] = "none" THEN Exactly("none")
                        ELSE Exactly(p[i])]
<1>1. PICK n \in stage.name.may, m \in stage.manifest.may, b \in stage.before.may,
           a \in stage.after.may, x \in stage.beforeImage.may, y \in stage.afterImage.may :
         l = Closed([name |-> n, manifest |-> m, before |-> b, after |-> a,
                     beforeImage |-> x, afterImage |-> y])
  BY DEF Left
<1> DEFINE p == [name |-> n, manifest |-> m, before |-> b, after |-> a,
                 beforeImage |-> x, afterImage |-> y]
<1>2. \A i \in Items : stage[i].may \subseteq Marks
  BY DEF Thing
<1>3. p \in [Items -> Marks]
  BY <1>1, <1>2, ItemsAre
<1>4. \A i \in Items : p[i] \in stage[i].may
  BY <1>1, ItemsAre
<1> HIDE DEF p
<1>5. l = Closed(p)
  BY <1>1 DEF p
<1> QED BY <1>3, <1>4, <1>5 DEF Closed

LEMMA StandingIsTyped ==
    ASSUME NEW o \in Ops, NEW k \in Nat
    PROVE  [i \in Items |-> Standing(o, k, i)] \in [Items -> Thing(Marks)]
<1>1. Exactly("none") \in Thing(Marks) /\ NameAt(k) \in Thing(Marks)
  BY DEF Thing, Marks, Exactly, NameAt
<1>2. \A c, p \in Nat : FileAt(k, c, p) \in Thing(Marks)
  BY <1>1 DEF Thing, Marks, FileAt
<1>3. \A c, p \in Nat : DirAt(k, c, p) \in Thing(Marks)
  BY <1>1 DEF Thing, Marks, DirAt
<1> QED BY <1>1, <1>2, <1>3 DEF Standing

LEMMA ThingsAreKept ==
    ASSUME NEW X, NEW x \in Thing(X)
    PROVE  /\ \A v \in X : Changed(x, v) \in Thing(X) /\ Exactly(v) \in Thing(X)
           /\ FileFlushed(x) \in Thing(X)
           /\ "none" \in X => EntryFlushed(x) \in Thing(X)
BY DEF Thing, Changed, Exactly, FileFlushed, EntryFlushed

\* The stage a publication is about, after its next call.
LEMMA PublishedStage ==
    ASSUME TypeOfFiles, PublishInv, PublishStep
    PROVE  /\ doing.op \in Ops /\ doing.at \in 1..19
           /\ tree'[doing.op] = [i \in Items |-> Standing(doing.op, doing.at + 1, i)]
           /\ \A q \in Ops \ {doing.op} :
                tree'[q] = IF doing.at = 19 THEN NameFlushed(tree[q]) ELSE tree[q]
           /\ tree' \in [Ops -> [Items -> Thing(Marks)]]
<1>1. doing.op \in Ops /\ doing.at \in 1..20
  BY DEF TypeOfFiles, PublishStep
<1>2. doing.at \in 1..19
  BY <1>1, Calls DEF PublishStep
<1>a. PICK o, k : o = doing.op /\ k = doing.at
  OBVIOUS
<1>b. PICK d : d = Publication[k]
  OBVIOUS
<1>3. tree[o] = [i \in Items |-> Standing(o, k, i)]
  BY <1>a DEF PublishInv, PublishStep
<1>4. tree' = CASE Skipped(o, d) -> tree
                [] d.call = "flushnames" -> [q \in Ops |-> NameFlushed(tree[q])]
                [] OTHER -> [tree EXCEPT ![o] = Called(@, d.call, d.item)]
  BY <1>a, <1>b DEF PublishStep
<1>5. CASE k = 19
  <2>1. d.call = "flushnames" /\ d.item = "name"
    BY <1>b, <1>5, Calls DEF Do
  <2>2. ~Skipped(o, d)
    BY <2>1, BlobsAre DEF Skipped
  <2>3. tree' = [q \in Ops |-> NameFlushed(tree[q])]
    BY <1>4, <2>1, <2>2
  <2>4. tree'[o] = [i \in Items |-> Standing(o, k + 1, i)]
    BY <2>3, <1>a, <1>1, <1>3, <1>5, LastCallStands
  <2>5. \A q \in Ops : NameFlushed(tree[q]) \in [Items -> Thing(Marks)]
    <3> SUFFICES ASSUME NEW q \in Ops PROVE NameFlushed(tree[q]) \in [Items -> Thing(Marks)]
      OBVIOUS
    <3>1. tree[q] \in [Items -> Thing(Marks)] /\ tree[q]["name"].now \in Marks
      BY ItemsAre DEF TypeOfFiles, Thing
    <3>2. \A v \in Marks : Exactly(v) \in Thing(Marks)
      BY DEF Exactly, Thing
    <3> QED BY <3>1, <3>2 DEF NameFlushed, NoStage, Marks
  <2> QED BY <1>1, <1>2, <1>5, <1>a, <2>3, <2>4, <2>5
<1>6. CASE k # 19
  <2>0. k \in 1..18
    BY <1>2, <1>6, <1>a
  <2>1. d.call # "flushnames"
    BY <1>b, <2>0, Calls DEF Do
  <2>2. tree' = [tree EXCEPT ![o] = IF Skipped(o, d) THEN tree[o] ELSE Called(tree[o], d.call, d.item)]
    <3>1. tree = [tree EXCEPT ![o] = tree[o]]
      BY DEF TypeOfFiles
    <3> QED BY <1>4, <2>1, <3>1
  <2>3. (IF Skipped(o, d) THEN tree[o] ELSE Called(tree[o], d.call, d.item))
        = [i \in Items |-> Standing(o, k + 1, i)]
    BY <1>3, <1>a, <1>b, <1>1, <2>0, CallStands
  <2>4. [i \in Items |-> Standing(o, k + 1, i)] \in [Items -> Thing(Marks)]
    BY <1>a, <1>1, <2>0, StandingIsTyped
  <2> QED BY <1>1, <1>2, <1>6, <1>a, <2>2, <2>3, <2>4 DEF TypeOfFiles
<1> QED BY <1>5, <1>6

\* What the machine finds of a stage.
LEMMA SettledStage ==
    ASSUME TypeOfFiles, NEW o \in Ops, Settle(o)
    PROVE  \E p \in [Items -> Marks], l \in [Items -> Thing(Marks)] :
              /\ tree' = [tree EXCEPT ![o] = l]
              /\ \A i \in Items : p[i] \in tree[o][i].may
              /\ l = [i \in Items |->
                        IF \E j \in Items : i \in Below(j) /\ p[j] = "none" THEN Exactly("none")
                        ELSE Exactly(p[i])]
<1>1. PICK l \in Left(tree[o]) : tree' = [tree EXCEPT ![o] = l]
  BY DEF Settle
<1>2. tree[o] \in [Items -> Thing(Marks)]
  BY DEF TypeOfFiles
<1>3. PICK p \in [Items -> Marks] :
        /\ \A i \in Items : p[i] \in tree[o][i].may
        /\ l = [i \in Items |->
                  IF \E j \in Items : i \in Below(j) /\ p[j] = "none" THEN Exactly("none")
                  ELSE Exactly(p[i])]
  BY <1>1, <1>2, LeftIs
<1>4. l \in [Items -> Thing(Marks)]
  BY <1>3 DEF Exactly, Thing, Marks
<1> QED BY <1>1, <1>3, <1>4

LEMMA TypeOfFilesNext ==
    ASSUME TypeOfFiles, PublishInv, [FileNext]_fileVars
    PROVE  TypeOfFiles'
<1> USE DEF TypeOfFiles
<1>u. CASE UNCHANGED fileVars
  BY <1>u DEF fileVars
<1>1. CASE PublishStep
  <2>1. /\ doing.op \in Ops /\ doing.at \in 1..19
        /\ tree' \in [Ops -> [Items -> Thing(Marks)]]
    BY <1>1, PublishedStage
  <2>2. ns' \in Thing({"none", "there"}) /\ ns'.now \in ns'.may
    <3>1. ns' \in {ns, MadeDirectory(ns), EntryFlushed(ns)}
      BY <1>1 DEF PublishStep
    <3>2. MadeDirectory(ns) \in Thing({"none", "there"}) /\ MadeDirectory(ns).now \in MadeDirectory(ns).may
      BY DEF MadeDirectory, Changed, Thing
    <3>3. EntryFlushed(ns) \in Thing({"none", "there"}) /\ EntryFlushed(ns).now \in EntryFlushed(ns).may
      BY DEF EntryFlushed, Exactly, Thing
    <3> QED BY <3>1, <3>2, <3>3
  <2>3. doing' \in [task : {"publish"}, op : Ops, at : 1..20]
    <3>1. doing \in [task : {"publish"}, op : Ops, at : 1..20]
      BY <1>1 DEF PublishStep
    <3>2. doing' = [doing EXCEPT !.at = @ + 1]
      BY <1>1 DEF PublishStep
    <3> QED BY <2>1, <3>1, <3>2
  <2> QED BY <1>1, <2>1, <2>2, <2>3 DEF PublishStep
<1>2. CASE MarkStaged
  BY <1>2 DEF MarkStaged, Job
<1>3. CASE WriteStep
  <2>1. doing \in [task : {"write"}, op : Ops, at : 1..5] /\ doing.at \in 1..4
    BY <1>3 DEF WriteStep, AtomicWrite
  <2>2. doing' \in [task : {"write"}, op : Ops, at : 1..5]
    BY <1>3, <2>1 DEF WriteStep
  <2>3. draft' \in Thing({"none", "torn", "whole"})
    <3>1. AtomicWrite[doing.at] \in {"create", "write", "flush", "replace"}
      BY <2>1 DEF AtomicWrite
    <3>2. draft' \in {Created(Exactly("none")), Written(draft), FileFlushed(draft), draft}
      BY <1>3, <3>1 DEF WriteStep
    <3>3. Created(Exactly("none")) \in Thing({"none", "torn", "whole"})
      BY DEF Created, Changed, Exactly, Thing
    <3>4. Written(draft) \in Thing({"none", "torn", "whole"}) /\ FileFlushed(draft) \in Thing({"none", "torn", "whole"})
      BY ThingsAreKept DEF Written
    <3> QED BY <3>2, <3>3, <3>4
  <2>4. note' \in Thing(Ops \cup {"first", "torn"})
    <3>1. note' \in {note, Replaced(note, draft, doing.op)}
      BY <1>3 DEF WriteStep
    <3> QED BY <2>1, <3>1 DEF Replaced, Thing
  <2> QED BY <1>3, <2>2, <2>3, <2>4 DEF WriteStep
<1>4. CASE Finalize
  <2>1. Exactly("none") \in Thing({"none", "torn", "whole"})
    BY DEF Exactly, Thing
  <2> QED BY <1>4, <2>1 DEF Finalize, Idle
<1>5. CASE Open
  BY <1>5 DEF Open
<1>6. CASE FenceStep
  <2>1. doing \in [task : {"fence"}, at : 1..5] /\ doing.at \in 1..4
    BY <1>6 DEF FenceStep, NextFence
  <2>2. doing' \in [task : {"fence"}, at : 1..5]
    BY <1>6, <2>1 DEF FenceStep
  <2>3. draft' \in Thing({"none", "torn", "whole"})
    <3>1. draft' \in {Written(Created(Exactly("none"))), FileFlushed(draft), draft}
      BY <1>6 DEF FenceStep
    <3>2. Written(Created(Exactly("none"))) \in Thing({"none", "torn", "whole"})
      BY DEF Written, Created, Changed, Exactly, Thing
    <3>3. FileFlushed(draft) \in Thing({"none", "torn", "whole"})
      BY ThingsAreKept
    <3> QED BY <3>1, <3>2, <3>3
  <2>4. fence' \in Thing(Int) /\ fence'.now \in fence'.may
    <3>1. fence' \in {FenceReplaced, FenceFlushed, fence}
      BY <1>6 DEF FenceStep
    <3>2. fence.now \in Int /\ fence.may \subseteq Int
      BY DEF Thing
    <3>3. FenceReplaced \in Thing(Int) /\ FenceReplaced.now \in FenceReplaced.may
      BY <3>2 DEF FenceReplaced, Thing
    <3>4. FenceFlushed \in Thing(Int) /\ FenceFlushed.now \in FenceFlushed.may
      BY <3>2 DEF FenceFlushed, Exactly, Thing
    <3> QED BY <3>1, <3>3, <3>4
  <2> QED BY <1>6, <2>2, <2>3, <2>4 DEF FenceStep
<1>7. CASE Admit
  <2>1. Exactly("none") \in Thing({"none", "torn", "whole"}) /\ fence.now \in Int
    BY DEF Exactly, Thing
  <2> QED BY <1>7, <2>1 DEF Admit
<1>8. CASE Collect
  BY <1>8 DEF Collect, Orphans, Children, Idle
<1>9. CASE \E o \in Ops : \E i \in Items : RemoveStep(o, i)
  <2>1. PICK o \in Ops, i \in Items : RemoveStep(o, i)
    BY <1>9
  <2>2. Unlinked(tree[o][i]) \in Thing(Marks)
    <3>1. tree[o][i] \in Thing(Marks) /\ "none" \in Marks
      BY DEF Marks
    <3> QED BY <3>1, ThingsAreKept DEF Unlinked
  <2>3. tree' \in [Ops -> [Items -> Thing(Marks)]]
    BY <2>1, <2>2 DEF RemoveStep
  <2>4. doing' \in [task : {"remove"}, todo : SUBSET Ops]
    BY <2>1 DEF RemoveStep
  <2> QED BY <2>1, <2>3, <2>4 DEF RemoveStep
<1>10. CASE \E o \in Ops : RecoverBatch(o) \/ Begin(o)
  <2>1. PICK o \in Ops : RecoverBatch(o) \/ Begin(o)
    BY <1>10
  <2>2. log' \in [Ops -> {"none", "intent", "staged", "done"}] /\ adopted' \subseteq Ops
    BY <2>1 DEF RecoverBatch, Begin
  <2>3. doing' \in {Job("write", o), Job("publish", o), [task |-> "collect"]}
    BY <2>1 DEF RecoverBatch, Begin
  <2> QED BY <2>1, <2>2, <2>3 DEF RecoverBatch, Begin, Job
<1>11. CASE Stop
  <2>1. Exactly("none") \in Thing({"none", "torn", "whole"})
    BY DEF Exactly, Thing
  <2> QED BY <1>11, <2>1 DEF Stop, Idle
<1>12. CASE PowerLoss
  <2>1. Exactly("none") \in Thing({"none", "torn", "whole"}) /\ NoStage \in [Items -> Thing(Marks)]
    BY DEF Exactly, Thing, NoStage, Marks
  <2>2. tree' \in [Ops -> [Items -> Thing(Marks)]] /\ doing' \in {Idle, [task |-> "off", todo |-> Ops]}
    BY <1>12, <2>1 DEF PowerLoss
  <2>3. \A v \in ns.may : Exactly(v) \in Thing({"none", "there"}) /\ Exactly(v).now \in Exactly(v).may
    BY DEF Exactly, Thing
  <2>4. \A v \in note.may : Exactly(v) \in Thing(Ops \cup {"first", "torn"})
    BY DEF Exactly, Thing
  <2>5. \A v \in fence.may : Exactly(v) \in Thing(Int) /\ Exactly(v).now \in Exactly(v).may
    BY DEF Exactly, Thing
  <2>6. ns' \in Thing({"none", "there"}) /\ ns'.now \in ns'.may
    BY <1>12, <2>3 DEF PowerLoss
  <2>7. note' \in Thing(Ops \cup {"first", "torn"})
    BY <1>12, <2>4 DEF PowerLoss
  <2>8. fence' \in Thing(Int) /\ fence'.now \in fence'.may
    BY <1>12, <2>5 DEF PowerLoss
  <2>9. draft' = Exactly("none") /\ stops' \in Nat /\ UNCHANGED <<log, given, adopted, gutted>>
    BY <1>12 DEF PowerLoss
  <2> QED BY <2>1, <2>2, <2>6, <2>7, <2>8, <2>9 DEF Idle
<1>13. CASE \E o \in Ops : Settle(o)
  <2>1. PICK o \in Ops : Settle(o)
    BY <1>13
  <2>2. tree' \in [Ops -> [Items -> Thing(Marks)]]
    BY <2>1, SettledStage
  <2>3. doing' \in {Idle} \cup [task : {"off"}, todo : SUBSET Ops]
    BY <2>1 DEF Settle
  <2> QED BY <2>1, <2>2, <2>3 DEF Settle, Idle
<1> QED BY <1>u, <1>1, <1>2, <1>3, <1>4, <1>5, <1>6, <1>7, <1>8, <1>9, <1>10, <1>11, <1>12, <1>13
        DEF FileNext

LEMMA PublishInvNext ==
    ASSUME TypeOfFiles, PublishInv, \A o \in Ops : StageInv(o), [FileNext]_fileVars
    PROVE  PublishInv'
<1>u. CASE UNCHANGED fileVars
  BY <1>u DEF fileVars, PublishInv
<1>1. CASE PublishStep
  <2>1. /\ doing.op \in Ops /\ doing.at \in 1..19
        /\ tree'[doing.op] = [i \in Items |-> Standing(doing.op, doing.at + 1, i)]
    BY <1>1, PublishedStage
  <2>2. doing.task = "publish" /\ log' = log /\ doing' = [doing EXCEPT !.at = @ + 1]
    BY <1>1 DEF PublishStep
  <2>3. doing \in [task : {"publish"}, op : Ops, at : 1..20]
    BY <2>2 DEF TypeOfFiles
  <2>4. doing'.task = "publish" /\ doing'.op = doing.op /\ doing'.at = doing.at + 1
    BY <2>2, <2>3
  <2>5. ns \in Thing({"none", "there"}) /\ ns.now \in ns.may
    BY DEF TypeOfFiles
  <2>6. doing.at = 1 => ns'.now = "there"
    <3> HAVE doing.at = 1
    <3>1. ns' = IF ns.now = "none" THEN MadeDirectory(ns) ELSE ns
      BY <1>1, Calls DEF PublishStep, Do
    <3> QED BY <3>1, <2>5 DEF MadeDirectory, Changed, Thing
  <2>7. doing.at = 2 => ns'.may = {"there"}
    <3> HAVE doing.at = 2
    <3>1. ns' = EntryFlushed(ns)
      BY <1>1, Calls DEF PublishStep, Do
    <3>2. ns.now = "there"
      BY <2>2 DEF PublishInv
    <3> QED BY <3>1, <3>2, <2>5 DEF EntryFlushed, Thing
  <2>8. doing.at >= 3 => ns' = ns
    <3> HAVE doing.at >= 3
    <3>1. Publication[doing.at].call \notin {"namespace", "flushparent"}
      BY <2>1, Calls DEF Do
    <3> QED BY <1>1, <3>1 DEF PublishStep
  <2> QED BY <2>1, <2>2, <2>4, <2>6, <2>7, <2>8 DEF PublishInv
<1>2. CASE \E o \in Ops : Begin(o)
  <2>1. PICK o \in Ops : Begin(o)
    BY <1>2
  <2>2. tree[o] = NoStage
    BY <2>1 DEF Begin, StageInv
  <2>3. NoStage = [i \in Items |-> Standing(o, 1, i)]
    <3>1. NameAt(1) = Exactly("none") /\ DirAt(1, 4, 17) = Exactly("none") /\ DirAt(1, 5, 17) = Exactly("none")
      BY DEF NameAt, DirAt
    <3>2. FileAt(1, 14, 17) = Exactly("none") /\ FileAt(1, 6, 12) = Exactly("none")
          /\ FileAt(1, 9, 13) = Exactly("none")
      BY FileStands
    <3> QED BY <3>1, <3>2 DEF NoStage, Standing
  <2>4. log'[o] = "intent" /\ doing' = Job("publish", o) /\ tree' = tree /\ ns' = ns
    BY <2>1 DEF Begin, TypeOfFiles
  <2> QED BY <2>2, <2>3, <2>4 DEF PublishInv, Job
<1>3. CASE ~PublishStep /\ ~(\E o \in Ops : Begin(o)) /\ FileNext
  <2>1. doing'.task # "publish"
    <3>1. CASE MarkStaged \/ Finalize \/ Open \/ Admit \/ Collect \/ Stop
      BY <3>1 DEF MarkStaged, Finalize, Open, Admit, Collect, Stop, Job, Idle
    <3>2. CASE WriteStep
      BY <3>2 DEF WriteStep, TypeOfFiles
    <3>3. CASE FenceStep
      BY <3>3 DEF FenceStep, TypeOfFiles
    <3>4. CASE \E o \in Ops : \E i \in Items : RemoveStep(o, i)
      BY <3>4 DEF RemoveStep, TypeOfFiles
    <3>5. CASE \E o \in Ops : RecoverBatch(o)
      BY <3>5 DEF RecoverBatch, Job
    <3>6. CASE PowerLoss
      <4>1. doing' \in {Idle, [task |-> "off", todo |-> Ops]}
        BY <3>6 DEF PowerLoss
      <4> QED BY <4>1 DEF Idle
    <3>7. CASE \E o \in Ops : Settle(o)
      BY <3>7 DEF Settle, Idle, TypeOfFiles
    <3> QED BY <1>3, <3>1, <3>2, <3>3, <3>4, <3>5, <3>6, <3>7 DEF FileNext
  <2> QED BY <2>1 DEF PublishInv
<1> QED BY <1>u, <1>1, <1>2, <1>3

LEMMA RemoveInvNext ==
    ASSUME TypeOfFiles, RemoveInv, \A o \in Ops : StageInv(o), [FileNext]_fileVars
    PROVE  RemoveInv'
<1>u. CASE UNCHANGED fileVars
  BY <1>u DEF fileVars, RemoveInv
<1>1. CASE Collect
  <2>1. \A o \in Orphans : log[o] = "done"
    BY DEF Orphans, Children, Live, StageInv, TypeOfFiles, NoStage, Exactly, Items
  <2> QED BY <1>1, <2>1 DEF Collect, RemoveInv, Idle
<1>2. CASE \E o \in Ops : \E i \in Items : RemoveStep(o, i)
  <2>1. doing.task = "remove" /\ doing'.todo \subseteq doing.todo /\ log' = log
    BY <1>2 DEF RemoveStep, TypeOfFiles
  <2> QED BY <2>1 DEF RemoveInv
<1>3. CASE ~Collect /\ ~(\E o \in Ops : \E i \in Items : RemoveStep(o, i)) /\ FileNext
  <2>1. doing'.task # "remove"
    <3>1. CASE MarkStaged \/ Finalize \/ Open \/ Admit \/ Stop
      BY <3>1 DEF MarkStaged, Finalize, Open, Admit, Stop, Job, Idle
    <3>2. CASE WriteStep
      BY <3>2 DEF WriteStep, TypeOfFiles
    <3>3. CASE FenceStep
      BY <3>3 DEF FenceStep, TypeOfFiles
    <3>4. CASE PublishStep
      BY <3>4 DEF PublishStep, TypeOfFiles
    <3>5. CASE \E o \in Ops : RecoverBatch(o) \/ Begin(o)
      BY <3>5 DEF RecoverBatch, Begin, Job
    <3>6. CASE PowerLoss
      <4>1. doing' \in {Idle, [task |-> "off", todo |-> Ops]}
        BY <3>6 DEF PowerLoss
      <4> QED BY <4>1 DEF Idle
    <3>7. CASE \E o \in Ops : Settle(o)
      BY <3>7 DEF Settle, Idle, TypeOfFiles
    <3> QED BY <1>3, <3>1, <3>2, <3>3, <3>4, <3>5, <3>6, <3>7 DEF FileNext
  <2> QED BY <2>1 DEF RemoveInv
<1> QED BY <1>u, <1>1, <1>2, <1>3

LEMMA NoteInvNext ==
    ASSUME TypeOfFiles, NoteInv, [FileNext]_fileVars
    PROVE  NoteInv'
<1>u. CASE UNCHANGED fileVars
  BY <1>u DEF fileVars, NoteInv
<1>1. CASE WriteStep
  <2>1. doing \in [task : {"write"}, op : Ops, at : 1..5] /\ doing.at \in 1..4
    BY <1>1 DEF WriteStep, AtomicWrite, TypeOfFiles
  <2>2. doing'.at = doing.at + 1
    BY <1>1, <2>1 DEF WriteStep
  <2>3. doing.at = 3 => "torn" \notin draft'.may
    <3> HAVE doing.at = 3
    <3>1. draft' = FileFlushed(draft)
      BY <1>1 DEF WriteStep, AtomicWrite
    <3> QED BY <3>1 DEF FileFlushed, TypeOfFiles, Thing
  <2>4. "torn" \notin note'.may
    <3>1. CASE doing.at = 4
      <4>1. note' = Replaced(note, draft, doing.op) /\ "torn" \notin draft.may
        BY <1>1, <3>1 DEF WriteStep, AtomicWrite, NoteInv
      <4>2. doing.op # "torn"
        BY <2>1, OpsAssumption
      <4> QED BY <4>1, <4>2 DEF Replaced, NoteInv
    <3>2. CASE doing.at # 4
      <4>1. note' = note
        BY <1>1, <2>1, <3>2 DEF WriteStep, AtomicWrite
      <4> QED BY <4>1 DEF NoteInv
    <3> QED BY <3>1, <3>2
  <2> QED BY <2>1, <2>2, <2>3, <2>4 DEF NoteInv
<1>2. CASE PowerLoss
  <2>1. \E v \in note.may : note' = Exactly(v)
    BY <1>2 DEF PowerLoss
  <2>2. doing'.task # "write"
    <3>1. doing' \in {Idle, [task |-> "off", todo |-> Ops]}
      BY <1>2 DEF PowerLoss
    <3> QED BY <3>1 DEF Idle
  <2> QED BY <2>1, <2>2 DEF NoteInv, Exactly
<1>3. CASE ~WriteStep /\ ~PowerLoss /\ FileNext
  <2>1. note' = note
    BY <1>3 DEF FileNext, MarkStaged, Finalize, Open, Admit, Collect, Stop, FenceStep, PublishStep,
                RemoveStep, RecoverBatch, Begin, Settle
  <2>2. doing'.task = "write" => doing'.at # 4
    <3>1. CASE MarkStaged \/ Finalize \/ Open \/ Admit \/ Collect \/ Stop
      BY <3>1 DEF MarkStaged, Finalize, Open, Admit, Collect, Stop, Job, Idle
    <3>3. CASE FenceStep
      BY <3>3 DEF FenceStep, TypeOfFiles
    <3>4. CASE PublishStep
      BY <3>4 DEF PublishStep, TypeOfFiles
    <3>5. CASE \E o \in Ops : RecoverBatch(o) \/ Begin(o)
      BY <3>5 DEF RecoverBatch, Begin, Job
    <3>6. CASE \E o \in Ops : \E i \in Items : RemoveStep(o, i)
      BY <3>6 DEF RemoveStep, TypeOfFiles
    <3>7. CASE \E o \in Ops : Settle(o)
      BY <3>7 DEF Settle, Idle, TypeOfFiles
    <3> QED BY <1>3, <3>1, <3>3, <3>4, <3>5, <3>6, <3>7 DEF FileNext
  <2> QED BY <2>1, <2>2 DEF NoteInv
<1> QED BY <1>u, <1>1, <1>2, <1>3

LEMMA FenceInvNext ==
    ASSUME TypeOfFiles, FenceInv, [FileNext]_fileVars
    PROVE  FenceInv'
<1>t. fence.now \in fence.may /\ fence.may \subseteq Int /\ given \in Int
  BY DEF TypeOfFiles, Thing
<1>u. CASE UNCHANGED fileVars
  BY <1>u DEF fileVars, FenceInv
<1>1. CASE FenceStep
  <2>1. doing \in [task : {"fence"}, at : 1..5] /\ doing.at \in 1..4
    BY <1>1 DEF FenceStep, NextFence, TypeOfFiles
  <2>2. doing'.task = "fence" /\ doing'.at = doing.at + 1 /\ given' = given
    BY <1>1, <2>1 DEF FenceStep
  <2>3. doing.at = 2 => "torn" \notin draft'.may
    <3> HAVE doing.at = 2
    <3>1. draft' = FileFlushed(draft)
      BY <1>1 DEF FenceStep, NextFence
    <3> QED BY <3>1 DEF FileFlushed, TypeOfFiles, Thing
  <2>4. CASE doing.at = 3
    <3>1. fence' = FenceReplaced /\ "torn" \notin draft.may
      BY <1>1, <2>1, <2>4 DEF FenceStep, NextFence, FenceInv
    <3>2. \A f \in fence'.may : f >= given
      BY <3>1, <1>t DEF FenceReplaced, FenceInv
    <3> QED BY <2>2, <2>4, <3>2 DEF FenceInv
  <2>5. CASE doing.at = 4
    <3>1. fence' = Exactly(fence.now)
      BY <1>1, <2>1, <2>5 DEF FenceStep, NextFence, FenceFlushed
    <3> QED BY <2>2, <2>5, <3>1, <1>t DEF FenceInv, Exactly
  <2>6. CASE doing.at \in 1..2
    <3>1. fence' = fence
      BY <1>1, <2>1, <2>6 DEF FenceStep, NextFence
    <3> QED BY <2>2, <2>3, <2>6, <3>1 DEF FenceInv
  <2> QED BY <2>1, <2>4, <2>5, <2>6
<1>2. CASE Admit
  <2>1. fence' = fence /\ given' = fence.now /\ doing' = [task |-> "collect"]
    BY <1>2 DEF Admit
  <2>2. fence.may = {fence.now}
    BY <1>2 DEF Admit, NextFence, FenceInv
  <2> QED BY <2>1, <2>2, <1>t DEF FenceInv
<1>3. CASE PowerLoss
  <2>1. given' = given /\ \E v \in fence.may : fence' = Exactly(v)
    BY <1>3 DEF PowerLoss
  <2>2. doing'.task # "fence"
    <3>1. doing' \in {Idle, [task |-> "off", todo |-> Ops]}
      BY <1>3 DEF PowerLoss
    <3> QED BY <3>1 DEF Idle
  <2> QED BY <2>1, <2>2 DEF FenceInv, Exactly
<1>4. CASE ~FenceStep /\ ~Admit /\ ~PowerLoss /\ FileNext
  <2>1. fence' = fence /\ given' = given
    BY <1>4 DEF FileNext, MarkStaged, Finalize, Open, Collect, Stop, WriteStep, PublishStep,
                RemoveStep, RecoverBatch, Begin, Settle
  <2>2. doing'.task = "fence" => doing'.at \notin {3, 5}
    <3>1. CASE MarkStaged \/ Finalize \/ Open \/ Collect \/ Stop
      BY <3>1 DEF MarkStaged, Finalize, Open, Collect, Stop, Job, Idle
    <3>3. CASE WriteStep
      BY <3>3 DEF WriteStep, TypeOfFiles
    <3>4. CASE PublishStep
      BY <3>4 DEF PublishStep, TypeOfFiles
    <3>5. CASE \E o \in Ops : RecoverBatch(o) \/ Begin(o)
      BY <3>5 DEF RecoverBatch, Begin, Job
    <3>6. CASE \E o \in Ops : \E i \in Items : RemoveStep(o, i)
      BY <3>6 DEF RemoveStep, TypeOfFiles
    <3>7. CASE \E o \in Ops : Settle(o)
      BY <3>7 DEF Settle, Idle, TypeOfFiles
    <3> QED BY <1>4, <3>1, <3>3, <3>4, <3>5, <3>6, <3>7 DEF FileNext
  <2> QED BY <2>1, <2>2 DEF FenceInv
<1> QED BY <1>u, <1>1, <1>2, <1>3, <1>4

\* What a publication has made of its stage once the stage has its name.
LEMMA NamedIsDurable ==
    ASSUME NEW o \in Ops, NEW k \in 1..20, NEW s,
           s = [i \in Items |-> Standing(o, k, i)], "key" \in s["name"].may
    PROVE  /\ s["name"].now = "key"
           /\ \A i \in Expected(o) : s[i].may = {"whole"}
           /\ \A side \in Images[o] : s[side].may = {"there"}
<1>1. k \in 19..20
  <2>1. s["name"] = NameAt(k)
    BY ItemsAre DEF Standing
  <2>2. CASE k \in 4..18
    <3>1. NameAt(k) = [now |-> "temp", may |-> {"none", "temp"}]
      BY <2>2 DEF NameAt
    <3> QED BY <2>1, <3>1
  <2>3. CASE k <= 3
    <3>1. NameAt(k) = Exactly("none")
      BY <2>3 DEF NameAt
    <3> QED BY <2>1, <3>1 DEF Exactly
  <2> QED BY <2>2, <2>3
<1>2. s["name"].now = "key"
  <2>1. NameAt(k).now = "key"
    BY <1>1 DEF NameAt, Exactly
  <2> QED BY <2>1, ItemsAre DEF Standing
<1>3. \A c, p \in Nat : c + 2 < p /\ p <= 17 => FileAt(k, c, p).may = {"whole"}
  BY <1>1 DEF FileAt
<1>4. \A c, p \in Nat : c < p /\ p <= 17 => DirAt(k, c, p).may = {"there"}
  BY <1>1 DEF DirAt
<1>5. \A i \in Expected(o) : s[i].may = {"whole"}
  <2>1. FileAt(k, 14, 17).may = {"whole"}
    BY <1>3
  <2>2. FileAt(k, 6, 12).may = {"whole"}
    BY <1>3
  <2>3. FileAt(k, 9, 13).may = {"whole"}
    BY <1>3
  <2> QED BY <2>1, <2>2, <2>3, ExpectedAre, ItemsAre DEF Standing
<1>6. \A side \in Images[o] : s[side].may = {"there"}
  <2>1. DirAt(k, 4, 17).may = {"there"}
    BY <1>4
  <2>2. DirAt(k, 5, 17).may = {"there"}
    BY <1>4
  <2>3. Images[o] \subseteq {"before", "after"}
    BY ImagesAssumption DEF Sides
  <2> QED BY <2>1, <2>2, <2>3, ItemsAre DEF Standing
<1> QED BY <1>2, <1>5, <1>6

\* A stage that nobody touches is as sound as it was.
LEMMA StageUntouched ==
    ASSUME NEW o \in Ops, StageInv(o), tree'[o] = tree[o], log'[o] = log[o], ns'.may = ns.may,
           gutted' = gutted, adopted' = adopted
    PROVE  StageInv(o)'
BY DEF StageInv, Durable, Expected

\* Removal only touches what is done.
LEMMA StagesAfterRemoval ==
    ASSUME TypeOfFiles, RemoveInv, \A o \in Ops : StageInv(o),
           NEW o \in Ops, NEW i \in Items, RemoveStep(o, i), NEW q \in Ops
    PROVE  StageInv(q)'
<1>1. /\ log' = log /\ ns' = ns /\ adopted' = adopted
      /\ gutted' = IF Published(o) THEN gutted \cup {o} ELSE gutted
      /\ tree' = [tree EXCEPT ![o][i] = Unlinked(@)]
  BY DEF RemoveStep
<1>2. log[o] = "done"
  BY DEF RemoveStep, RemoveInv
<1>3. CASE q # o
  <2>1. tree'[q] = tree[q] /\ (q \in gutted' <=> q \in gutted)
    BY <1>1, <1>3 DEF TypeOfFiles
  <2> QED BY <1>1, <2>1 DEF StageInv, Durable, Expected
<1>4. CASE q = o
  <2>1. tree'[o]["name"] \in {tree[o]["name"], Unlinked(tree[o]["name"])}
    BY <1>1, ItemsAre DEF TypeOfFiles
  <2>2. tree'[o]["name"].now \in tree'[o]["name"].may
    BY <2>1 DEF Unlinked, Changed, StageInv
  <2>3. o \notin gutted' /\ "key" \in tree'[o]["name"].may => FALSE
    <3>1. SUFFICES ASSUME o \notin gutted', "key" \in tree'[o]["name"].may PROVE FALSE
      OBVIOUS
    <3>2. "key" \in tree[o]["name"].may
      BY <2>1, <3>1 DEF Unlinked, Changed
    <3>3. tree[o]["name"].now = "key"
      BY <1>1, <3>1, <3>2 DEF StageInv
    <3> QED BY <1>1, <3>1, <3>3 DEF Published
  <2> QED BY <1>1, <1>2, <1>4, <2>2, <2>3 DEF StageInv
<1> QED BY <1>3, <1>4

\* A power loss leaves a stage that has its name, with all that belongs to it.
LEMMA StagesAfterSettling ==
    ASSUME TypeOfFiles, \A o \in Ops : StageInv(o), NEW o \in Ops, Settle(o), NEW q \in Ops
    PROVE  StageInv(q)'
<1>1. log' = log /\ ns' = ns /\ adopted' = adopted /\ gutted' = gutted
  BY DEF Settle
<1>2. PICK p \in [Items -> Marks], l \in [Items -> Thing(Marks)] :
        /\ tree' = [tree EXCEPT ![o] = l]
        /\ \A i \in Items : p[i] \in tree[o][i].may
        /\ l = [i \in Items |->
                  IF \E j \in Items : i \in Below(j) /\ p[j] = "none" THEN Exactly("none")
                  ELSE Exactly(p[i])]
  BY SettledStage
<1>3. CASE q # o
  <2>1. tree'[q] = tree[q]
    BY <1>2, <1>3 DEF TypeOfFiles
  <2> QED BY <1>1, <2>1, StageUntouched
<1>4. CASE q = o
  <2>1. tree'[o] = l
    BY <1>2 DEF TypeOfFiles
  <2>2. Below("name") = Items \ {"name"} /\ Below("before") = {"beforeImage"}
        /\ Below("after") = {"afterImage"} /\ Below("manifest") = {}
        /\ Below("beforeImage") = {} /\ Below("afterImage") = {}
    BY DEF Below, Sides, Image
  <2>3. l["name"] = Exactly(p["name"]) /\ p["name"] \in tree[o]["name"].may
    <3>1. \A j \in Items : "name" \notin Below(j)
      BY <2>2, ItemsAre
    <3> QED BY <1>2, <3>1, ItemsAre
  <2>4. log[o] = "none" => l = NoStage
    <3> HAVE log[o] = "none"
    <3>1. \A i \in Items : p[i] = "none"
      BY <1>2 DEF StageInv, NoStage, Exactly
    <3> QED BY <1>2, <3>1 DEF NoStage
  <2>5. o \notin gutted /\ p["name"] = "key" => Durable(o)'
    <3> HAVE o \notin gutted /\ p["name"] = "key"
    <3>1. Durable(o)
      BY <2>3 DEF StageInv
    <3>2. \A i \in Expected(o) : i \in Items /\ p[i] = "whole"
      BY <1>2, <3>1, ItemsAre, ExpectedAre DEF Durable
    <3>3. \A side \in Images[o] : side \in {"before", "after"} /\ p[side] = "there"
      BY <1>2, <3>1, ItemsAre, ImagesAssumption DEF Durable, Sides
    <3>4. \A i \in Expected(o) : l[i] = Exactly("whole")
      <4>1. \A i \in Expected(o), j \in Items : i \in Below(j) => p[j] # "none"
        BY <2>2, <3>2, <3>3, ItemsAre, ExpectedAre
      <4> QED BY <1>2, <3>2, <4>1
    <3>5. \A side \in Images[o] : l[side] = Exactly("there")
      <4>1. \A side \in Images[o], j \in Items : side \in Below(j) => p[j] # "none"
        BY <2>2, <3>3, ItemsAre
      <4> QED BY <1>2, <3>3, <4>1, ItemsAre
    <3> QED BY <2>1, <3>4, <3>5 DEF Durable, Expected, Exactly
  <2> QED BY <1>1, <1>4, <2>1, <2>3, <2>4, <2>5 DEF StageInv, Exactly
<1> QED BY <1>3, <1>4

LEMMA StageInvNext ==
    ASSUME TypeOfFiles, PublishInv, RemoveInv, \A o \in Ops : StageInv(o), [FileNext]_fileVars,
           NEW q \in Ops
    PROVE  StageInv(q)'
<1>i. StageInv(q)
  OBVIOUS
<1>u. CASE UNCHANGED <<log, ns, tree, adopted, gutted>>
  BY <1>i, <1>u, StageUntouched
<1>1. CASE PublishStep
  <2>1. log' = log /\ adopted' = adopted /\ gutted' = gutted
    BY <1>1 DEF PublishStep
  <2>2. /\ doing.op \in Ops /\ doing.at \in 1..19
        /\ tree'[doing.op] = [i \in Items |-> Standing(doing.op, doing.at + 1, i)]
        /\ \A o \in Ops \ {doing.op} :
             tree'[o] = IF doing.at = 19 THEN NameFlushed(tree[o]) ELSE tree[o]
        /\ tree' \in [Ops -> [Items -> Thing(Marks)]]
    BY <1>1, PublishedStage
  <2>3. log[doing.op] = "intent"
    BY <1>1 DEF PublishInv, PublishStep
  <2>4. ns.may = {"there"} => ns'.may = {"there"}
    <3>1. ns' \in {ns, EntryFlushed(ns)} \/ (ns.now = "none" /\ ns' = MadeDirectory(ns))
      BY <1>1 DEF PublishStep
    <3>2. ns \in Thing({"none", "there"}) /\ ns.now \in ns.may
      BY DEF TypeOfFiles
    <3> QED BY <3>1, <3>2 DEF EntryFlushed, Exactly, Thing
  <2>5. CASE q = doing.op
    <3>1. q \notin gutted
      BY <1>i, <2>3, <2>5 DEF StageInv
    <3>3. PICK k \in 1..20 : k = doing.at + 1
      BY <2>2
    <3>4. "key" \in tree'[q]["name"].may => tree'[q]["name"].now = "key" /\ Durable(q)'
      <4>1. tree'[q] = [i \in Items |-> Standing(q, k, i)]
        BY <2>2, <2>5, <3>3
      <4> HAVE "key" \in tree'[q]["name"].may
      <4>2. /\ tree'[q]["name"].now = "key"
            /\ \A i \in Expected(q) : tree'[q][i].may = {"whole"}
            /\ \A side \in Images[q] : tree'[q][side].may = {"there"}
        BY <4>1, NamedIsDurable
      <4> QED BY <4>2 DEF Durable, Expected
    <3>5. tree'[q]["name"].now \in tree'[q]["name"].may
      <4>1. tree'[q]["name"] = NameAt(k)
        BY <2>2, <2>5, <3>3, ItemsAre DEF Standing
      <4>2. NameAt(k).now \in NameAt(k).may
        BY DEF NameAt, Exactly
      <4> QED BY <4>1, <4>2
    <3> QED BY <2>1, <2>3, <2>5, <3>1, <3>4, <3>5 DEF StageInv
  <2>6. CASE q # doing.op /\ doing.at # 19
    <3>1. tree'[q] = tree[q]
      BY <2>2, <2>6
    <3> QED BY <1>i, <2>1, <2>4, <3>1 DEF StageInv, Durable, Expected
  <2>7. CASE q # doing.op /\ doing.at = 19
    <3>1. tree'[q] = NameFlushed(tree[q])
      BY <2>2, <2>7
    <3>2. CASE tree[q]["name"].now = "none"
      <4>1. tree'[q] = NoStage /\ tree'[q]["name"] = Exactly("none")
        BY <3>1, <3>2, ItemsAre DEF NameFlushed, NoStage
      <4>2. log[q] = "staged" /\ q \notin adopted => FALSE
        BY <1>i, <3>2 DEF StageInv
      <4> QED BY <1>i, <2>1, <4>1, <4>2 DEF StageInv, Exactly
    <3>3. CASE tree[q]["name"].now # "none"
      <4>1. tree[q] \in [Items -> Thing(Marks)]
        BY DEF TypeOfFiles
      <4>2. /\ tree'[q]["name"] = Exactly(tree[q]["name"].now)
            /\ \A i \in Items \ {"name"} : tree'[q][i] = tree[q][i]
        BY <3>1, <3>3, <4>1, ItemsAre DEF NameFlushed
      <4>3. log[q] # "none"
        BY <1>i, <3>3, ItemsAre DEF StageInv, NoStage, Exactly
      <4>4. Durable(q) => Durable(q)'
        <5>1. Expected(q) \subseteq Items \ {"name"} /\ Images[q] \subseteq Items \ {"name"}
          BY ExpectedAre, ItemsAre, ImagesAssumption DEF Sides
        <5> QED BY <4>2, <5>1 DEF Durable, Expected
      <4> QED BY <1>i, <2>1, <2>4, <4>2, <4>3, <4>4 DEF StageInv, Exactly
    <3> QED BY <3>2, <3>3
  <2> QED BY <2>5, <2>6, <2>7
<1>2. CASE MarkStaged
  <2>1. doing \in [task : {"publish"}, op : Ops, at : 1..20] /\ doing.at = 20
    BY <1>2, Calls DEF MarkStaged, TypeOfFiles
  <2>2. log' = [log EXCEPT ![doing.op] = "staged"]
        /\ ns' = ns /\ tree' = tree /\ adopted' = adopted /\ gutted' = gutted
    BY <1>2 DEF MarkStaged
  <2>3. CASE q # doing.op
    <3>1. log'[q] = log[q]
      BY <2>2, <2>3 DEF TypeOfFiles
    <3> QED BY <1>i, <2>2, <3>1, StageUntouched
  <2>4. CASE q = doing.op
    <3>1. ns.may = {"there"} /\ log[q] = "intent"
      BY <1>2, <2>1, <2>4 DEF PublishInv, MarkStaged
    <3>2. tree[q] = [i \in Items |-> Standing(q, 20, i)]
      BY <1>2, <2>1, <2>4 DEF PublishInv, MarkStaged
    <3>3. tree[q]["name"].may = {"key"}
      BY <3>2, ItemsAre DEF Standing, NameAt, Exactly
    <3>4. log'[q] = "staged"
      BY <2>1, <2>2, <2>4 DEF TypeOfFiles
    <3> QED BY <1>i, <2>2, <3>1, <3>3, <3>4 DEF StageInv, Durable, Expected
  <2> QED BY <2>3, <2>4
<1>3. CASE WriteStep
  BY <1>3, <1>u DEF WriteStep
<1>4. CASE Finalize
  <2>1. doing.op \in Ops /\ log' = [log EXCEPT ![doing.op] = "done"]
        /\ ns' = ns /\ tree' = tree /\ adopted' = adopted /\ gutted' = gutted
    BY <1>4 DEF Finalize, TypeOfFiles
  <2>2. log'[q] = log[q] \/ log'[q] = "done"
    BY <2>1 DEF TypeOfFiles
  <2> QED BY <1>i, <2>1, <2>2 DEF StageInv, Durable, Expected
<1>5. CASE Open \/ FenceStep \/ Admit \/ Collect \/ Stop
  BY <1>5, <1>u DEF Open, FenceStep, Admit, Collect, Stop
<1>6. CASE \E o \in Ops : \E i \in Items : RemoveStep(o, i)
  BY <1>6, StagesAfterRemoval
<1>7. CASE \E o \in Ops : RecoverBatch(o)
  <2>1. PICK o \in Ops : RecoverBatch(o)
    BY <1>7
  <2>2. ns' = ns /\ tree' = tree /\ gutted' = gutted
    BY <2>1 DEF RecoverBatch
  <2>3. CASE q # o
    <3>1. log'[q] = log[q] /\ (q \in adopted' <=> q \in adopted)
      BY <2>1, <2>3 DEF RecoverBatch, TypeOfFiles
    <3> QED BY <1>i, <2>2, <3>1 DEF StageInv, Durable, Expected
  <2>4. CASE q = o
    <3>1. log[q] \in {"intent", "staged"}
      BY <2>1, <2>4 DEF RecoverBatch, Live
    <3>2. \/ log'[q] = "done"
          \/ log'[q] = "staged" /\ q \in adopted'
          \/ log'[q] = "staged" /\ log[q] = "staged" /\ adopted' = adopted
      BY <2>1, <2>4, <3>1 DEF RecoverBatch, TypeOfFiles
    <3> QED BY <1>i, <2>2, <3>1, <3>2 DEF StageInv, Durable, Expected
  <2> QED BY <2>3, <2>4
<1>8. CASE \E o \in Ops : Begin(o)
  <2>1. PICK o \in Ops : Begin(o)
    BY <1>8
  <2>2. ns' = ns /\ tree' = tree /\ gutted' = gutted /\ adopted' = adopted
    BY <2>1 DEF Begin
  <2>3. log'[q] = log[q] \/ (log[q] = "none" /\ log'[q] = "intent")
    BY <2>1 DEF Begin, TypeOfFiles
  <2> QED BY <1>i, <2>2, <2>3 DEF StageInv, Durable, Expected
<1>9. CASE PowerLoss
  <2>1. log' = log /\ adopted' = adopted /\ gutted' = gutted
    BY <1>9 DEF PowerLoss
  <2>2. PICK v \in ns.may : /\ ns' = Exactly(v)
                            /\ tree' = IF v = "none" THEN [o \in Ops |-> NoStage] ELSE tree
    BY <1>9 DEF PowerLoss
  <2>3. ns.may = {"there"} => ns'.may = {"there"} /\ v # "none"
    BY <2>2 DEF Exactly
  <2>4. CASE v # "none"
    BY <1>i, <2>1, <2>2, <2>3, <2>4 DEF StageInv, Durable, Expected
  <2>5. CASE v = "none"
    <3>1. tree'[q] = NoStage /\ tree'[q]["name"] = Exactly("none")
      BY <2>2, <2>5, ItemsAre DEF NoStage
    <3> QED BY <1>i, <2>1, <2>3, <2>5, <3>1 DEF StageInv, Exactly
  <2> QED BY <2>4, <2>5
<1>10. CASE \E o \in Ops : Settle(o)
  BY <1>10, StagesAfterSettling
<1>11. CASE UNCHANGED fileVars
  BY <1>11, <1>u DEF fileVars
<1> QED BY <1>1, <1>2, <1>3, <1>4, <1>5, <1>6, <1>7, <1>8, <1>9, <1>10, <1>11 DEF FileNext

LEMMA FileInvInit == FileInit => FileInv
<1> SUFFICES ASSUME FileInit PROVE FileInv
  OBVIOUS
<1> USE DEF FileInit
<1>1. TypeOfFiles
  <2>1. Exactly("none") \in Thing({"none", "there"}) /\ Exactly("none") \in Thing(Marks)
        /\ Exactly("none") \in Thing({"none", "torn", "whole"}) /\ Exactly(0) \in Thing(Int)
        /\ Exactly("first") \in Thing(Ops \cup {"first", "torn"})
    BY DEF Exactly, Thing, Marks
  <2>2. Exactly("none").now \in Exactly("none").may /\ Exactly(0).now \in Exactly(0).may
    BY DEF Exactly
  <2> QED BY <2>1, <2>2 DEF TypeOfFiles, NoStage, Idle
<1>2. PublishInv /\ RemoveInv /\ NoteInv /\ FenceInv
  BY DEF PublishInv, RemoveInv, NoteInv, FenceInv, Idle, Exactly
<1>3. \A o \in Ops : StageInv(o)
  BY ItemsAre DEF StageInv, NoStage, Exactly
<1> QED BY <1>1, <1>2, <1>3 DEF FileInv

LEMMA FileInvNext == FileInv /\ [FileNext]_fileVars => FileInv'
<1> SUFFICES ASSUME FileInv, [FileNext]_fileVars PROVE FileInv'
  OBVIOUS
<1>1. TypeOfFiles /\ PublishInv /\ RemoveInv /\ NoteInv /\ FenceInv /\ \A o \in Ops : StageInv(o)
  BY DEF FileInv
<1>2. \A o \in Ops : StageInv(o)'
  BY <1>1, StageInvNext
<1> QED
  BY <1>1, <1>2, TypeOfFilesNext, PublishInvNext, RemoveInvNext, NoteInvNext, FenceInvNext DEF FileInv

\* The files and what may be left of them keep their types, and each stage, note and
\* fence its part of the invariant.
THEOREM FileInvariance == FileSpec => []FileInv
  BY FileInvInit, FileInvNext, PTL DEF FileSpec

\* A batch that its request marked STAGED has its stage, a stage that has its name can be
\* verified, a note is never torn and no fence is handed out twice, whatever the machine
\* loses between any two system calls (StageStore._publish_sync, _collect_sync,
\* BoundDirectoryHandle._atomic_write_relative, next_fence).
THEOREM FilesSurvive == FileSpec => []PowerLossIsHarmless
<1>1. FileInv => PowerLossIsHarmless
  <2> SUFFICES ASSUME FileInv PROVE PowerLossIsHarmless
    OBVIOUS
  <2>1. OrphansAreSound
    BY DEF FileInv, StageInv, OrphansAreSound
  <2>2. StagesSurvive
    <3> SUFFICES ASSUME NEW o \in Ops, log[o] = "staged", o \notin adopted
                 PROVE  ns.may = {"there"} /\ tree[o]["name"].may = {"key"} /\ Durable(o)
      BY DEF StagesSurvive
    <3>1. StageInv(o)
      BY DEF FileInv
    <3> QED BY <3>1 DEF StageInv
  <2>3. NotesAreWhole /\ FencesStand
    BY DEF FileInv, NoteInv, FenceInv, NotesAreWhole, FencesStand
  <2> QED BY <2>1, <2>2, <2>3 DEF PowerLossIsHarmless
<1> QED BY <1>1, FileInvariance, PTL

=============================================================================
