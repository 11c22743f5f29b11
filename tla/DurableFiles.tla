---------------------------- MODULE DurableFiles ----------------------------
(***************************************************************************)
(* What a power loss leaves of the files a mutation relies on: the stage   *)
(* that is published before the journal says STAGED (mutation/staging.py   *)
(* over runtime/contained_io.py), a note that is written afterwards, and   *)
(* the fence of the lease (runtime/durability.py).                         *)
(*                                                                         *)
(* The journal is SQLite's and survives.  Of everything else the file      *)
(* system promises only what was flushed: the content of a file by its own *)
(* fsync, a name by that of its directory.                                 *)
(*                                                                         *)
(* One request is under way at a time, as under the exclusive lease; who   *)
(* sends an operation again is answered from the journal, so that a stage  *)
(* is published once.  SpaceMutation has what becomes of a batch whose     *)
(* stage is lost, and two requests at once.                                *)
(***************************************************************************)
EXTENDS Integers, Sequences, FiniteSets

CONSTANTS Ops,          \* operations
          Images,       \* operation -> the sides it has an image of
          MaxOpenings,  \* bound: acquisitions of the lease
          MaxStops      \* bound: exceptions and deaths, and power losses

Sides == {"before", "after"}

ASSUME ImagesAssumption == Images \in [Ops -> SUBSET Sides]

\* What a note holds after an operation is not taken for a torn file.
ASSUME OpsAssumption == "torn" \notin Ops

ASSUME BoundsAssumption == MaxOpenings \in Nat /\ MaxStops \in Nat

VARIABLES log,       \* the journal: operation -> its state
          ns,        \* the directory notes/.mutations
          tree,      \* operation -> the names and files of its stage
          note,      \* the Markdown file of a note
          draft,     \* the temporary file next to it
          fence,     \* the fence file of the Space
          given,     \* the last fence that was handed out
          doing,     \* what the request under way is about
          stops,
          adopted,   \* stages that recovery, not their request, marked STAGED
          gutted     \* published stages whose removal has begun

fileVars == <<log, ns, tree, note, draft, fence, given, doing, stops, adopted, gutted>>

----------------------------------------------------------------------------
(* A name or a file: what it is now, and what it may be after a power loss. *)

Exactly(v) == [now |-> v, may |-> {v}]
Changed(x, v) == [now |-> v, may |-> x.may \cup {v}]

\* mkdir, open with O_CREAT and O_EXCL, write, rename over nothing, unlink.
MadeDirectory(x) == Changed(x, "there")
Created(x) == Changed(x, "torn")
Written(x) == Changed(x, "whole")
Renamed(x) == Changed(x, "key")
Unlinked(x) == Changed(x, "none")

\* fsync of a file, and of the directory that has its name.
FileFlushed(x) == [x EXCEPT !.may = @ \ {"torn"}]
EntryFlushed(x) ==
    IF x.now = "none" THEN Exactly("none") ELSE [x EXCEPT !.may = @ \ {"none"}]

----------------------------------------------------------------------------
(* A stage: a directory under a temporary name or that of its operation,   *)
(* with a manifest and two directories, each with at most one image.       *)

Image(side) == IF side = "before" THEN "beforeImage" ELSE "afterImage"
Blobs == {Image(side) : side \in Sides}
Entries == Sides \cup {"manifest"}
Items == {"name"} \cup Entries \cup Blobs
Below(i) == CASE i = "name" -> Items \ {"name"} [] i \in Sides -> {Image(i)} [] OTHER -> {}

NoStage == [i \in Items |-> Exactly("none")]
Now(o) == [i \in Items |-> tree[o][i].now]

\* StageStore.verify: exactly the files that the manifest lists, each whole.
Expected(o) == {"manifest"} \cup {Image(side) : side \in Images[o]}
Files(stage) == {i \in Blobs \cup {"manifest"} : stage[i] # "none"}
Reads(stage, i) == stage[i] = "whole"
Verifies(o, stage) ==
    /\ stage["name"] = "key"
    /\ Files(stage) = Expected(o)
    /\ \A i \in Expected(o) : Reads(stage, i)

----------------------------------------------------------------------------
(* Publication, system call by system call.                                *)

Do(call, item) == [call |-> call, item |-> item]

ImageCalls(side) == <<Do("create", Image(side)), Do("write", Image(side)), Do("flush", Image(side))>>

\* Faulty variant: the manifest, whose directory is flushed, is not.
ManifestUnflushed ==
    <<Do("namespace", "name"), Do("flushparent", "name"), Do("mktemp", "name"),
      Do("mkdir", "before"), Do("mkdir", "after")>>
    \o ImageCalls("before") \o ImageCalls("after")
    \o <<Do("flushdir", "before"), Do("flushdir", "after"),
         Do("create", "manifest"), Do("write", "manifest"),
         Do("flushdir", "name"), Do("rename", "name"), Do("flushnames", "name")>>

Publication ==
    <<Do("namespace", "name"), Do("flushparent", "name"), Do("mktemp", "name"),
      Do("mkdir", "before"), Do("mkdir", "after")>>
    \o ImageCalls("before") \o ImageCalls("after")
    \o <<Do("flushdir", "before"), Do("flushdir", "after"),
         Do("create", "manifest"), Do("write", "manifest"), Do("flush", "manifest"),
         Do("flushdir", "name"), Do("rename", "name"), Do("flushnames", "name")>>

\* A side without an image has no file.
Skipped(o, d) == d.item \in Blobs \ Expected(o)

\* fsync of a directory of the stage: of the names in it.
DirectoryFlushed(stage, i) ==
    LET inside == IF i = "name" THEN Entries ELSE Below(i) IN
    [j \in Items |-> IF j \in inside THEN EntryFlushed(stage[j]) ELSE stage[j]]

\* fsync of .mutations: of the names of all stages.
NameFlushed(stage) ==
    IF stage["name"].now = "none" THEN NoStage
    ELSE [stage EXCEPT !["name"] = Exactly(@.now)]

Called(stage, call, i) ==
    CASE call = "mktemp" -> [stage EXCEPT ![i] = Changed(@, "temp")]
      [] call = "mkdir"  -> [stage EXCEPT ![i] = MadeDirectory(@)]
      [] call = "create" -> [stage EXCEPT ![i] = Created(@)]
      [] call = "write"  -> [stage EXCEPT ![i] = Written(@)]
      [] call = "flush"  -> [stage EXCEPT ![i] = FileFlushed(@)]
      [] call = "flushdir" -> DirectoryFlushed(stage, i)
      [] call = "rename" -> [stage EXCEPT ![i] = Renamed(@)]
      [] OTHER -> stage

Idle == [task |-> "idle"]
Job(task, o) == [task |-> task, op |-> o, at |-> 1]

PublishStep ==
    /\ doing.task = "publish" /\ doing.at <= Len(Publication)
    /\ LET o == doing.op  d == Publication[doing.at] IN
       /\ ns' = CASE d.call = "namespace" -> IF ns.now = "none" THEN MadeDirectory(ns) ELSE ns
                  [] d.call = "flushparent" -> EntryFlushed(ns)
                  [] OTHER -> ns
       /\ tree' = CASE Skipped(o, d) -> tree
                    [] d.call = "flushnames" -> [q \in Ops |-> NameFlushed(tree[q])]
                    [] OTHER -> [tree EXCEPT ![o] = Called(@, d.call, d.item)]
    /\ doing' = [doing EXCEPT !.at = @ + 1]
    /\ UNCHANGED <<log, note, draft, fence, given, stops, adopted, gutted>>

\* The stage is verified, and the journal says STAGED.
MarkStaged ==
    /\ doing.task = "publish" /\ doing.at = Len(Publication) + 1
    /\ Verifies(doing.op, Now(doing.op))
    /\ log' = [log EXCEPT ![doing.op] = "staged"]
    /\ doing' = Job("write", doing.op)
    /\ UNCHANGED <<ns, tree, note, draft, fence, given, stops, adopted, gutted>>

----------------------------------------------------------------------------
(* The note is written: a temporary file, flushed, that takes its place.   *)

\* Faulty variant: it takes its place before it is flushed.
ReplaceFirst == <<"create", "write", "replace", "flush">>

AtomicWrite == <<"create", "write", "flush", "replace">>

Replaced(old, new, o) ==
    [now |-> o, may |-> old.may \cup {o} \cup (new.may \cap {"torn"})]

WriteStep ==
    /\ doing.task = "write" /\ doing.at <= Len(AtomicWrite)
    /\ LET call == AtomicWrite[doing.at] IN
       /\ draft' = CASE call = "create" -> Created(Exactly("none"))
                     [] call = "write" -> Written(draft)
                     [] call = "flush" -> FileFlushed(draft)
                     [] call = "replace" -> draft
       /\ note' = IF call = "replace" THEN Replaced(note, draft, doing.op) ELSE note
    /\ doing' = [doing EXCEPT !.at = @ + 1]
    /\ UNCHANGED <<log, ns, tree, fence, given, stops, adopted, gutted>>

\* FINALIZED.  The stage stays until somebody opens the Space again.
Finalize ==
    /\ doing.task = "write" /\ doing.at = Len(AtomicWrite) + 1
    /\ log' = [log EXCEPT ![doing.op] = "done"]
    /\ draft' = Exactly("none")
    /\ doing' = Idle
    /\ UNCHANGED <<ns, tree, note, fence, given, stops, adopted, gutted>>

----------------------------------------------------------------------------
(* The Space is opened: a fence, then the recovery.                        *)

\* Faulty variant: the name of the new file is not flushed.
NameUnflushed == <<"write", "flush", "replace">>

NextFence == <<"write", "flush", "replace", "flushdir">>

\* -1 is a file that is no number.  The directory of the file is long there.
FenceReplaced ==
    [now |-> fence.now + 1,
     may |-> fence.may \cup {fence.now + 1} \cup {-1 : v \in draft.may \cap {"torn"}}]
FenceFlushed == Exactly(fence.now)

Open ==
    /\ doing = Idle /\ given < MaxOpenings
    /\ doing' = [task |-> "fence", at |-> 1]
    /\ UNCHANGED <<log, ns, tree, note, draft, fence, given, stops, adopted, gutted>>

FenceStep ==
    /\ doing.task = "fence" /\ doing.at <= Len(NextFence)
    /\ LET call == NextFence[doing.at] IN
       /\ draft' = CASE call = "write" -> Written(Created(Exactly("none")))
                     [] call = "flush" -> FileFlushed(draft)
                     [] OTHER -> draft
       /\ fence' = CASE call = "replace" -> FenceReplaced
                     [] call = "flushdir" -> FenceFlushed
                     [] OTHER -> fence
    /\ doing' = [doing EXCEPT !.at = @ + 1]
    /\ UNCHANGED <<log, ns, tree, note, given, stops, adopted, gutted>>

Admit ==
    /\ doing.task = "fence" /\ doing.at = Len(NextFence) + 1
    /\ given' = fence.now
    /\ draft' = Exactly("none")
    /\ doing' = [task |-> "collect"]
    /\ UNCHANGED <<log, ns, tree, note, fence, stops, adopted, gutted>>

\* Faulty variant: what is STAGED is taken for settled.
LiveIsIntent(o) == log[o] = "intent"

Live(o) == log[o] \in {"intent", "staged"}

Children == {o \in Ops : ns.now = "there" /\ tree[o]["name"].now # "none"}
Published(o) == tree[o]["name"].now = "key"

\* collect_orphans: whatever cannot be verified stops it before it removes
\* anything, and with it the opening.
Orphans == {o \in Children : ~Live(o)}
Legible(o) == Reads(Now(o), "manifest")
CollectionHolds ==
    /\ \A o \in Children : Published(o) => Legible(o)
    /\ \A o \in Orphans : Published(o) => Verifies(o, Now(o))

Collect ==
    /\ doing.task = "collect"
    /\ doing' = IF CollectionHolds THEN [task |-> "remove", todo |-> Orphans] ELSE Idle
    /\ UNCHANGED <<log, ns, tree, note, draft, fence, given, stops, adopted, gutted>>

\* _remove_relative_tree: files and directories as they are listed, each when
\* nothing is below it any more.
Removable(o, i) ==
    /\ tree[o][i].now # "none"
    /\ \A j \in Below(i) : tree[o][j].now = "none"

RemoveStep(o, i) ==
    /\ doing.task = "remove" /\ o \in doing.todo /\ Removable(o, i)
    /\ tree' = [tree EXCEPT ![o][i] = Unlinked(@)]
    /\ gutted' = IF Published(o) THEN gutted \cup {o} ELSE gutted
    /\ doing' = IF i = "name" THEN [doing EXCEPT !.todo = @ \ {o}] ELSE doing
    /\ UNCHANGED <<log, ns, note, draft, fence, given, stops, adopted>>

\* The recovery of a batch, once nothing is left to remove: it aborts one that
\* has no stage, marks one that has, and takes a STAGED one to its end.
RecoverBatch(o) ==
    /\ doing.task = "remove" /\ doing.todo = {} /\ Live(o)
    /\ IF Verifies(o, Now(o))
       THEN /\ log' = [log EXCEPT ![o] = "staged"]
            /\ adopted' = IF log[o] = "intent" THEN adopted \cup {o} ELSE adopted
            /\ doing' = Job("write", o)
       ELSE /\ log' = [log EXCEPT ![o] = "done"]
            /\ doing' = [task |-> "collect"]
            /\ UNCHANGED adopted
    /\ UNCHANGED <<ns, tree, note, draft, fence, given, stops, gutted>>

\* The request records its intent.
Begin(o) ==
    /\ doing.task = "remove" /\ doing.todo = {} /\ \A q \in Ops : ~Live(q)
    /\ log[o] = "none"
    /\ log' = [log EXCEPT ![o] = "intent"]
    /\ doing' = Job("publish", o)
    /\ UNCHANGED <<ns, tree, note, draft, fence, given, stops, adopted, gutted>>

----------------------------------------------------------------------------
(* What may go wrong.                                                      *)

\* An exception, or the end of the process: what is not flushed is still there.
Stop ==
    /\ doing.task \notin {"idle", "off"} /\ stops < MaxStops
    /\ stops' = stops + 1
    /\ doing' = Idle
    /\ draft' = Exactly("none")
    /\ UNCHANGED <<log, ns, tree, note, fence, given, adopted, gutted>>

\* Without its name, or that of the directory it is in, a file is gone.
Closed(stage) ==
    [i \in Items |->
        IF \E j \in Items : i \in Below(j) /\ stage[j] = "none" THEN Exactly("none")
        ELSE Exactly(stage[i])]

Left(stage) ==
    {Closed([name |-> n, manifest |-> m, before |-> b, after |-> a,
             beforeImage |-> x, afterImage |-> y]) :
       n \in stage.name.may, m \in stage.manifest.may, b \in stage.before.may,
       a \in stage.after.may, x \in stage.beforeImage.may, y \in stage.afterImage.may}

\* The machine stops ...
PowerLoss ==
    /\ stops < MaxStops
    /\ stops' = stops + 1
    /\ draft' = Exactly("none")
    /\ \E v \in ns.may :
         /\ ns' = Exactly(v)
         /\ doing' = IF v = "none" THEN Idle ELSE [task |-> "off", todo |-> Ops]
         /\ tree' = IF v = "none" THEN [o \in Ops |-> NoStage] ELSE tree
    /\ \E v \in note.may : note' = Exactly(v)
    /\ \E v \in fence.may : fence' = Exactly(v)
    /\ UNCHANGED <<log, given, adopted, gutted>>

\* ... and what is left of each stage turns out.
Settle(o) ==
    /\ doing.task = "off" /\ o \in doing.todo
    /\ tree' \in {[tree EXCEPT ![o] = l] : l \in Left(tree[o])}
    /\ doing' = IF doing.todo = {o} THEN Idle ELSE [doing EXCEPT !.todo = @ \ {o}]
    /\ UNCHANGED <<log, ns, note, draft, fence, given, stops, adopted, gutted>>

FileInit ==
    /\ log = [o \in Ops |-> "none"]
    /\ ns = Exactly("none")
    /\ tree = [o \in Ops |-> NoStage]
    /\ note = Exactly("first") /\ draft = Exactly("none")
    /\ fence = Exactly(0) /\ given = 0
    /\ doing = Idle /\ stops = 0
    /\ adopted = {} /\ gutted = {}

FileNext ==
    \/ Open \/ FenceStep \/ Admit \/ Collect
    \/ \E o \in Ops : \E i \in Items : RemoveStep(o, i)
    \/ \E o \in Ops : RecoverBatch(o) \/ Begin(o)
    \/ PublishStep \/ MarkStaged \/ WriteStep \/ Finalize
    \/ Stop \/ PowerLoss \/ (\E o \in Ops : Settle(o))

FileSpec == FileInit /\ [][FileNext]_fileVars

----------------------------------------------------------------------------
\* Every power loss leaves the files and directories of a stage as they should be.
Durable(o) ==
    /\ \A i \in Expected(o) : tree[o][i].may = {"whole"}
    /\ \A side \in Images[o] : tree[o][side].may = {"there"}

\* A batch that its own request marked STAGED has its images, whatever happens
\* before it is settled: a death, a collection, a power loss.
StagesSurvive ==
    \A o \in Ops : log[o] = "staged" /\ o \notin adopted =>
        ns.may = {"there"} /\ tree[o]["name"].may = {"key"} /\ Durable(o)

\* A stage that stands under the name of its operation, or may do so after a power
\* loss, can be verified, so that no opening fails over it: unless its removal
\* was cut short.
OrphansAreSound ==
    \A o \in Ops \ gutted : "key" \in tree[o]["name"].may => Durable(o)

\* A note is one of its bodies, and no fence is handed out again.
NotesAreWhole == "torn" \notin note.may
FencesStand == \A f \in fence.may : f >= given

\* All of it together: what the files of a mutation are worth without power.
PowerLossIsHarmless == StagesSurvive /\ OrphansAreSound /\ NotesAreWhole /\ FencesStand
=============================================================================
