------------------------ MODULE SpaceMutationProofs ------------------------
(***************************************************************************)
(* Proofs about SpaceMutation for every set of requests, entities and      *)
(* commands, under any lease modes and for any number of faults and lost   *)
(* images: its types, then that the ledger is atomic and the journal       *)
(* coherent, then that it implements AtomicBatch.                          *)
(***************************************************************************)
EXTENDS SpaceMutation, FiniteSetTheorems, TLAPS

----------------------------------------------------------------------------
(* Types, by the parts of the state that one action writes *)

JournalType ==
    /\ batch \in [Batches -> States]
    /\ op \in [Ops -> States]
    /\ plan \in [Ops -> Plans]
    /\ step \in [Ops -> Receipts]

StageType == stage \in [Ops -> {"none", "temp", "published"}] /\ lost \subseteq Ops \X Sides

StoreType ==
    /\ row \in [Entities -> Rows]
    /\ tomb \in [Entities -> Nat]
    /\ outbox \in [Ops -> Events]
    /\ fs \in [Targets -> Contents]

ControlType == pc \in [Procs -> Labels] /\ loc \in [Procs -> Locals]

RestType == degraded \in BOOLEAN /\ faults \in Nat

(* The parts are the type invariant. *)
LEMMA TypeParts ==
    /\ TypeOK <=> JournalType /\ StageType /\ StoreType /\ ControlType /\ RestType
    /\ JournalType' /\ StageType' /\ StoreType' /\ ControlType' /\ RestType' => TypeOK'
BY DEF TypeOK, JournalType, StageType, StoreType, ControlType, RestType

(* What the assumptions say of the identities of operations and batches. *)
LEMMA OpsFacts ==
    /\ IsFiniteSet(Ops)
    /\ Batches \subseteq Nat \ {0}
    /\ \A o \in Ops : o[1] \in Batches /\ o[2] \in Nat /\ o = <<o[1], o[2]>>
    /\ \A o \in Ops : /\ Ent(o) \in Entities
                      /\ Request[o].act \in Acts
                      /\ Request[o].title \in Titles
<1>1. \A o \in Ops : o \in (Nat \ {0}) \X Nat
  BY RequestAssumption
<1>2. \A o \in Ops : o[1] \in Nat \ {0} /\ o[2] \in Nat /\ o = <<o[1], o[2]>>
  BY <1>1
<1>3. \A o \in Ops : Request[o] \in [ent : Entities, act : Acts, title : Titles,
                                     blind : BOOLEAN]
  BY RequestAssumption
<1> QED
  BY <1>2, <1>3, RequestAssumption DEF Batches, Ent

(* The labels a request can stand at are typed by naming one of them. *)
LEMMA GotoType ==
    ASSUME NEW p \in Procs, NEW label \in Labels, ControlType, Goto(p, label)
    PROVE  pc' \in [Procs -> Labels]
BY DEF ControlType, Goto

(* A request jumps to typed local variables. *)
LEMMA JumpType ==
    ASSUME NEW p \in Procs, NEW label \in Labels, NEW l \in Locals, ControlType,
           Jump(p, label, l)
    PROVE  ControlType'
BY DEF ControlType, Jump, Goto

(* The empty local variables are typed. *)
LEMMA BlankType == Blank \in Locals /\ NoOverlay \in Overlays
<1>1. NoPlan \in Plans
  BY DEF NoPlan, Plans, NoRow, Rows, Bodies
<1>3. NoOverlay \in Overlays
  BY DEF NoOverlay, Overlays, NoRow, Rows, Bodies, NoContent, Contents
<1>2. \A o \in Ops : [k \in Ordinals |-> "PENDING"] \in Receipts
  BY DEF Receipts, StepStates
<1> QED
  BY <1>1, <1>2, <1>3 DEF Blank, Locals, States

(* A request that ends leaves its variables empty. *)
LEMMA ExitType ==
    ASSUME NEW p \in Procs, ControlType, Exit(p)
    PROVE  ControlType'
BY BlankType, JumpType DEF Exit, Labels

(* The queue of recovery holds batches, and what it has read is typed. *)
LEMMA NextBatchType ==
    ASSUME NEW p \in Procs, ControlType, NextBatch(p)
    PROVE  ControlType'
<1> DEFINE l == loc[p]
<1>1. l \in Locals
  BY DEF ControlType
<1>2. [Blank EXCEPT !.job = l.job, !.mode = l.mode] \in Locals
  BY <1>1, BlankType DEF Locals
<1>3. ASSUME NEW b \in l.queue
      PROVE  [Blank EXCEPT !.job = l.job, !.mode = l.mode, !.rb = b, !.st = l.snap[b],
                           !.snap = l.snap, !.queue = l.queue \ {b}] \in Locals
  BY <1>1, BlankType DEF Locals
<1>4. CASE l.queue = {}
  BY <1>2, <1>4, ExitType, JumpType DEF NextBatch, Labels
<1>5. CASE l.queue # {}
  BY <1>3, <1>5, JumpType DEF NextBatch, Labels
<1> QED
  BY <1>4, <1>5

(* Moving a batch through the journal keeps the journal typed. *)
LEMMA MoveAllType ==
    ASSUME NEW b, NEW s \in States, JournalType, MoveAll(b, s)
    PROVE  JournalType'
BY DEF JournalType, MoveAll

(* So does what recovery loads of a batch. *)
LEMMA LoadedType ==
    ASSUME NEW p \in Procs, JournalType, ControlType
    PROVE  Loaded(p) \in Locals
<1>1. loc[p] \in Locals
  BY DEF ControlType
<1>2. [o \in Ops |-> IF o \in Children(loc[p].rb) THEN op[o] ELSE "NONE"] \in [Ops -> States]
  BY DEF JournalType, States
<1>3. [o \in Ops |-> IF o \in Children(loc[p].rb) THEN step[o]
                     ELSE [k \in Ordinals |-> "PENDING"]] \in [Ops -> Receipts]
  BY DEF JournalType, Receipts, StepStates
<1>4. Children(loc[p].rb) \in SUBSET Ops
  BY DEF Children, OpsOf
<1> QED
  BY <1>1, <1>2, <1>3, <1>4 DEF Loaded, Locals

(* The local variables of a request, by field. *)
LEMMA LocalFacts ==
    ASSUME NEW p \in Procs, ControlType
    PROVE  /\ loc[p] \in Locals
           /\ loc[p].todo \in SUBSET Ops /\ loc[p].k \in Nat
           /\ loc[p].queue \in SUBSET Batches /\ loc[p].live \in SUBSET Ops
           /\ loc[p].job \in Batches \cup {0} /\ loc[p].rb \in Batches \cup {0}
           /\ loc[p].st \in States /\ loc[p].cmd \in [Ops -> Plans]
           /\ loc[p].ops \in [Ops -> States] /\ loc[p].steps \in [Ops -> Receipts]
           /\ loc[p].snap \in [Batches -> States]
           /\ loc[p].accepted \in SUBSET Ops /\ loc[p].over \in Overlays
BY DEF ControlType, Locals

(* A request that keeps its variables moves between labels only. *)
LEMMA StayType ==
    ASSUME NEW p \in Procs, NEW label \in Labels, ControlType,
           Goto(p, label), UNCHANGED loc
    PROVE  ControlType'
BY GotoType DEF ControlType

(* Visiting the next child keeps the variables typed. *)
LEMMA NextChildType ==
    ASSUME NEW p \in Procs, NEW o \in Ops, ControlType, NextChild(p, o)
    PROVE  loc' \in [Procs -> Locals]
<1>1. [loc[p] EXCEPT !.todo = @ \ {o}, !.k = 1] \in Locals
  BY LocalFacts DEF Locals
<1>2. loc' = [loc EXCEPT ![p] = [loc[p] EXCEPT !.todo = @ \ {o}, !.k = 1]]
  BY DEF NextChild, ControlType
<1> QED
  BY <1>1, <1>2 DEF ControlType

(* So does visiting the next step of a child. *)
LEMMA NextStepType ==
    ASSUME NEW p \in Procs, NEW k \in Nat, ControlType,
           loc' = [loc EXCEPT ![p].k = k + 1]
    PROVE  loc' \in [Procs -> Locals]
<1>1. [loc[p] EXCEPT !.k = k + 1] \in Locals
  BY LocalFacts DEF Locals
<1>2. loc' = [loc EXCEPT ![p] = [loc[p] EXCEPT !.k = k + 1]]
  BY DEF ControlType
<1> QED
  BY <1>1, <1>2 DEF ControlType

----------------------------------------------------------------------------
(* Images and steps *)

(* The derived stores hold contents wherever a target points. *)
LEMMA TargetFacts ==
    ASSUME NEW e \in Entities
    PROVE  /\ \A t \in Titles \cup {"none"} : <<e, t>> \in Targets
           /\ <<e, "index">> \in Targets /\ <<e, "fts">> \in Targets
BY DEF Targets

(* The images and ledger marks the actions write have their types. *)
LEMMA ContentFacts ==
    /\ NoContent \in Contents
    /\ \A t \in Titles, c \in Bodies : Image(t, c) \in Contents
    /\ \A v \in Contents : v.t \in Titles \cup {"none"} /\ v.c \in Bodies
    /\ EmptyBody \in Bodies
    /\ Ops \subseteq Bodies
BY DEF NoContent, Contents, Image, Bodies

(* One projection step of a note has the form of a persisted descriptor. *)
LEMMA StepFacts ==
    ASSUME NEW tag \in Tags, NEW source \in Targets, NEW target \in Targets,
           NEW before \in Contents, NEW after \in Contents
    PROVE  Step(tag, source, target, before, after) \in Steps
BY DEF Step, Steps

(* The steps compiled for a command are steps. *)
LEMMA StepsOfType ==
    ASSUME NEW f \in [Targets -> Contents], NEW e \in Entities, NEW act \in Acts,
           NEW title \in Titles, NEW body \in Bodies
    PROVE  StepsOf(f, e, act, title, body) \in Seq(Steps)
<1> DEFINE index == f[<<e, "index">>]
           old   == <<e, index.t>>
           new   == <<e, title>>
           after == IF act = "delete" THEN NoContent ELSE Image(title, body)
           write(before) == Step("markdown_write", new, new, before, after)
           rename == Step("path_rename", old, new, f[old], f[old])
           remove == Step("path_remove", old, old, f[old], NoContent)
           idx == Step("index_replace", <<e, "index">>, <<e, "index">>, index, after)
           fts == Step("fts_replace", <<e, "fts">>, <<e, "fts">>, f[<<e, "fts">>], after)
<1>1. index \in Contents /\ old \in Targets /\ new \in Targets /\ after \in Contents
  BY TargetFacts, ContentFacts
<1>2. /\ <<e, "index">> \in Targets /\ <<e, "fts">> \in Targets
      /\ f[old] \in Contents /\ f[<<e, "fts">>] \in Contents
      /\ NoContent \in Contents
  BY <1>1, TargetFacts, ContentFacts
<1>3. \A before \in Contents : write(before) \in Steps
  BY <1>1, StepFacts DEF Tags
<1>4. rename \in Steps /\ remove \in Steps /\ idx \in Steps /\ fts \in Steps
  BY <1>1, <1>2, StepFacts DEF Tags
<1>5. NoteSteps(f, e, act, title, body) =
        CASE act = "create"               -> << write(NoContent), idx, fts >>
          [] act = "update" /\ old = new -> << write(f[old]), idx, fts >>
          [] act = "update" /\ old # new -> << rename, write(f[old]), idx, fts >>
          [] OTHER                        -> << remove, idx, fts >>
  BY DEF NoteSteps
<1>6. NoteSteps(f, e, act, title, body) \in Seq(Steps)
  <2> HIDE DEF write, rename, remove, idx, fts, index, old, new, after
  <2>1. << write(NoContent), idx, fts >> \in Seq(Steps)
    BY <1>2, <1>3, <1>4
  <2>2. << write(f[old]), idx, fts >> \in Seq(Steps)
    BY <1>2, <1>3, <1>4
  <2>3. << rename, write(f[old]), idx, fts >> \in Seq(Steps)
    BY <1>2, <1>3, <1>4
  <2>4. << remove, idx, fts >> \in Seq(Steps)
    BY <1>4
  <2> QED
    BY <1>5, <2>1, <2>2, <2>3, <2>4 DEF Acts
<1>7. FolderSteps(f, e, act, title, body) = << idx >>
  BY DEF FolderSteps
<1>8. FolderSteps(f, e, act, title, body) \in Seq(Steps)
  BY <1>4, <1>7
<1> QED
  BY <1>6, <1>8 DEF StepsOf

(* Applying a step, or its inverse, leaves contents in every store. *)
LEMMA ApplyStepType ==
    ASSUME NEW f \in [Targets -> Contents], NEW d \in Steps, NEW side \in Sides
    PROVE  ApplyStep(f, d, side) \in [Targets -> Contents]
<1>1. /\ SideSource(d, side) \in Targets /\ SideTarget(d, side) \in Targets
      /\ SideImage(d, side) \in Contents /\ d.target \in Targets
  BY DEF Steps, SideSource, SideTarget, SideImage
<1>2. d.target[1] \in Entities
  BY <1>1 DEF Targets
<1>3. Rename(f, SideSource(d, side), SideTarget(d, side)) \in [Targets -> Contents]
  BY <1>1, ContentFacts DEF Rename
<1>4. ASSUME NEW e \in Entities, NEW v \in Contents
      PROVE  IndexReplace(f, e, v) \in [Targets -> Contents]
  <2>1. f[<<e, "fts">>] \in Contents
    BY TargetFacts
  <2>2. [f[<<e, "fts">>] EXCEPT !.t = v.t] \in Contents
    BY <2>1 DEF Contents
  <2>3. v # NoContent => Image(v.t, EmptyBody) \in Contents
    BY ContentFacts DEF Contents, Image
  <2>4. TriggeredFts(f, e, v) \in Contents
    BY <2>1, <2>2, <2>3, ContentFacts DEF TriggeredFts
  <2> QED
    BY <2>4, TargetFacts DEF IndexReplace
<1>5. [f EXCEPT ![d.target] = SideImage(d, side)] \in [Targets -> Contents]
  BY <1>1
<1> QED
  BY <1>1, <1>2, <1>3, <1>4, <1>5 DEF ApplyStep

(* A command compiled against an overlay is a plan. *)
LEMMA CompiledType ==
    ASSUME NEW over \in Overlays, NEW o \in Ops
    PROVE  Compiled(over, o) \in Plans
<1>1. Ent(o) \in Entities /\ Request[o].act \in Acts /\ Request[o].title \in Titles
  BY OpsFacts
<1>2. over.row \in [Entities -> Rows] /\ over.fs \in [Targets -> Contents]
  BY DEF Overlays
<1>3. StepsOf(over.fs, Ent(o), Request[o].act, Request[o].title, o) \in Seq(Steps)
  BY <1>1, <1>2, StepsOfType, ContentFacts
<1>4. over.row[Ent(o)] \in Rows /\ NoRow \in Rows /\ over.row[Ent(o)].ver \in Nat
  BY <1>1, <1>2 DEF Rows, NoRow, Bodies
<1>5. [ver |-> over.row[Ent(o)].ver + 1, by |-> o] \in Rows
  BY <1>4 DEF Rows, Bodies
<1> QED
  BY <1>3, <1>4, <1>5 DEF Compiled, Plans

(* The overlay with an accepted command is an overlay again. *)
LEMMA OverlaidType ==
    ASSUME NEW over \in Overlays, NEW o \in Ops
    PROVE  Overlaid(over, o) \in Overlays
<1> DEFINE c == Compiled(over, o)
<1>1. c \in Plans /\ Ent(o) \in Entities
  BY CompiledType, OpsFacts
<1>2. /\ over.row \in [Entities -> Rows] /\ over.dead \in SUBSET Entities
      /\ over.fs \in [Targets -> Contents]
  BY DEF Overlays
<1>3. c.after \in Rows /\ c.steps \in Seq(Steps)
  BY <1>1 DEF Plans
<1>4. \A k \in DOMAIN c.steps : c.steps[k].after \in Contents
  <2>1. \A k \in DOMAIN c.steps : c.steps[k] \in Steps
    BY <1>3
  <2> QED
    BY <2>1 DEF Steps
<1> HIDE DEF c
<1>5. Planned(over.fs, c.steps) \in [Targets -> Contents]
  BY <1>2, <1>4, ContentFacts DEF Planned
<1> QED
  BY <1>1, <1>2, <1>3, <1>5 DEF Overlaid, Overlays, c

----------------------------------------------------------------------------
(* Type correctness, action by action *)

(* What an action leaves alone keeps its type. *)
LEMMA FrameTypes ==
    /\ JournalType /\ UNCHANGED journal => JournalType'
    /\ StageType /\ UNCHANGED stages => StageType'
    /\ StoreType /\ UNCHANGED stores => StoreType'
    /\ ControlType /\ UNCHANGED control => ControlType'
    /\ RestType /\ UNCHANGED <<degraded, faults>> => RestType'
BY DEF JournalType, StageType, StoreType, ControlType, RestType,
       journal, stages, stores, control

(* Requests begin, and recovery reads, without writing a store. *)
LEMMA ReadingTypes ==
    ASSUME TypeOK, NEW p \in Procs,
           \/ \E b \in Batches \cup {0}, m \in {"SHARED", "EXCLUSIVE"} : Begin(p, b, m)
           \/ Load(p) \/ Rescan(p) \/ Reload(p) \/ AssertLedger(p) \/ StartForward(p)
           \/ EndForward(p) \/ LoadInverse(p) \/ EndUndo(p)
           \/ Compile(p) \/ SnapshotStores(p) \/ EndCompile(p)
           \/ \E o \in Ops : VerifyChild(p, o) \/ EndChild(p, o) \/ CompileCommand(p, o)
    PROVE  TypeOK'
<1>1. JournalType /\ StageType /\ StoreType /\ ControlType /\ RestType
  BY TypeParts
<1>2. Loaded(p) \in Locals
  BY <1>1, LoadedType
<1>3. loc[p] \in Locals
  BY <1>1, LocalFacts
<1>4. SUFFICES ControlType' /\ UNCHANGED <<journal, stages, stores, degraded, faults>>
  BY <1>1, FrameTypes, TypeParts
<1>5. CASE \E b \in Batches \cup {0}, m \in {"SHARED", "EXCLUSIVE"} : Begin(p, b, m)
  <2>1. PICK b \in Batches \cup {0}, m \in {"SHARED", "EXCLUSIVE"} : Begin(p, b, m)
    BY <1>5
  <2>2. [Blank EXCEPT !.job = b, !.mode = m] \in Locals
    BY BlankType DEF Locals
  <2> QED
    BY <1>1, <2>1, <2>2, JumpType DEF Begin, Labels
<1>6. CASE Load(p)
  BY <1>1, <1>2, <1>6, JumpType DEF Load, Labels, Forward, Backward
<1>7. CASE Rescan(p)
  <2>1. [loc[p] EXCEPT !.live = LiveOps] \in Locals
    BY <1>3 DEF Locals, LiveOps
  <2> QED
    BY <1>1, <1>7, <2>1, JumpType DEF Rescan, Labels
<1>8. CASE Reload(p)
  BY <1>1, <1>2, <1>8, JumpType DEF Reload, Labels
<1>9. CASE AssertLedger(p)
  BY <1>1, <1>9, StayType DEF AssertLedger, Labels
<1>10. CASE StartForward(p)
  <2>1. [Loaded(p) EXCEPT !.st = IF @ = "FORWARD_APPLIED" THEN @ ELSE "FINALIZING"] \in Locals
    BY <1>2 DEF Locals, States
  <2> QED
    BY <1>1, <1>10, <2>1, JumpType DEF StartForward, Labels, Forward
<1>11. CASE EndForward(p)
  <2>1. [loc[p] EXCEPT !.st = "FORWARD_APPLIED"] \in Locals
    BY <1>3 DEF Locals, States
  <2> QED
    BY <1>1, <1>11, <2>1, JumpType, StayType DEF EndForward, Labels, Forward
<1>12. CASE LoadInverse(p)
  BY <1>1, <1>2, <1>12, JumpType DEF LoadInverse, Labels, Backward
<1>13. CASE EndUndo(p)
  <2>1. \/ loc' \in [Procs -> Locals] /\ pc' = pc
        \/ Goto(p, "cdb") /\ loc' = loc
    BY <1>1, <1>3, <1>13, NextChildType DEF EndUndo, Locals
  <2> QED
    BY <1>1, <1>13, <2>1, StayType DEF EndUndo, ControlType, Labels, Backward
<1>14. CASE Compile(p)
  <2>1. Authority \in Overlays
    BY <1>1, BlankType DEF Authority, Overlays, StoreType
  <2>2. [loc[p] EXCEPT !.over = Authority] \in Locals
    BY <1>3, <2>1 DEF Locals
  <2> QED
    BY <1>1, <1>14, <2>2, JumpType, ExitType DEF Compile, Labels
<1>19. CASE SnapshotStores(p)
  <2>1. [loc[p].over EXCEPT !.fs = fs] \in Overlays /\ OpsOf(loc[p].job) \in SUBSET Ops
    BY <1>1, LocalFacts DEF Overlays, StoreType, OpsOf
  <2>2. [loc[p] EXCEPT !.over.fs = fs, !.accepted = {}, !.todo = OpsOf(loc[p].job)] \in Locals
    BY <1>3, <2>1 DEF Locals
  <2> QED
    BY <1>1, <1>19, <2>2, JumpType DEF SnapshotStores, Labels
<1>17. CASE EndCompile(p)
  <2>1. [loc[p] EXCEPT !.todo = loc[p].accepted, !.accepted = {}, !.over = NoOverlay]
        \in Locals
    BY <1>3, BlankType DEF Locals
  <2> QED
    BY <1>1, <1>17, <2>1, JumpType DEF EndCompile, Labels
<1>18. CASE \E o \in Ops : CompileCommand(p, o)
  <2>1. PICK o \in Ops : CompileCommand(p, o)
    BY <1>18
  <2> DEFINE over == loc[p].over
             rest == [loc[p] EXCEPT !.todo = @ \ {o}]
             done == [rest EXCEPT !.accepted = @ \cup {o}, !.cmd[o] = Compiled(over, o),
                                  !.over = Overlaid(over, o)]
  <2>2. over \in Overlays
    BY <1>1, LocalFacts
  <2>3. Compiled(over, o) \in Plans /\ Overlaid(over, o) \in Overlays
    BY <2>2, CompiledType, OverlaidType
  <2>4. rest \in Locals
    BY <1>3 DEF Locals
  <2>5. done \in Locals
    BY <2>3, <2>4 DEF Locals
  <2>6. Jump(p, "command", done) \/ Jump(p, "command", rest)
    BY <2>1 DEF CompileCommand
  <2> HIDE DEF done, rest
  <2> QED
    BY <1>1, <2>1, <2>4, <2>5, <2>6, JumpType DEF CompileCommand, Labels
<1>15. CASE \E o \in Ops : VerifyChild(p, o)
  BY <1>1, <1>15, NextChildType, StayType DEF VerifyChild, ControlType, Labels
<1>16. CASE \E o \in Ops : EndChild(p, o)
  BY <1>1, <1>16, StayType DEF EndChild, Labels, Forward
<1> QED
  BY <1>5, <1>6, <1>7, <1>8, <1>9, <1>10, <1>11, <1>12, <1>13, <1>14, <1>15, <1>16,
     <1>17, <1>18, <1>19

(* A forward or an inverse run that fails leaves typed variables. *)
LEMMA FailureTypes ==
    ASSUME NEW p \in Procs, ControlType, ForwardFails(p) \/ InverseFails(p)
    PROVE  ControlType'
BY StayType, ExitType DEF ForwardFails, InverseFails, Labels, Backward

(* The journal is written in whole states and single step receipts. *)
LEMMA JournalTypes ==
    ASSUME TypeOK, NEW p \in Procs,
           \/ AbortBatch(p) \/ StartInverse(p) \/ EndInverse(p) \/ FailManual(p)
           \/ RecordRejected(p) \/ CreateIntent(p) \/ MarkStaged(p) \/ MarkFinalizing(p)
           \/ \E o \in Ops : ForwardApplied(p, o)
           \/ \E o \in Ops, k \in 1..5 :
                MarkStep(p, o, k) \/ MarkUndone(p, o, k) \/ MarkApplied(p, o, k)
    PROVE  TypeOK'
<1>1. JournalType /\ StageType /\ StoreType /\ ControlType /\ RestType
  BY TypeParts
<1>2. loc[p] \in Locals
  BY <1>1, LocalFacts
<1>3. \A b : \A s \in States : MoveAll(b, s) => JournalType'
  BY <1>1, MoveAllType
<1>4. SUFFICES JournalType' /\ ControlType' /\ RestType' /\ UNCHANGED <<stages, stores>>
  BY <1>1, FrameTypes, TypeParts
<1>5. ASSUME NEW o \in Ops, NEW k, NEW s \in StepStates,
             step' = [step EXCEPT ![o][k] = s], UNCHANGED <<batch, op, plan>>
      PROVE  JournalType'
  <2>1. [step[o] EXCEPT ![k] = s] \in Receipts
    BY <1>1 DEF JournalType, Receipts
  <2> QED
    BY <1>1, <1>5, <2>1 DEF JournalType
<1>6. CASE AbortBatch(p)
  BY <1>1, <1>3, <1>6, StayType, ExitType, FrameTypes DEF AbortBatch, States, Labels
<1>7. CASE StartInverse(p)
  BY <1>1, <1>3, <1>7, StayType, FailureTypes, FrameTypes
     DEF StartInverse, States, Labels, Backward
<1>8. CASE EndInverse(p)
  BY <1>1, <1>3, <1>8, StayType, FailureTypes, FrameTypes
     DEF EndInverse, States, Labels, Backward
<1>9. CASE FailManual(p)
  BY <1>1, <1>3, <1>9, ExitType, FrameTypes DEF FailManual, Degrade, States, RestType
<1>10. CASE RecordRejected(p)
  BY <1>1, <1>10, ExitType, FrameTypes DEF RecordRejected, JournalType, States
<1>11. CASE CreateIntent(p)
  <2>1. loc[p].todo \in SUBSET Ops /\ loc[p].cmd \in [Ops -> Plans]
    BY <1>2 DEF Locals
  <2>2. [loc[p] EXCEPT !.cmd = Blank.cmd] \in Locals
    BY <1>2, BlankType DEF Locals
  <2>3. JournalType'
    BY <1>1, <1>11, <2>1, FrameTypes DEF CreateIntent, JournalType, States
  <2> QED
    BY <1>1, <1>11, <2>2, <2>3, JumpType, ExitType, FrameTypes DEF CreateIntent, Labels
<1>12. CASE MarkStaged(p)
  BY <1>1, <1>3, <1>12, StayType, ExitType, FrameTypes DEF MarkStaged, States, Labels
<1>13. CASE MarkFinalizing(p)
  <2>1. [loc[p] EXCEPT !.todo = Children(loc[p].job), !.k = 1] \in Locals
    BY <1>2 DEF Locals, Children, OpsOf
  <2> QED
    BY <1>1, <1>3, <1>13, <2>1, StayType, JumpType, ExitType, FrameTypes
       DEF MarkFinalizing, States, Labels, Forward
<1>14. CASE \E o \in Ops : ForwardApplied(p, o)
  <2>1. PICK o \in Ops : ForwardApplied(p, o)
    BY <1>14
  <2>2. JournalType'
    BY <1>1, <2>1, FrameTypes DEF ForwardApplied, JournalType, States
  <2>3. ControlType'
    BY <1>1, <2>1, NextChildType, GotoType, FailureTypes
       DEF ForwardApplied, ControlType, Labels, Forward
  <2> QED
    BY <1>1, <2>1, <2>2, <2>3, FrameTypes DEF ForwardApplied
<1>15. CASE \E o \in Ops, k \in 1..5 :
              MarkStep(p, o, k) \/ MarkUndone(p, o, k) \/ MarkApplied(p, o, k)
  <2>1. PICK o \in Ops, k \in 1..5 :
               MarkStep(p, o, k) \/ MarkUndone(p, o, k) \/ MarkApplied(p, o, k)
    BY <1>15
  <2>2. [loc[p] EXCEPT !.k = k + 1] \in Locals /\ [loc[p] EXCEPT !.k = @ + 1] \in Locals
    BY <1>2 DEF Locals
  <2>3. CASE MarkStep(p, o, k)
    <3>1. JournalType'
      BY <1>5, <2>3 DEF MarkStep, StepStates
    <3> QED
      BY <1>1, <2>2, <2>3, <3>1, JumpType, FrameTypes DEF MarkStep, Labels, Forward
  <2>4. CASE MarkUndone(p, o, k)
    <3>1. JournalType'
      BY <1>5, <2>4 DEF MarkUndone, StepStates
    <3> QED
      BY <1>1, <2>2, <2>4, <3>1, JumpType, FrameTypes DEF MarkUndone, Labels, Backward
  <2>5. CASE MarkApplied(p, o, k)
    <3>1. JournalType'
      BY <1>1, <1>5, <2>5, FrameTypes DEF MarkApplied, StepStates, journal
    <3> QED
      BY <1>1, <2>2, <2>5, <3>1, JumpType, ExitType, FrameTypes DEF MarkApplied, Labels
  <2> QED
    BY <2>1, <2>3, <2>4, <2>5
<1> QED
  BY <1>6, <1>7, <1>8, <1>9, <1>10, <1>11, <1>12, <1>13, <1>14, <1>15

(* Stages come and go; bit rot only marks them. *)
LEMMA StageTypes ==
    ASSUME TypeOK,
           \/ \E p \in Procs : \/ CollectOrphans(p) \/ CollectUndone(p)
                               \/ \E o \in Ops : WriteStage(p, o) \/ PublishStage(p, o)
           \/ \E o \in Ops, side \in Sides : LoseImage(o, side)
    PROVE  TypeOK'
<1>1. JournalType /\ StageType /\ StoreType /\ ControlType /\ RestType
  BY TypeParts
<1>2. ASSUME NEW p \in Procs, NEW o \in Ops
      PROVE  [loc[p] EXCEPT !.todo = @ \ {o}] \in Locals
  BY <1>1, LocalFacts DEF Locals
<1>3. SUFFICES StageType' /\ ControlType' /\ UNCHANGED <<journal, stores, degraded, faults>>
  BY <1>1, FrameTypes, TypeParts
<1>4. ASSUME NEW p \in Procs, CollectOrphans(p)
      PROVE  StageType' /\ ControlType' /\ UNCHANGED <<journal, stores, degraded, faults>>
  BY <1>1, <1>4, ExitType, NextBatchType DEF CollectOrphans, StageType
<1>5. ASSUME NEW p \in Procs, CollectUndone(p)
      PROVE  StageType' /\ ControlType' /\ UNCHANGED <<journal, stores, degraded, faults>>
  BY <1>1, <1>5, NextBatchType DEF CollectUndone, StageType
<1>6. ASSUME NEW p \in Procs, NEW o \in Ops, WriteStage(p, o)
      PROVE  StageType' /\ ControlType' /\ UNCHANGED <<journal, stores, degraded, faults>>
  BY <1>1, <1>6, StayType DEF WriteStage, StageType, Labels
<1>7. ASSUME NEW p \in Procs, NEW o \in Ops, PublishStage(p, o)
      PROVE  StageType' /\ ControlType' /\ UNCHANGED <<journal, stores, degraded, faults>>
  BY <1>1, <1>2, <1>7, JumpType, ExitType DEF PublishStage, StageType, Labels
<1>8. ASSUME NEW o \in Ops, NEW side \in Sides, LoseImage(o, side)
      PROVE  StageType' /\ ControlType' /\ UNCHANGED <<journal, stores, degraded, faults>>
  BY <1>1, <1>8, FrameTypes DEF LoseImage, StageType, control
<1> QED
  BY <1>4, <1>5, <1>6, <1>7, <1>8

(* A request may end, by itself or by a crash, wherever it stands. *)
LEMMA EndingTypes ==
    ASSUME TypeOK, Crash \/ \E p \in Procs : Scan(p) \/ Fault(p)
    PROVE  TypeOK'
<1>1. JournalType /\ StageType /\ StoreType /\ ControlType /\ RestType
  BY TypeParts
<1>2. SUFFICES ControlType' /\ RestType' /\ UNCHANGED <<journal, stages, stores>>
  BY <1>1, FrameTypes, TypeParts
<1>3. CASE Crash
  <2>1. ControlType'
    BY <1>3, BlankType DEF Crash, ControlType, Labels
  <2>2. degraded' \in BOOLEAN
    BY <1>3, Zenon DEF Crash
  <2>3. faults' \in Nat
    BY <1>1, <1>3 DEF Crash, RestType
  <2> QED
    BY <1>3, <2>1, <2>2, <2>3, Zenon DEF Crash, RestType
<1>4. ASSUME NEW p \in Procs, Scan(p)
      PROVE  ControlType' /\ RestType' /\ UNCHANGED <<journal, stages, stores>>
  <2> DEFINE queue == {b \in Batches : batch[b] \notin Terminal \cup {"NONE"}}
             l == [loc[p] EXCEPT !.live = LiveOps, !.snap = batch, !.queue = queue]
  <2>1. /\ batch \in [Batches -> States]
        /\ LiveOps \in SUBSET Ops /\ queue \in SUBSET Batches
    BY <1>1 DEF JournalType, LiveOps
  <2>2. loc[p] \in Locals
    BY <1>1, LocalFacts
  <2>3. l \in Locals
    <3> HIDE DEF queue
    <3> QED
      BY <2>1, <2>2 DEF Locals
  <2>4. CASE Exit(p) /\ Degrade(p)
    BY <1>1, <1>4, <2>4, ExitType DEF Scan, Degrade, RestType
  <2>5. CASE Jump(p, "orphans", l) /\ UNCHANGED degraded
    BY <1>1, <1>4, <2>3, <2>5, JumpType DEF Scan, RestType, Labels
  <2> QED
    BY <1>4, <2>4, <2>5 DEF Scan
<1>5. ASSUME NEW p \in Procs, Fault(p)
      PROVE  ControlType' /\ RestType' /\ UNCHANGED <<journal, stages, stores>>
  BY <1>1, <1>5, ExitType, FailureTypes DEF Fault, RestType
<1> QED
  BY <1>3, <1>4, <1>5

(* The largest sequence number of the ledger is a number. *)
LEMMA LastSeqType ==
    ASSUME StoreType
    PROVE  LastSeq \in Nat
<1>1. \A x \in Ops : outbox[x].seq \in Nat
  BY DEF StoreType, Events
<1>2. CASE \E y \in Ops : \A x \in Ops : outbox[x].seq <= outbox[y].seq
  <2>1. (CHOOSE y \in Ops : \A x \in Ops : outbox[x].seq <= outbox[y].seq) \in Ops
    BY <1>2
  <2> QED
    BY <1>1, <1>2, <2>1 DEF LastSeq
<1>3. CASE ~ \E y \in Ops : \A x \in Ops : outbox[x].seq <= outbox[y].seq
  BY <1>3 DEF LastSeq
<1> QED
  BY <1>2, <1>3

(* The next one is, too: the children of a batch can be counted. *)
LEMMA SeqType ==
    ASSUME StoreType, NEW b \in Batches \cup {0}, NEW o \in Ops
    PROVE  NextSeq(b, o) \in Nat
<1>1. LastSeq \in Nat
  BY LastSeqType
<1>2. Cardinality({x \in Children(b) : x[2] <= o[2]}) \in Nat
  <2>1. {x \in Children(b) : x[2] <= o[2]} \subseteq Ops
    BY DEF Children, OpsOf
  <2>2. IsFiniteSet({x \in Children(b) : x[2] <= o[2]})
    BY <2>1, OpsFacts, FS_Subset
  <2> QED
    BY <2>2, FS_CardinalityType
<1> QED
  BY <1>1, <1>2 DEF NextSeq

(* What commands leave of a row is a row. *)
LEMMA RowAfterType ==
    ASSUME JournalType, StoreType, NEW S \in SUBSET Ops, NEW e \in Entities
    PROVE  RowAfter(S, e) \in Rows
<1>1. \A o \in Ops : plan[o].after \in Rows
  BY DEF JournalType, Plans
<1> DEFINE last == {o \in About(S, e) : IsLast(o, About(S, e))}
<1>2. last \subseteq Ops
  BY DEF About
<1>3. RowAfter(S, e) = IF last = {} THEN row[e] ELSE plan[CHOOSE o \in last : TRUE].after
  BY DEF RowAfter
<1> HIDE DEF last
<1> QED
  BY <1>1, <1>2, <1>3 DEF StoreType

(* Committing, replaying and undoing a batch write typed rows.             *)
LEMMA RowsType ==
    ASSUME JournalType, StoreType, NEW b, ApplyRows(b) \/ RestoreRows(b)
    PROVE  row' \in [Entities -> Rows]
<1>1. \A o \in Ops : plan[o].before \in Rows
  BY DEF JournalType, Plans
<1>2. Children(b) \in SUBSET Ops
  BY DEF Children, OpsOf
<1>3. CASE ApplyRows(b)
  BY <1>2, <1>3, RowAfterType DEF ApplyRows
<1>4. CASE RestoreRows(b)
  <2> DEFINE first(e) == {o \in About(Children(b), e) : IsFirst(o, About(Children(b), e))}
  <2>1. \A e \in Entities : first(e) \subseteq Ops
    BY <1>2 DEF About
  <2>2. row' = [e \in Entities |-> IF first(e) = {} THEN row[e]
                                   ELSE plan[CHOOSE o \in first(e) : TRUE].before]
    BY <1>4 DEF RestoreRows
  <2> HIDE DEF first
  <2> QED
    BY <1>1, <2>1, <2>2 DEF StoreType
<1> QED
  BY <1>3, <1>4

(* The numbers given to new events keep the type of the ledger. *)
LEMMA EventsType ==
    ASSUME StoreType, NEW b \in Batches \cup {0}, NEW decode \in BOOLEAN,
           RecordEvents(b, decode)
    PROVE  outbox' \in [Ops -> Events]
<1>1. \A o \in Ops : [seq |-> NextSeq(b, o), visible |-> FALSE, wire |-> Wire(o, decode)]
                     \in Events
  BY SeqType DEF Events, Wire
<1> QED
  BY <1>1 DEF RecordEvents, StoreType

(* The actions that write the rows, the ledger or the derived stores. *)
LEMMA StoreTypes ==
    ASSUME TypeOK, NEW p \in Procs,
           \/ ReplayBusiness(p) \/ CommitBusiness(p) \/ UndoBusiness(p) \/ FinalizeBatch(p)
           \/ \E o \in Ops, k \in 1..5 :
                FinishStep(p, o, k) \/ UndoStep(p, o, k) \/ ApplyForward(p, o, k)
    PROVE  TypeOK'
<1>1. JournalType /\ StageType /\ StoreType /\ ControlType /\ RestType
  BY TypeParts
<1>2. loc[p] \in Locals /\ loc[p].job \in Batches \cup {0} /\ loc[p].rb \in Batches \cup {0}
  BY <1>1, LocalFacts
<1>3. \A b : \A s \in States : MoveAll(b, s) => JournalType'
  BY <1>1, MoveAllType
<1>4. SUFFICES JournalType' /\ StoreType' /\ ControlType'
               /\ UNCHANGED <<stages, degraded, faults>>
  BY <1>1, FrameTypes, TypeParts
<1>5. ASSUME NEW o \in Ops, NEW k \in DOMAIN plan[o].steps, NEW side \in Sides,
             fs' = ApplyStep(fs, plan[o].steps[k], side)
      PROVE  fs' \in [Targets -> Contents]
  <2>1. plan[o].steps \in Seq(Steps)
    BY <1>1 DEF JournalType, Plans
  <2>2. plan[o].steps[k] \in Steps
    BY <2>1
  <2> QED
    BY <1>1, <1>5, <2>2, ApplyStepType DEF StoreType
<1>6. CASE ReplayBusiness(p)
  <2> DEFINE b == loc[p].rb
  <2>1. CASE ApplyRows(b) /\ RecordEvents(b, FALSE) /\ MoveAll(b, "DB_COMMITTED")
             /\ Goto(p, "ledger") /\ UNCHANGED loc
    <3>1. row' \in [Entities -> Rows] /\ outbox' \in [Ops -> Events]
      BY <1>1, <1>2, <2>1, RowsType, EventsType
    <3>2. JournalType'
      BY <1>3, <2>1 DEF States
    <3> QED
      BY <1>1, <1>6, <2>1, <3>1, <3>2, StayType DEF ReplayBusiness, StoreType, Labels, stages
  <2>2. CASE UNCHANGED <<journal, row, outbox>>
    <3>1. ControlType'
      BY <1>1, <1>6, <2>2, StayType, ExitType DEF ReplayBusiness, Labels
    <3> QED
      BY <1>1, <1>6, <2>2, <3>1, FrameTypes DEF ReplayBusiness, StoreType, stages
  <2> QED
    BY <1>6, <2>1, <2>2 DEF ReplayBusiness
<1>7. CASE CommitBusiness(p)
  <2> DEFINE b == loc[p].job
  <2>1. CASE ApplyRows(b) /\ RecordEvents(b, TRUE) /\ MoveAll(b, "DB_COMMITTED")
             /\ Goto(p, "finalizing") /\ UNCHANGED loc
             /\ tomb' = [e \in Entities |->
                   IF DeletesOf(b, e) = {} THEN tomb[e]
                   ELSE NextSeq(b, CHOOSE o \in DeletesOf(b, e) : TRUE)]
    <3>1. row' \in [Entities -> Rows] /\ outbox' \in [Ops -> Events]
      BY <1>1, <1>2, <2>1, RowsType, EventsType
    <3>2. JournalType'
      BY <1>3, <2>1 DEF States
    <3>3. tomb' \in [Entities -> Nat]
      <4>1. \A e \in Entities : DeletesOf(b, e) \subseteq Ops
        BY DEF DeletesOf, About, Children, OpsOf
      <4> QED
        BY <1>1, <1>2, <2>1, <4>1, SeqType DEF StoreType
    <3> QED
      BY <1>1, <1>7, <2>1, <3>1, <3>2, <3>3, StayType
         DEF CommitBusiness, StoreType, Labels, stages
  <2>2. CASE Exit(p) /\ UNCHANGED <<journal, row, outbox, tomb>>
    BY <1>1, <1>7, <2>2, ExitType, FrameTypes DEF CommitBusiness, StoreType, stages
  <2> QED
    BY <1>7, <2>1, <2>2 DEF CommitBusiness
<1>8. CASE UndoBusiness(p)
  <2>1. row' \in [Entities -> Rows]
    BY <1>1, <1>8, RowsType DEF UndoBusiness
  <2>2. NoEvent \in Events
    BY DEF NoEvent, Events
  <2>3. tomb' \in [Entities -> Nat] /\ outbox' \in [Ops -> Events]
    BY <1>1, <1>8, <2>2 DEF UndoBusiness, DropEvents, StoreType
  <2> QED
    BY <1>1, <1>8, <2>1, <2>3, StayType, FrameTypes
       DEF UndoBusiness, StoreType, Labels, Backward, stages
<1>9. CASE FinalizeBatch(p)
  <2>1. \A o \in Ops : [outbox[o] EXCEPT !.visible = TRUE] \in Events
    BY <1>1 DEF StoreType, Events
  <2>2. outbox' \in [Ops -> Events]
    BY <1>1, <1>9, <2>1 DEF FinalizeBatch, StoreType
  <2>3. JournalType'
    BY <1>1, <1>3, <1>9, FrameTypes DEF FinalizeBatch, States
  <2>4. ControlType'
    BY <1>1, <1>9, ExitType, NextBatchType DEF FinalizeBatch
  <2> QED
    BY <1>1, <1>9, <2>2, <2>3, <2>4 DEF FinalizeBatch, StoreType, stages
<1>10. CASE \E o \in Ops, k \in 1..5 : FinishStep(p, o, k)
  <2>1. PICK o \in Ops, k \in 1..5 : FinishStep(p, o, k)
    BY <1>10
  <2>2. fs' \in [Targets -> Contents]
    BY <1>1, <1>5, <2>1 DEF FinishStep, StoreType, Sides
  <2>3. ControlType'
    <3>1. CASE loc' = [loc EXCEPT ![p].k = k + 1] /\ UNCHANGED pc
      <4>1. k \in Nat
        OBVIOUS
      <4>2. loc' \in [Procs -> Locals]
        BY <1>1, <3>1, <4>1, NextStepType
      <4> QED
        BY <1>1, <3>1, <4>2 DEF ControlType
    <3>2. ASSUME NEW label \in {"fmark", "manual"}, Goto(p, label), UNCHANGED loc
          PROVE  ControlType'
      BY <1>1, <3>2, StayType DEF Labels, Forward
    <3>3. CASE ForwardFails(p)
      BY <1>1, <3>3, FailureTypes
    <3> QED
      BY <2>1, <3>1, <3>2, <3>3 DEF FinishStep
  <2> QED
    BY <1>1, <2>1, <2>2, <2>3, FrameTypes DEF FinishStep, StoreType, stages
<1>11. CASE \E o \in Ops, k \in 1..5 : UndoStep(p, o, k)
  <2>1. PICK o \in Ops, k \in 1..5 : UndoStep(p, o, k)
    BY <1>11
  <2>2. fs' \in [Targets -> Contents]
    <3>1. plan[o].steps \in Seq(Steps)
      BY <1>1 DEF JournalType, Plans
    <3>2. k \in DOMAIN plan[o].steps
      <4>1. loc[p].k \in DOMAIN plan[o].steps /\ k = Len(plan[o].steps) + 1 - loc[p].k
        BY <2>1 DEF UndoStep, Inverted
      <4>2. DOMAIN plan[o].steps = 1..Len(plan[o].steps) /\ Len(plan[o].steps) \in Nat
        BY <3>1
      <4> QED
        BY <4>1, <4>2
    <3>3. UNCHANGED fs \/ fs' = ApplyStep(fs, plan[o].steps[k], "before")
      BY <2>1 DEF UndoStep
    <3> QED
      BY <1>1, <1>5, <3>2, <3>3 DEF StoreType, Sides
  <2>3. ControlType'
    <3>1. [loc[p] EXCEPT !.k = @ + 1] \in Locals
      BY <1>2 DEF Locals
    <3> QED
      BY <1>1, <2>1, <3>1, StayType, FailureTypes
         DEF UndoStep, ControlType, Labels, Backward
  <2> QED
    BY <1>1, <2>1, <2>2, <2>3, FrameTypes DEF UndoStep, StoreType, stages
<1>12. CASE \E o \in Ops, k \in 1..5 : ApplyForward(p, o, k)
  <2>1. PICK o \in Ops, k \in 1..5 : ApplyForward(p, o, k)
    BY <1>12
  <2>2. fs' \in [Targets -> Contents]
    BY <1>1, <1>5, <2>1 DEF ApplyForward, StoreType, Sides
  <2>3. ControlType'
    BY <1>1, <2>1, StayType, ExitType DEF ApplyForward, Labels, Forward
  <2> QED
    BY <1>1, <2>1, <2>2, <2>3, FrameTypes DEF ApplyForward, StoreType, stages
<1> QED
  BY <1>6, <1>7, <1>8, <1>9, <1>10, <1>11, <1>12

(* The Space and its requests start typed. *)
LEMMA InitTypes == Init => TypeOK
<1> SUFFICES ASSUME Init PROVE TypeOK
  OBVIOUS
<1>1. NoPlan \in Plans /\ NoRow \in Rows /\ NoEvent \in Events
  BY DEF NoPlan, Plans, NoRow, Rows, NoEvent, Events, Bodies
<1>2. \A e \in Entities : InitRow(e) \in Rows
  BY <1>1 DEF InitRow, Rows, Bodies
<1>3. \A x \in Targets : InitContent(x[1], x[2]) \in Contents
  BY InstanceAssumption DEF InitContent, Image, NoContent, Contents, Bodies
<1>4. JournalType
  BY <1>1 DEF Init, JournalType, States, Receipts, StepStates
<1>5. StageType
  BY DEF Init, StageType
<1>6. StoreType
  BY <1>1, <1>2, <1>3 DEF Init, StoreType
<1>7. ControlType
  BY BlankType DEF Init, ControlType, Labels
<1>8. RestType
  <2>1. degraded \in BOOLEAN
    BY Zenon DEF Init
  <2> QED
    BY <2>1 DEF Init, RestType
<1> QED
  BY <1>4, <1>5, <1>6, <1>7, <1>8, TypeParts

(* Every step keeps the types. *)
LEMMA NextTypes == TypeOK /\ [Next]_vars => TypeOK'
<1> SUFFICES ASSUME TypeOK, [Next]_vars PROVE TypeOK'
  OBVIOUS
<1>1. ASSUME NEW p \in Procs, ProcStep(p)
      PROVE  TypeOK'
  BY <1>1, ReadingTypes, JournalTypes, StageTypes, EndingTypes, StoreTypes DEF ProcStep
<1>2. ASSUME NEW p \in Procs, NEW b \in Batches \cup {0}, NEW m \in {"SHARED", "EXCLUSIVE"},
             Begin(p, b, m)
      PROVE  TypeOK'
  BY <1>2, ReadingTypes
<1>3. ASSUME NEW p \in Procs, Fault(p)
      PROVE  TypeOK'
  BY <1>3, EndingTypes
<1>4. ASSUME Crash PROVE TypeOK'
  BY <1>4, EndingTypes
<1>5. ASSUME NEW o \in Ops, NEW side \in Sides, LoseImage(o, side)
      PROVE  TypeOK'
  BY <1>5, StageTypes
<1>6. ASSUME UNCHANGED vars PROVE TypeOK'
  BY <1>6 DEF TypeOK, vars, journal, stages, stores, control
<1> QED
  BY <1>1, <1>2, <1>3, <1>4, <1>5, <1>6 DEF Next

(* Every variable of the mutation core keeps its type, whatever requests   *)
(* run, crash or lose images: no read of the journal, the stages or the    *)
(* stores meets a value the code does not expect there.                    *)
THEOREM TypeCorrect == Spec => []TypeOK
BY InitTypes, NextTypes, PTL DEF Spec

----------------------------------------------------------------------------
(* The inductive invariant *)

(* The states of a batch whose events may be in the ledger, and those in   *)
(* which all of them are.                                                  *)
Written  == {"DB_COMMITTED", "FINALIZING", "FORWARD_APPLIED", "FINALIZED",
             "COMPENSATING", "FAILED_MANUAL"}
Complete == {"DB_COMMITTED", "FINALIZING", "FORWARD_APPLIED", "FINALIZED"}

(* A batch exists before its children, and holds at least one of them      *)
(* unless every command was rejected.                                      *)
Accepted ==
    \A b \in Batches :
       /\ batch[b] = "NONE" => Children(b) = {}
       /\ batch[b] \notin {"NONE", "ABORTED"} => Children(b) # {}

(* Only children of a written batch have events. *)
Recorded ==
    \A o \in Ops : outbox[o].seq # 0 => op[o] # "NONE" /\ batch[o[1]] \in Written

(* From its commit to its outcome a batch has the events of all children. *)
Covered ==
    \A o \in Ops : op[o] # "NONE" /\ batch[o[1]] \in Complete => outbox[o].seq # 0

Durable == JournalCoherent /\ Accepted /\ Recorded /\ Covered /\ LedgerAtomic

(* Once recovery has entered compensation, there is no way back. *)
Undoing == {"cstep", "cmark", "cdb", "cdone", "ccollect"}
Undone  == {"COMPENSATING", "COMPENSATED", "FAILED_MANUAL"}

(* What a request knows of the journal at each of its labels. *)
Knows(p) ==
    /\ pc[p] = "command" => loc[p].accepted \cup loc[p].todo \subseteq OpsOf(loc[p].job)
    /\ pc[p] = "intent" => loc[p].todo # {} /\ loc[p].todo \subseteq OpsOf(loc[p].job)
    /\ loc[p].rb # 0 => batch[loc[p].rb] # "NONE"
    /\ \A b \in loc[p].queue : batch[b] # "NONE"
    /\ pc[p] \in Undoing /\ loc[p].rb # 0 => batch[loc[p].rb] \in Undone
    /\ pc[p] = "cdone" => \A o \in OpsOf(loc[p].rb) : outbox[o].seq = 0

IInv == TypeOK /\ Durable /\ \A p \in Procs : Knows(p)

----------------------------------------------------------------------------
(* Requests know what they knew *)

(* A journal that only moves forward, as far as other requests rely on it. *)
Advances ==
    /\ \A b \in Batches : batch[b] # "NONE" => batch'[b] # "NONE"
    /\ \A b \in Batches : batch[b] \in Undone => batch'[b] \in Undone
    /\ \A o \in Ops : batch[o[1]] \in Undone /\ outbox[o].seq = 0 => outbox'[o].seq = 0

(* Only p moves. *)
Alone(p) == \A q \in Procs \ {p} : pc'[q] = pc[q] /\ loc'[q] = loc[q]

(* p moves on with the same batch, to a label that presumes nothing new.   *)
Stays(p) ==
    /\ Alone(p)
    /\ loc'[p].rb = loc[p].rb /\ loc'[p].queue = loc[p].queue
    /\ \/ pc'[p] \notin {"command", "intent"} \cup Undoing
       \/ pc[p] \in Undoing /\ pc'[p] \in Undoing \ {"cdone"}

(* A quiet step leaves the journal states and the ledger alone. *)
LEMMA QuietAdvances == UNCHANGED <<batch, op, outbox>> => Advances
BY DEF Advances

(* Whoever does not move still knows what it knew. *)
LEMMA OthersKnow ==
    ASSUME IInv, NEW p \in Procs, Advances, Alone(p), Knows(p)'
    PROVE  \A q \in Procs : Knows(q)'
<1> SUFFICES ASSUME NEW q \in Procs, q # p PROVE Knows(q)'
  OBVIOUS
<1>1. pc'[q] = pc[q] /\ loc'[q] = loc[q]
  BY DEF Alone
<1>2. loc[q].rb \in Batches \cup {0} /\ loc[q].queue \subseteq Batches
  BY LocalFacts, TypeParts DEF IInv
<1>3. Knows(q)
  BY DEF IInv
<1>4. \A o \in OpsOf(loc[q].rb) : o \in Ops /\ o[1] = loc[q].rb /\ loc[q].rb \in Batches
  BY OpsFacts DEF OpsOf
<1>5. pc[q] = "cdone" => \A o \in OpsOf(loc[q].rb) : outbox'[o].seq = 0
  BY <1>2, <1>3, <1>4, OpsFacts DEF Knows, Advances, Undoing
<1> QED
  BY <1>1, <1>2, <1>3, <1>5 DEF Knows, Advances, OpsOf

(* A request that stays with its batch keeps its knowledge. *)
LEMMA StayingKnows ==
    ASSUME IInv, NEW p \in Procs, Advances, Stays(p)
    PROVE  \A q \in Procs : Knows(q)'
<1>1. loc[p].rb \in Batches \cup {0} /\ loc[p].queue \subseteq Batches /\ Knows(p)
  BY LocalFacts, TypeParts DEF IInv
<1>2. Knows(p)'
  BY <1>1 DEF Knows, Stays, Advances, Undoing
<1> QED
  BY <1>2, OthersKnow DEF Stays

(* So does one that jumps to an existing batch, or to none. *)
LEMMA JumpingKnows ==
    ASSUME IInv, NEW p \in Procs, Advances, NEW label \in Labels, NEW l \in Locals,
           Jump(p, label, l),
           l.rb # 0 => batch[l.rb] # "NONE",
           \A b \in l.queue : batch[b] # "NONE",
           label \notin Undoing,
           label = "command" => l.accepted \cup l.todo \subseteq OpsOf(l.job),
           label = "intent" => l.todo # {} /\ l.todo \subseteq OpsOf(l.job)
    PROVE  \A q \in Procs : Knows(q)'
<1>1. ControlType
  BY TypeParts DEF IInv
<1>2. pc'[p] = label /\ loc'[p] = l /\ Alone(p)
  BY <1>1 DEF Jump, Goto, ControlType, Alone
<1>3. l.rb \in Batches \cup {0} /\ l.queue \subseteq Batches
  BY DEF Locals
<1>4. Knows(p)'
  BY <1>2, <1>3 DEF Knows, Advances, Undoing, OpsOf
<1> QED
  BY <1>2, <1>4, OthersKnow

(* A request that ends knows nothing. *)
LEMMA ExitingKnows ==
    ASSUME IInv, NEW p \in Procs, Advances, Exit(p)
    PROVE  \A q \in Procs : Knows(q)'
<1>1. Blank.rb = 0 /\ Blank.queue = {}
  BY DEF Blank
<1> QED
  BY <1>1, BlankType, JumpingKnows DEF Exit, Labels, Undoing

(* Recovery goes on to a batch that exists. *)
LEMMA NextBatchKnows ==
    ASSUME IInv, NEW p \in Procs, Advances, NextBatch(p)
    PROVE  \A q \in Procs : Knows(q)'
<1> DEFINE l == loc[p]
<1>1. l \in Locals /\ Knows(p)
  BY LocalFacts, TypeParts DEF IInv
<1>2. CASE l.queue = {}
  <2> DEFINE m == [Blank EXCEPT !.job = l.job, !.mode = l.mode]
  <2>1. m \in Locals /\ m.rb = 0 /\ m.queue = {}
    BY <1>1, BlankType DEF Locals, Blank
  <2>2. Exit(p) \/ Jump(p, "compile", m)
    BY <1>2 DEF NextBatch
  <2> HIDE DEF m
  <2> QED
    BY <2>1, <2>2, ExitingKnows, JumpingKnows DEF Labels, Undoing
<1>3. CASE l.queue # {}
  <2> DEFINE m(b) == [Blank EXCEPT !.job = l.job, !.mode = l.mode, !.rb = b,
                                   !.st = l.snap[b], !.snap = l.snap,
                                   !.queue = l.queue \ {b}]
  <2>1. PICK b \in l.queue : Jump(p, "load", m(b))
    BY <1>3 DEF NextBatch
  <2>2. m(b) \in Locals /\ m(b).rb = b /\ m(b).queue \subseteq l.queue
    BY <1>1, BlankType DEF Locals, Blank
  <2>3. \A x \in l.queue : batch[x] # "NONE"
    BY <1>1 DEF Knows
  <2> HIDE DEF m
  <2> QED
    BY <2>1, <2>2, <2>3, JumpingKnows DEF Labels, Undoing, Forward
<1> QED
  BY <1>2, <1>3

----------------------------------------------------------------------------
(* Quiet steps *)

(* Moving between labels, or to the next child, is staying. *)
LEMMA StayingForms ==
    ASSUME ControlType, NEW p \in Procs, NEW label \in Labels \ ({"command", "intent"} \cup Undoing)
    PROVE  /\ Goto(p, label) /\ UNCHANGED loc => Stays(p)
           /\ \A l \in Locals : Jump(p, label, l) /\ l.rb = loc[p].rb /\ l.queue = loc[p].queue
                               => Stays(p)
           /\ Alone(p) /\ UNCHANGED pc /\ pc[p] \notin {"command", "intent", "cdone"}
              /\ loc'[p].rb = loc[p].rb /\ loc'[p].queue = loc[p].queue => Stays(p)
BY DEF ControlType, Stays, Alone, Goto, Jump

(* The fields that NextChild, NextStep and Loaded write are not those. *)
LEMMA StayingFields ==
    ASSUME ControlType, NEW p \in Procs
    PROVE  /\ Loaded(p).rb = loc[p].rb /\ Loaded(p).queue = loc[p].queue
           /\ \A o, k : \/ NextChild(p, o)
                       \/ loc' = [loc EXCEPT ![p].k = k]
                => /\ loc'[p].rb = loc[p].rb /\ loc'[p].queue = loc[p].queue
                   /\ \A q \in Procs \ {p} : loc'[q] = loc[q]
<1>1. loc[p] \in Locals
  BY LocalFacts
<1> QED
  BY <1>1 DEF Loaded, NextChild, ControlType, Locals

(* A forward or an inverse run that fails goes on with the same batch, or  *)
(* ends.                                                                   *)
LEMMA FailingStays ==
    ASSUME ControlType, NEW p \in Procs
    PROVE  /\ ForwardFails(p) => Stays(p) \/ Exit(p)
           /\ InverseFails(p) => Stays(p) \/ Exit(p)
BY StayingForms DEF ForwardFails, InverseFails, Labels, Backward, Undoing

(* What recovery reads, and the steps of its forward run. *)
LEMMA ForwardStays ==
    ASSUME TypeOK, NEW p \in Procs,
           \/ Load(p) \/ Rescan(p) \/ Reload(p) \/ AssertLedger(p) \/ StartForward(p)
           \/ EndForward(p) \/ LoadInverse(p)
           \/ \E o \in Ops : \/ VerifyChild(p, o) \/ EndChild(p, o)
                            \/ \E k \in 1..5 : FinishStep(p, o, k) \/ MarkStep(p, o, k)
    PROVE  (Stays(p) \/ Exit(p)) /\ UNCHANGED <<batch, op, outbox>>
<1>1. ControlType /\ JournalType
  BY TypeParts
<1>2. loc[p] \in Locals /\ Loaded(p) \in Locals
  BY <1>1, LocalFacts, LoadedType
<1>3. Loaded(p).rb = loc[p].rb /\ Loaded(p).queue = loc[p].queue
  BY <1>1, StayingFields
<1>4. CASE Load(p)
  <2>1. UNCHANGED <<batch, op, outbox>>
    BY <1>4 DEF Load, journal, stores
  <2> QED
    BY <1>1, <1>2, <1>3, <1>4, <2>1, StayingForms DEF Load, Labels, Forward, Backward, Undoing
<1>5. CASE Rescan(p)
  <2>1. UNCHANGED <<batch, op, outbox>>
    BY <1>5 DEF Rescan, journal, stores
  <2>2. /\ [loc[p] EXCEPT !.live = LiveOps] \in Locals
        /\ [loc[p] EXCEPT !.live = LiveOps].rb = loc[p].rb
        /\ [loc[p] EXCEPT !.live = LiveOps].queue = loc[p].queue
    BY <1>2 DEF Locals, LiveOps
  <2> QED
    BY <1>1, <1>5, <2>1, <2>2, StayingForms DEF Rescan, Labels, Undoing
<1>6. CASE Reload(p)
  <2>1. UNCHANGED <<batch, op, outbox>>
    BY <1>6 DEF Reload, journal, stores
  <2> QED
    BY <1>1, <1>2, <1>3, <1>6, <2>1, StayingForms DEF Reload, Labels, Undoing
<1>7. CASE AssertLedger(p)
  <2>1. UNCHANGED <<batch, op, outbox>>
    BY <1>7 DEF AssertLedger, journal, stores
  <2> QED
    BY <1>1, <1>7, <2>1, StayingForms DEF AssertLedger, Labels, Undoing
<1>8. CASE StartForward(p)
  <2> DEFINE l == [Loaded(p) EXCEPT !.st = IF @ = "FORWARD_APPLIED" THEN @ ELSE "FINALIZING"]
  <2>1. UNCHANGED <<batch, op, outbox>>
    BY <1>8 DEF StartForward, journal, stores
  <2>2. l \in Locals /\ l.rb = loc[p].rb /\ l.queue = loc[p].queue
    BY <1>2, <1>3 DEF Locals, States
  <2>3. Jump(p, "fstep", l)
    BY <1>8 DEF StartForward
  <2> HIDE DEF l
  <2> QED
    BY <1>1, <2>1, <2>2, <2>3, StayingForms DEF Labels, Forward, Undoing
<1>9. CASE EndForward(p)
  <2> DEFINE l == [loc[p] EXCEPT !.st = "FORWARD_APPLIED"]
  <2>1. UNCHANGED <<batch, op, outbox>>
    BY <1>9 DEF EndForward, journal, stores
  <2>2. l \in Locals /\ l.rb = loc[p].rb /\ l.queue = loc[p].queue
    BY <1>2 DEF Locals, States
  <2>3. Jump(p, "forward", l) \/ (Goto(p, "finalize") /\ UNCHANGED loc)
    BY <1>9 DEF EndForward
  <2> HIDE DEF l
  <2> QED
    BY <1>1, <2>1, <2>2, <2>3, StayingForms DEF Labels, Forward, Undoing
<1>10. CASE LoadInverse(p)
  <2>1. UNCHANGED <<batch, op, outbox>>
    BY <1>10 DEF LoadInverse, journal, stores
  <2> QED
    BY <1>1, <1>2, <1>3, <1>10, <2>1, StayingForms DEF LoadInverse, Labels, Backward, Undoing
<1>11. CASE \E o \in Ops : VerifyChild(p, o) \/ EndChild(p, o)
  <2>1. PICK o \in Ops : VerifyChild(p, o) \/ EndChild(p, o)
    BY <1>11
  <2>2. UNCHANGED <<batch, op, outbox>>
    BY <2>1 DEF VerifyChild, EndChild, journal, stores
  <2>3. pc[p] = "fstep"
    BY <2>1 DEF VerifyChild, EndChild
  <2>4. \/ NextChild(p, o) /\ UNCHANGED pc
        \/ Goto(p, "manual") /\ UNCHANGED loc
        \/ Goto(p, "transition") /\ UNCHANGED loc
    BY <2>1 DEF VerifyChild, EndChild
  <2>5. NextChild(p, o) /\ UNCHANGED pc => Alone(p)
    BY <1>1, StayingFields DEF Alone
  <2> QED
    BY <1>1, <2>2, <2>3, <2>4, <2>5, StayingForms, StayingFields DEF Labels, Forward, Undoing
<1>12. CASE \E o \in Ops, k \in 1..5 : FinishStep(p, o, k)
  <2>1. PICK o \in Ops, k \in 1..5 : FinishStep(p, o, k)
    BY <1>12
  <2>2. UNCHANGED <<batch, op, outbox>>
    BY <2>1 DEF FinishStep, journal
  <2>3. pc[p] = "fstep"
    BY <2>1 DEF FinishStep
  <2>4. \/ loc' = [loc EXCEPT ![p].k = k + 1] /\ UNCHANGED pc
        \/ \E label \in {"fmark", "manual"} : Goto(p, label) /\ UNCHANGED loc
        \/ ForwardFails(p)
    BY <2>1 DEF FinishStep
  <2>5. loc' = [loc EXCEPT ![p].k = k + 1] /\ UNCHANGED pc => Alone(p)
    BY <1>1, StayingFields DEF Alone
  <2> QED
    BY <1>1, <2>2, <2>3, <2>4, <2>5, StayingForms, StayingFields, FailingStays
       DEF Labels, Forward, Undoing
<1>13. CASE \E o \in Ops, k \in 1..5 : MarkStep(p, o, k)
  <2>1. PICK o \in Ops, k \in 1..5 : MarkStep(p, o, k)
    BY <1>13
  <2> DEFINE l == [loc[p] EXCEPT !.k = k + 1]
  <2>2. UNCHANGED <<batch, op, outbox>>
    BY <2>1 DEF MarkStep, stores
  <2>3. l \in Locals /\ l.rb = loc[p].rb /\ l.queue = loc[p].queue
    BY <1>2 DEF Locals
  <2>4. Jump(p, "fstep", l)
    BY <2>1 DEF MarkStep
  <2> HIDE DEF l
  <2> QED
    BY <1>1, <2>2, <2>3, <2>4, StayingForms DEF Labels, Forward, Undoing
<1> QED
  BY <1>4, <1>5, <1>6, <1>7, <1>8, <1>9, <1>10, <1>11, <1>12, <1>13

(* The steps of an inverse run stay among the labels of compensation. *)
LEMMA InverseStays ==
    ASSUME TypeOK, NEW p \in Procs,
           EndUndo(p) \/ \E o \in Ops, k \in 1..5 : UndoStep(p, o, k) \/ MarkUndone(p, o, k)
    PROVE  (Stays(p) \/ Exit(p)) /\ UNCHANGED <<batch, op, outbox>>
<1>1. ControlType
  BY TypeParts
<1>2. ASSUME Alone(p), loc'[p].rb = loc[p].rb, loc'[p].queue = loc[p].queue,
             pc[p] \in Undoing, pc'[p] \in {"cstep", "cmark", "cdb"}
      PROVE  Stays(p)
  BY <1>2 DEF Stays, Undoing
<1>3. ASSUME NEW label, Goto(p, label), UNCHANGED loc
      PROVE  Alone(p) /\ loc'[p] = loc[p] /\ pc'[p] = label
  BY <1>1, <1>3 DEF Goto, Alone, ControlType
<1>4. CASE EndUndo(p)
  <2>1. UNCHANGED <<batch, op, outbox>>
    BY <1>4 DEF EndUndo, journal, stores
  <2>2. \/ Goto(p, "cdb") /\ UNCHANGED loc
        \/ \E o : NextChild(p, o) /\ UNCHANGED pc
    BY <1>4 DEF EndUndo
  <2>3. pc[p] = "cstep"
    BY <1>4 DEF EndUndo
  <2>4. (\E o : NextChild(p, o)) /\ UNCHANGED pc => Alone(p)
    BY <1>1, StayingFields DEF Alone
  <2> QED
    BY <1>1, <1>2, <1>3, <2>1, <2>2, <2>3, <2>4, StayingFields DEF Undoing
<1>5. CASE \E o \in Ops, k \in 1..5 : UndoStep(p, o, k)
  <2>1. PICK o \in Ops, k \in 1..5 : UndoStep(p, o, k)
    BY <1>5
  <2>2. UNCHANGED <<batch, op, outbox>>
    BY <2>1 DEF UndoStep, journal
  <2>3. pc[p] = "cstep"
    BY <2>1 DEF UndoStep
  <2>4. \/ loc' = [loc EXCEPT ![p].k = loc[p].k + 1] /\ UNCHANGED pc
        \/ Goto(p, "cmark") /\ UNCHANGED loc
        \/ Goto(p, "manual") /\ UNCHANGED loc
        \/ InverseFails(p)
    BY <2>1 DEF UndoStep
  <2>5. loc' = [loc EXCEPT ![p].k = loc[p].k + 1] /\ UNCHANGED pc => Alone(p)
    BY <1>1, StayingFields DEF Alone
  <2>6. Goto(p, "manual") /\ UNCHANGED loc => Stays(p)
    BY <1>1, StayingForms DEF Labels, Undoing
  <2> QED
    BY <1>1, <1>2, <1>3, <2>2, <2>3, <2>4, <2>5, <2>6, StayingFields, FailingStays DEF Undoing
<1>6. CASE \E o \in Ops, k \in 1..5 : MarkUndone(p, o, k)
  <2>1. PICK o \in Ops, k \in 1..5 : MarkUndone(p, o, k)
    BY <1>6
  <2>2. UNCHANGED <<batch, op, outbox>>
    BY <2>1 DEF MarkUndone, stores
  <2>3. pc[p] = "cmark" /\ pc'[p] = "cstep" /\ Alone(p)
    BY <1>1, <2>1 DEF MarkUndone, Jump, Goto, ControlType, Alone
  <2>4. loc'[p] = [loc[p] EXCEPT !.k = @ + 1]
    BY <1>1, <2>1 DEF MarkUndone, Jump, ControlType
  <2>5. loc'[p].rb = loc[p].rb /\ loc'[p].queue = loc[p].queue
    BY <1>1, <2>4, LocalFacts DEF Locals
  <2> QED
    BY <1>2, <2>2, <2>3, <2>5 DEF Undoing
<1> QED
  BY <1>4, <1>5, <1>6

(* Staging and the live application of steps. *)
LEMMA LiveStays ==
    ASSUME TypeOK, NEW p \in Procs,
           \E o \in Ops : \/ WriteStage(p, o) \/ PublishStage(p, o)
                         \/ \E k \in 1..5 : ApplyForward(p, o, k) \/ MarkApplied(p, o, k)
    PROVE  (Stays(p) \/ Exit(p)) /\ UNCHANGED <<batch, op, outbox>>
<1>1. ControlType
  BY TypeParts
<1>2. loc[p] \in Locals
  BY <1>1, LocalFacts
<1>3. CASE \E o \in Ops : WriteStage(p, o)
  BY <1>1, <1>3, StayingForms DEF WriteStage, journal, stores, Labels, Undoing
<1>4. CASE \E o \in Ops : PublishStage(p, o)
  <2>1. PICK o \in Ops : PublishStage(p, o)
    BY <1>4
  <2> DEFINE l == [loc[p] EXCEPT !.todo = @ \ {o}]
  <2>2. l \in Locals /\ l.rb = loc[p].rb /\ l.queue = loc[p].queue
    BY <1>2 DEF Locals
  <2>3. Exit(p) \/ Jump(p, "markstaged", l) \/ Jump(p, "temp", l)
    BY <2>1 DEF PublishStage
  <2>4. UNCHANGED <<batch, op, outbox>>
    BY <2>1 DEF PublishStage, journal, stores
  <2> HIDE DEF l
  <2> QED
    BY <1>1, <2>2, <2>3, <2>4, StayingForms DEF Labels, Undoing
<1>5. CASE \E o \in Ops, k \in 1..5 : ApplyForward(p, o, k)
  BY <1>1, <1>5, StayingForms DEF ApplyForward, journal, Labels, Forward, Undoing
<1>6. CASE \E o \in Ops, k \in 1..5 : MarkApplied(p, o, k)
  <2>1. PICK o \in Ops, k \in 1..5 : MarkApplied(p, o, k)
    BY <1>6
  <2> DEFINE l == [loc[p] EXCEPT !.k = k + 1]
  <2>2. l \in Locals /\ l.rb = loc[p].rb /\ l.queue = loc[p].queue
    BY <1>2 DEF Locals
  <2>3. Exit(p) \/ Jump(p, "lapply", l)
    BY <2>1 DEF MarkApplied
  <2>4. UNCHANGED <<batch, op, outbox>>
    BY <2>1 DEF MarkApplied, stores
  <2> HIDE DEF l
  <2> QED
    BY <1>1, <2>2, <2>3, <2>4, StayingForms DEF Labels, Undoing
<1> QED
  BY <1>3, <1>4, <1>5, <1>6

(* A request compiles the commands of its own batch only.                  *)
LEMMA CompilingKnows ==
    ASSUME IInv, NEW p \in Procs, Advances,
           \/ Compile(p) \/ SnapshotStores(p) \/ EndCompile(p)
           \/ \E o \in Ops : CompileCommand(p, o)
    PROVE  \A q \in Procs : Knows(q)'
<1>1. loc[p] \in Locals /\ Knows(p) /\ ControlType /\ StoreType
  BY TypeParts, LocalFacts DEF IInv
<1>2. /\ loc[p].rb # 0 => batch[loc[p].rb] # "NONE"
      /\ \A b \in loc[p].queue : batch[b] # "NONE"
      /\ loc[p].rb \in Batches \cup {0} /\ loc[p].queue \subseteq Batches
  BY <1>1, LocalFacts DEF Knows
<1>3. ASSUME NEW label \in {"snapshot", "command", "reject", "intent"}, NEW l \in Locals,
             Jump(p, label, l), l.rb = loc[p].rb, l.queue = loc[p].queue,
             label = "command" => l.accepted \cup l.todo \subseteq OpsOf(l.job),
             label = "intent" => l.todo # {} /\ l.todo \subseteq OpsOf(l.job)
      PROVE  \A q \in Procs : Knows(q)'
  BY <1>2, <1>3, JumpingKnows DEF Labels, Undoing
<1>4. CASE Compile(p)
  <2> DEFINE l == [loc[p] EXCEPT !.over = Authority]
  <2>1. Exit(p) \/ Jump(p, "snapshot", l)
    BY <1>4 DEF Compile
  <2>2. Authority \in Overlays
    BY <1>1, BlankType DEF Authority, Overlays, StoreType
  <2>3. l \in Locals /\ l.rb = loc[p].rb /\ l.queue = loc[p].queue
    BY <1>1, <2>2 DEF Locals
  <2> HIDE DEF l
  <2> QED
    BY <1>3, <2>1, <2>3, ExitingKnows
<1>7. CASE SnapshotStores(p)
  <2> DEFINE l == [loc[p] EXCEPT !.over.fs = fs, !.accepted = {}, !.todo = OpsOf(loc[p].job)]
  <2>1. Jump(p, "command", l)
    BY <1>7 DEF SnapshotStores
  <2>2. [loc[p].over EXCEPT !.fs = fs] \in Overlays /\ OpsOf(loc[p].job) \in SUBSET Ops
    BY <1>1, LocalFacts DEF Overlays, StoreType, OpsOf
  <2>3. /\ l \in Locals /\ l.rb = loc[p].rb /\ l.queue = loc[p].queue
        /\ l.job = loc[p].job /\ l.todo = OpsOf(loc[p].job) /\ l.accepted = {}
    BY <1>1, <2>2 DEF Locals
  <2> HIDE DEF l
  <2> QED
    BY <1>3, <2>1, <2>3
<1>5. CASE EndCompile(p)
  <2> DEFINE l == [loc[p] EXCEPT !.todo = loc[p].accepted, !.accepted = {}, !.over = NoOverlay]
             label == IF loc[p].accepted = {} THEN "reject" ELSE "intent"
  <2>1. Jump(p, label, l) /\ pc[p] = "command"
    BY <1>5 DEF EndCompile
  <2>2. /\ l \in Locals /\ l.rb = loc[p].rb /\ l.queue = loc[p].queue
        /\ l.job = loc[p].job /\ l.todo = loc[p].accepted
    BY <1>1, BlankType DEF Locals
  <2>3. loc[p].accepted \subseteq OpsOf(loc[p].job)
    BY <1>1, <2>1 DEF Knows
  <2> HIDE DEF l
  <2> QED
    BY <1>3, <2>1, <2>2, <2>3
<1>6. CASE \E o \in Ops : CompileCommand(p, o)
  <2>1. PICK o \in Ops : CompileCommand(p, o)
    BY <1>6
  <2> DEFINE over == loc[p].over
             rest == [loc[p] EXCEPT !.todo = @ \ {o}]
             done == [rest EXCEPT !.accepted = @ \cup {o}, !.cmd[o] = Compiled(over, o),
                                  !.over = Overlaid(over, o)]
  <2>2. (Jump(p, "command", done) \/ Jump(p, "command", rest)) /\ o \in loc[p].todo
    BY <2>1 DEF CompileCommand
  <2>3. loc[p].accepted \cup loc[p].todo \subseteq OpsOf(loc[p].job)
    BY <1>1, <2>1 DEF Knows, CompileCommand
  <2>4. /\ rest \in Locals /\ rest.rb = loc[p].rb /\ rest.queue = loc[p].queue
        /\ rest.job = loc[p].job /\ rest.todo = loc[p].todo \ {o}
        /\ rest.accepted = loc[p].accepted
    BY <1>1 DEF Locals
  <2>5. Compiled(over, o) \in Plans /\ Overlaid(over, o) \in Overlays
    BY <1>1, LocalFacts, CompiledType, OverlaidType
  <2>6. /\ done \in Locals /\ done.rb = rest.rb /\ done.queue = rest.queue
        /\ done.job = rest.job /\ done.todo = rest.todo
        /\ done.accepted = rest.accepted \cup {o}
    <3> HIDE DEF rest
    <3> QED
      BY <2>4, <2>5 DEF Locals
  <2> HIDE DEF done, rest
  <2> QED
    BY <1>3, <2>2, <2>3, <2>4, <2>6
<1> QED
  BY <1>4, <1>5, <1>6, <1>7

(* Requests that begin, look for work or compile their commands. *)
LEMMA LookingKnows ==
    ASSUME IInv, NEW p \in Procs,
           \/ \E b \in Batches \cup {0}, m \in {"SHARED", "EXCLUSIVE"} : Begin(p, b, m)
           \/ Scan(p) \/ CollectOrphans(p) \/ CollectUndone(p) \/ Fault(p)
           \/ Compile(p) \/ SnapshotStores(p) \/ EndCompile(p)
           \/ \E o \in Ops : CompileCommand(p, o)
    PROVE  (\A q \in Procs : Knows(q)') /\ UNCHANGED <<batch, op, outbox>>
<1>1. ControlType /\ JournalType /\ StoreType
  BY TypeParts DEF IInv
<1>2. loc[p] \in Locals /\ Knows(p)
  BY <1>1, LocalFacts DEF IInv
<1>3. UNCHANGED <<batch, op, outbox>>
  BY DEF Begin, Scan, CollectOrphans, CollectUndone, Fault, Compile, SnapshotStores,
         EndCompile, CompileCommand, journal, stores
<1>4. Advances
  BY <1>3, QuietAdvances
<1>5. CASE \E b \in Batches \cup {0}, m \in {"SHARED", "EXCLUSIVE"} : Begin(p, b, m)
  <2>1. PICK b \in Batches \cup {0}, m \in {"SHARED", "EXCLUSIVE"} : Begin(p, b, m)
    BY <1>5
  <2> DEFINE l == [Blank EXCEPT !.job = b, !.mode = m]
  <2>2. l \in Locals /\ l.rb = 0 /\ l.queue = {}
    BY BlankType DEF Locals, Blank
  <2>3. Jump(p, "scan", l)
    BY <2>1 DEF Begin
  <2> HIDE DEF l
  <2> QED
    BY <1>3, <1>4, <2>2, <2>3, JumpingKnows DEF Labels, Undoing
<1>6. CASE Scan(p)
  <2> DEFINE queue == {b \in Batches : batch[b] \notin Terminal \cup {"NONE"}}
             l == [loc[p] EXCEPT !.live = LiveOps, !.snap = batch, !.queue = queue]
  <2>1. /\ batch \in [Batches -> States]
        /\ LiveOps \in SUBSET Ops /\ queue \in SUBSET Batches
        /\ \A b \in queue : batch[b] # "NONE"
    BY <1>1 DEF JournalType, LiveOps
  <2>2. l \in Locals /\ l.rb = loc[p].rb /\ l.queue = queue
    <3> HIDE DEF queue
    <3> QED
      BY <1>2, <2>1 DEF Locals
  <2>3. Exit(p) \/ Jump(p, "orphans", l)
    BY <1>6 DEF Scan
  <2>4. loc[p].rb # 0 => batch[loc[p].rb] # "NONE"
    BY <1>2 DEF Knows
  <2> HIDE DEF l, queue
  <2> QED
    BY <1>3, <1>4, <2>1, <2>2, <2>3, <2>4, ExitingKnows, JumpingKnows DEF Labels, Undoing
<1>7. CASE CollectOrphans(p)
  BY <1>3, <1>4, <1>7, ExitingKnows, NextBatchKnows DEF CollectOrphans
<1>8. CASE CollectUndone(p)
  BY <1>3, <1>4, <1>8, NextBatchKnows DEF CollectUndone
<1>9. CASE \/ Compile(p) \/ SnapshotStores(p) \/ EndCompile(p)
           \/ \E o \in Ops : CompileCommand(p, o)
  BY <1>3, <1>4, <1>9, CompilingKnows
<1>10. CASE Fault(p)
  BY <1>1, <1>3, <1>4, <1>10, ExitingKnows, StayingKnows, FailingStays DEF Fault
<1> QED
  BY <1>5, <1>6, <1>7, <1>8, <1>9, <1>10

(* The environment: a crash forgets everything, bit rot tells nobody. *)
LEMMA EnvironmentKnows ==
    ASSUME IInv, Crash \/ \E o \in Ops, side \in Sides : LoseImage(o, side)
    PROVE  (\A q \in Procs : Knows(q)') /\ UNCHANGED <<batch, op, outbox>>
<1>1. CASE Crash
  <2>1. UNCHANGED <<batch, op, outbox>>
    BY <1>1 DEF Crash, journal, stores
  <2>2. \A q \in Procs : pc'[q] = "idle" /\ loc'[q].rb = 0 /\ loc'[q].queue = {}
    BY <1>1 DEF Crash, Blank
  <2> QED
    BY <2>1, <2>2 DEF Knows, Undoing
<1>2. CASE \E o \in Ops, side \in Sides : LoseImage(o, side)
  <2>1. UNCHANGED <<batch, op, outbox, pc, loc>>
    BY <1>2 DEF LoseImage, journal, stores, control
  <2> QED
    BY <2>1 DEF IInv, Knows, OpsOf
<1> QED
  BY <1>1, <1>2

(* Quiet steps keep the durable part as it is. *)
LEMMA QuietDurable == Durable /\ UNCHANGED <<batch, op, outbox>> => Durable'
BY DEF Durable, JournalCoherent, Accepted, Recorded, Covered, LedgerAtomic, Children, OpsOf

----------------------------------------------------------------------------
(* Steps that write the journal or the ledger *)

(* A batch and its children move together. *)
LEMMA MoveFacts ==
    ASSUME JournalType, NEW b \in Batches, NEW s \in States \ {"NONE"}, MoveAll(b, s)
    PROVE  /\ batch'[b] = s /\ \A x \in Batches \ {b} : batch'[x] = batch[x]
           /\ \A o \in Children(b) : op'[o] = s
           /\ \A o \in Ops \ Children(b) : op'[o] = op[o]
           /\ \A x : Children(x)' = Children(x)
<1>1. batch'[b] = s /\ \A x \in Batches \ {b} : batch'[x] = batch[x]
  BY DEF MoveAll, JournalType
<1>2. /\ \A o \in Children(b) : o \in Ops /\ op'[o] = s /\ op[o] # "NONE"
      /\ \A o \in Ops \ Children(b) : op'[o] = op[o]
  BY DEF MoveAll, Children, OpsOf
<1>3. \A o \in Ops : op'[o] # "NONE" <=> op[o] # "NONE"
  BY <1>2
<1>4. \A x : Children(x)' = Children(x)
  BY <1>3 DEF Children, OpsOf
<1> QED
  BY <1>1, <1>2, <1>4

(* Outside the batches there is nothing to move. *)
LEMMA MoveNothing ==
    ASSUME JournalType, NEW s, MoveAll(0, s)
    PROVE  UNCHANGED <<batch, op>>
<1>1. 0 \notin Batches /\ Children(0) = {}
  BY OpsFacts DEF Children, OpsOf
<1> QED
  BY <1>1 DEF MoveAll, JournalType

(* A move that writes no event keeps the durable part if it leaves no      *)
(* event behind and does not touch what was decided.                       *)
LEMMA MoveDurable ==
    ASSUME IInv, NEW b \in Batches, NEW s \in States \ {"NONE", "FINALIZED"},
           MoveAll(b, s), UNCHANGED outbox,
           batch[b] \notin {"NONE", "FINALIZED"},
           s = "ABORTED" \/ batch[b] # "ABORTED",
           s \in Written \/ \A o \in OpsOf(b) : outbox[o].seq = 0,
           s \in Complete => batch[b] \in Complete,
           batch[b] \in Undone => s \in Undone
    PROVE  Durable' /\ Advances
<1>1. JournalType /\ Durable
  BY TypeParts DEF IInv
<1>2. /\ batch'[b] = s /\ \A x \in Batches \ {b} : batch'[x] = batch[x]
      /\ \A o \in Children(b) : op'[o] = s
      /\ \A o \in Ops \ Children(b) : op'[o] = op[o]
      /\ \A x : Children(x)' = Children(x)
  BY <1>1, MoveFacts
<1>3. \A x : \A o \in Children(x) : o \in Ops /\ o[1] = x /\ op[o] # "NONE"
  BY DEF Children, OpsOf
<1>4. \A o \in Ops : (op'[o] # "NONE" <=> op[o] # "NONE") /\ o[1] \in Batches
  BY <1>2, <1>3, OpsFacts
<1>5. JournalCoherent'
  <2> SUFFICES ASSUME NEW x \in Batches
               PROVE  \/ \A o \in Children(x) : op'[o] = batch'[x]
                      \/ /\ batch'[x] = "FINALIZING"
                         /\ \A o \in Children(x) : op'[o] \in {"FINALIZING", "FORWARD_APPLIED"}
                         /\ \E o \in Children(x) : op'[o] = "FINALIZING"
    BY <1>2 DEF JournalCoherent
  <2>1. CASE x = b
    BY <1>2, <2>1
  <2>2. CASE x # b
    <3>1. \A o \in Children(x) : op'[o] = op[o]
      BY <1>2, <1>3, <2>2
    <3> QED
      BY <1>1, <1>2, <2>2, <3>1 DEF Durable, JournalCoherent
  <2> QED
    BY <2>1, <2>2
<1>6. Accepted'
  BY <1>1, <1>2 DEF Durable, Accepted
<1>7. Recorded'
  BY <1>1, <1>2, <1>4 DEF Durable, Recorded, OpsOf
<1>8. Covered'
  BY <1>1, <1>2, <1>4 DEF Durable, Covered
<1>9. LedgerAtomic'
  BY <1>1, <1>2, <1>4 DEF Durable, LedgerAtomic, Written, OpsOf
<1>10. Advances
  BY <1>2 DEF Advances
<1> QED
  BY <1>5, <1>6, <1>7, <1>8, <1>9, <1>10 DEF Durable

(* A batch that is not written has no events. *)
LEMMA Unwritten ==
    ASSUME Durable, NEW b \in Batches, batch[b] \notin Written
    PROVE  \A o \in OpsOf(b) : outbox[o].seq = 0
BY DEF Durable, Recorded, OpsOf

(* Where LEGAL_TRANSITIONS leads. *)
LEMMA Legal ==
    ASSUME NEW s \in States
    PROVE  /\ "ABORTED" \in LEGAL_TRANSITIONS[s] => s \in {"INTENT", "STAGED"}
           /\ "COMPENSATING" \in LEGAL_TRANSITIONS[s]
                => s \in {"DB_COMMITTED", "FINALIZING", "FORWARD_APPLIED"}
           /\ "COMPENSATED" \in LEGAL_TRANSITIONS[s] => s = "COMPENSATING"
           /\ "FORWARD_APPLIED" \in LEGAL_TRANSITIONS[s] => s = "FINALIZING"
BY DEF LEGAL_TRANSITIONS, States

(* Moves of recovery and of the live path between journal states. *)
LEMMA MovingSteps ==
    ASSUME IInv, NEW p \in Procs,
           \/ AbortBatch(p) \/ StartInverse(p) \/ EndInverse(p) \/ FailManual(p)
           \/ MarkStaged(p) \/ MarkFinalizing(p)
    PROVE  Durable' /\ \A q \in Procs : Knows(q)'
<1>1. /\ JournalType /\ ControlType /\ Durable /\ Knows(p)
      /\ loc[p] \in Locals /\ loc[p].rb \in Batches \cup {0} /\ Cur(p) \in Batches \cup {0}
  BY TypeParts, LocalFacts DEF IInv, Cur
<1>2. UNCHANGED outbox
  BY DEF AbortBatch, StartInverse, EndInverse, FailManual, MarkStaged, MarkFinalizing, stores
<1>3. ASSUME UNCHANGED <<batch, op>> PROVE Durable' /\ Advances
  BY <1>1, <1>2, <1>3, QuietDurable, QuietAdvances
<1>4. ASSUME UNCHANGED journal PROVE UNCHANGED <<batch, op>>
  BY <1>4 DEF journal
<1>5. CASE AbortBatch(p)
  <2>1. CASE CanSet(loc[p].rb, "ABORTED") /\ MoveAll(loc[p].rb, "ABORTED")
             /\ Goto(p, "rescan") /\ UNCHANGED loc
    <3>1. Durable' /\ Advances
      <4>1. CASE loc[p].rb = 0
        BY <1>1, <1>3, <2>1, <4>1, MoveNothing
      <4>2. CASE loc[p].rb \in Batches
        <5>1. batch[loc[p].rb] \in {"ABORTED", "INTENT", "STAGED"}
          BY <1>1, <2>1, <4>2, Legal DEF CanSet, JournalType
        <5>2. \A o \in OpsOf(loc[p].rb) : outbox[o].seq = 0
          BY <1>1, <4>2, <5>1, Unwritten DEF Written
        <5> QED
          BY <1>2, <2>1, <4>2, <5>1, <5>2, MoveDurable DEF States, Complete, Undone
      <4> QED
        BY <1>1, <4>1, <4>2
    <3> QED
      BY <1>1, <2>1, <3>1, StayingForms, StayingKnows DEF Labels, Undoing
  <2>2. CASE Exit(p) /\ UNCHANGED journal
    BY <1>3, <1>4, <2>2, ExitingKnows
  <2> QED
    BY <1>5, <2>1, <2>2 DEF AbortBatch
<1>6. CASE StartInverse(p)
  <2>1. CASE CanSet(loc[p].rb, "COMPENSATING") /\ MoveAll(loc[p].rb, "COMPENSATING")
             /\ Goto(p, "cstep") /\ UNCHANGED loc
    <3>1. Durable' /\ Advances /\ (loc[p].rb # 0 => batch'[loc[p].rb] = "COMPENSATING")
      <4>1. CASE loc[p].rb = 0
        BY <1>1, <1>3, <2>1, <4>1, MoveNothing
      <4>2. CASE loc[p].rb \in Batches
        <5>1. batch[loc[p].rb] \in {"COMPENSATING", "DB_COMMITTED", "FINALIZING",
                                     "FORWARD_APPLIED"}
          BY <1>1, <2>1, <4>2, Legal DEF CanSet, JournalType
        <5>2. batch'[loc[p].rb] = "COMPENSATING"
          BY <1>1, <2>1, <4>2, MoveFacts DEF States
        <5> QED
          BY <1>2, <2>1, <4>2, <5>1, <5>2, MoveDurable DEF States, Complete, Undone, Written
      <4> QED
        BY <1>1, <4>1, <4>2
    <3>2. pc'[p] = "cstep" /\ loc'[p] = loc[p] /\ Alone(p)
      BY <1>1, <2>1 DEF Goto, Alone, ControlType
    <3>3. loc[p].queue \subseteq Batches
      BY <1>1, LocalFacts
    <3>4. Knows(p)'
      BY <1>1, <3>1, <3>2, <3>3 DEF Knows, Advances, Undone
    <3> QED
      BY <3>1, <3>2, <3>4, OthersKnow
  <2>2. CASE InverseFails(p) /\ UNCHANGED journal
    BY <1>1, <1>3, <1>4, <2>2, FailingStays, ExitingKnows, StayingKnows
  <2> QED
    BY <1>6, <2>1, <2>2 DEF StartInverse
<1>7. CASE EndInverse(p)
  <2>1. CASE CanSet(loc[p].rb, "COMPENSATED") /\ MoveAll(loc[p].rb, "COMPENSATED")
             /\ Goto(p, "ccollect") /\ UNCHANGED loc
    <3>1. Durable' /\ Advances
      <4>1. CASE loc[p].rb = 0
        BY <1>1, <1>3, <2>1, <4>1, MoveNothing
      <4>2. CASE loc[p].rb \in Batches
        <5>1. batch[loc[p].rb] \in {"COMPENSATED", "COMPENSATING"}
          BY <1>1, <2>1, <4>2, Legal DEF CanSet, JournalType
        <5>2. \A o \in OpsOf(loc[p].rb) : outbox[o].seq = 0
          BY <1>1, <1>7 DEF Knows, EndInverse
        <5> QED
          BY <1>2, <2>1, <4>2, <5>1, <5>2, MoveDurable DEF States, Complete, Undone
      <4> QED
        BY <1>1, <4>1, <4>2
    <3>2. /\ pc[p] = "cdone" /\ pc'[p] = "ccollect" /\ Alone(p)
          /\ loc'[p].rb = loc[p].rb /\ loc'[p].queue = loc[p].queue
      BY <1>1, <1>7, <2>1 DEF EndInverse, Goto, Alone, ControlType
    <3> QED
      BY <3>1, <3>2, StayingKnows DEF Stays, Undoing
  <2>2. CASE InverseFails(p) /\ UNCHANGED journal
    BY <1>1, <1>3, <1>4, <2>2, FailingStays, ExitingKnows, StayingKnows
  <2> QED
    BY <1>7, <2>1, <2>2 DEF EndInverse
<1>8. CASE FailManual(p)
  <2>1. Exit(p)
    BY <1>8 DEF FailManual
  <2>2. Durable' /\ Advances
    <3>1. CASE UNCHANGED journal
      BY <1>3, <1>4, <3>1
    <3>2. CASE MoveAll(loc[p].rb, "FAILED_MANUAL") /\ batch[loc[p].rb] \notin Terminal
      <4>1. CASE loc[p].rb = 0
        BY <1>1, <1>3, <3>2, <4>1, MoveNothing
      <4>2. CASE loc[p].rb \in Batches
        <5>1. batch[loc[p].rb] \notin {"NONE", "FINALIZED", "ABORTED", "COMPENSATED"}
          BY <1>1, <3>2, <4>2, OpsFacts DEF Knows, Terminal
        <5> QED
          BY <1>2, <3>2, <4>2, <5>1, MoveDurable DEF States, Complete, Undone, Written
      <4> QED
        BY <1>1, <4>1, <4>2
    <3> QED
      BY <1>8, <3>1, <3>2 DEF FailManual
  <2> QED
    BY <2>1, <2>2, ExitingKnows
<1>9. CASE MarkStaged(p)
  <2>1. CASE batch[Cur(p)] = "INTENT" /\ MoveAll(Cur(p), "STAGED") /\ UNCHANGED loc
             /\ Goto(p, IF IsLive(p) THEN "commit" ELSE "reload")
    <3>1. Durable' /\ Advances
      <4>1. CASE Cur(p) = 0
        BY <1>1, <1>3, <2>1, <4>1, MoveNothing
      <4>2. CASE Cur(p) \in Batches
        <5>1. \A o \in OpsOf(Cur(p)) : outbox[o].seq = 0
          BY <1>1, <2>1, <4>2, Unwritten DEF Written
        <5> QED
          BY <1>2, <2>1, <4>2, <5>1, MoveDurable DEF States, Complete, Undone
      <4> QED
        BY <1>1, <4>1, <4>2
    <3> QED
      BY <1>1, <2>1, <3>1, StayingForms, StayingKnows DEF Labels, Undoing
  <2>2. CASE Exit(p) /\ UNCHANGED journal
    BY <1>3, <1>4, <2>2, ExitingKnows
  <2> QED
    BY <1>9, <2>1, <2>2 DEF MarkStaged
<1>10. CASE MarkFinalizing(p)
  <2> DEFINE l == [loc[p] EXCEPT !.todo = Children(loc[p].job), !.k = 1]
  <2>1. l \in Locals /\ l.rb = loc[p].rb /\ l.queue = loc[p].queue
    BY <1>1 DEF Locals, Children, OpsOf
  <2>2. \/ /\ AllIn(Cur(p), "DB_COMMITTED") /\ MoveAll(Cur(p), "FINALIZING")
           /\ Jump(p, "lapply", l) \/ (Goto(p, "forward") /\ UNCHANGED loc)
        \/ Exit(p) /\ UNCHANGED journal
    BY <1>10 DEF MarkFinalizing
  <2> HIDE DEF l
  <2>3. CASE /\ AllIn(Cur(p), "DB_COMMITTED") /\ MoveAll(Cur(p), "FINALIZING")
             /\ Jump(p, "lapply", l) \/ (Goto(p, "forward") /\ UNCHANGED loc)
    <3>1. Durable' /\ Advances
      <4>1. CASE Cur(p) = 0
        BY <1>1, <1>3, <2>3, <4>1, MoveNothing
      <4>2. CASE Cur(p) \in Batches
        BY <1>2, <2>3, <4>2, MoveDurable DEF AllIn, States, Complete, Undone, Written
      <4> QED
        BY <1>1, <4>1, <4>2
    <3>2. Stays(p)
      BY <1>1, <2>1, <2>3, StayingForms DEF Labels, Forward, Undoing
    <3> QED
      BY <3>1, <3>2, StayingKnows
  <2>4. CASE Exit(p) /\ UNCHANGED journal
    BY <1>3, <1>4, <2>4, ExitingKnows
  <2> QED
    BY <2>2, <2>3, <2>4
<1> QED
  BY <1>5, <1>6, <1>7, <1>8, <1>9, <1>10

(* The events of a batch are numbered from the largest id on. *)
LEMMA SeqPositive ==
    ASSUME StoreType, NEW b, NEW o \in Children(b)
    PROVE  NextSeq(b, o) \in Nat \ {0}
<1> DEFINE S == {x \in Children(b) : x[2] <= o[2]}
<1>1. o \in Ops /\ o[1] = b /\ o[2] \in Nat /\ b \in Batches
  BY OpsFacts DEF Children, OpsOf
<1>2. IsFiniteSet(S) /\ o \in S
  <2>1. S \subseteq Ops
    BY DEF Children, OpsOf
  <2> QED
    BY <1>1, <2>1, OpsFacts, FS_Subset
<1>3. Cardinality(S) \in Nat /\ Cardinality(S) # 0
  BY <1>2, FS_CardinalityType, FS_EmptySet
<1>4. LastSeq + Cardinality(S) \in Nat /\ LastSeq \in Nat
  <2>1. NextSeq(b, o) \in Nat
    BY <1>1, SeqType
  <2>2. LastSeq \in Nat
    BY LastSeqType
  <2> QED
    BY <2>1, <2>2 DEF NextSeq
<1> QED
  BY <1>3, <1>4 DEF NextSeq

(* A business commit or its replay records an event for every child. *)
LEMMA WriteDurable ==
    ASSUME IInv, NEW b \in Batches \cup {0}, NEW decode, AllIn(b, "STAGED"),
           RecordEvents(b, decode), MoveAll(b, "DB_COMMITTED")
    PROVE  Durable' /\ Advances
<1>1. JournalType /\ StoreType /\ Durable
  BY TypeParts DEF IInv
<1>2. CASE b = 0
  <2>1. Children(0) = {}
    BY OpsFacts DEF Children, OpsOf
  <2>2. UNCHANGED outbox
    BY <1>1, <1>2, <2>1 DEF RecordEvents, StoreType
  <2> QED
    BY <1>1, <1>2, <2>2, MoveNothing, QuietDurable, QuietAdvances
<1>3. CASE b \in Batches
  <2>1. /\ batch'[b] = "DB_COMMITTED" /\ \A x \in Batches \ {b} : batch'[x] = batch[x]
        /\ \A o \in Children(b) : op'[o] = "DB_COMMITTED"
        /\ \A o \in Ops \ Children(b) : op'[o] = op[o]
        /\ \A x : Children(x)' = Children(x)
    BY <1>1, <1>3, MoveFacts DEF States
  <2>2. \A x : \A o \in Children(x) : o \in Ops /\ o[1] = x /\ op[o] # "NONE"
    BY DEF Children, OpsOf
  <2>3. \A o \in Ops : (op'[o] # "NONE" <=> op[o] # "NONE") /\ o[1] \in Batches
    BY <2>1, <2>2, OpsFacts
  <2>4. /\ \A o \in Children(b) : outbox'[o].seq # 0 /\ ~outbox'[o].visible
        /\ \A o \in Ops \ Children(b) : outbox'[o] = outbox[o]
    BY <1>1, <2>2, SeqPositive DEF RecordEvents
  <2>5. batch[b] = "STAGED" /\ \A o \in Ops : o[1] = b /\ op[o] # "NONE" => o \in Children(b)
    BY DEF AllIn, Children, OpsOf
  <2>6. JournalCoherent'
    <3> SUFFICES ASSUME NEW x \in Batches
                 PROVE  \/ \A o \in Children(x) : op'[o] = batch'[x]
                        \/ /\ batch'[x] = "FINALIZING"
                           /\ \A o \in Children(x) : op'[o] \in {"FINALIZING", "FORWARD_APPLIED"}
                           /\ \E o \in Children(x) : op'[o] = "FINALIZING"
      BY <2>1 DEF JournalCoherent
    <3>1. CASE x = b
      BY <2>1, <3>1
    <3>2. CASE x # b
      <4>1. \A o \in Children(x) : op'[o] = op[o]
        BY <2>1, <2>2, <3>2
      <4> QED
        BY <1>1, <2>1, <3>2, <4>1 DEF Durable, JournalCoherent
    <3> QED
      BY <3>1, <3>2
  <2>7. Accepted'
    BY <1>1, <2>1, <2>5 DEF Durable, Accepted
  <2>8. Recorded'
    BY <1>1, <2>1, <2>2, <2>3, <2>4, <2>5 DEF Durable, Recorded, Written
  <2>9. Covered'
    BY <1>1, <2>1, <2>2, <2>3, <2>4, <2>5 DEF Durable, Covered, Complete
  <2>10. LedgerAtomic'
    BY <1>1, <2>1, <2>2, <2>3, <2>4, <2>5 DEF Durable, LedgerAtomic, Recorded, Written
  <2>11. Advances
    BY <2>1, <2>2, <2>4, <2>5 DEF Advances, Undone
  <2> QED
    BY <2>6, <2>7, <2>8, <2>9, <2>10, <2>11 DEF Durable
<1> QED
  BY <1>2, <1>3

(* The commit of the live path and its replay by recovery. *)
LEMMA WritingSteps ==
    ASSUME IInv, NEW p \in Procs, ReplayBusiness(p) \/ CommitBusiness(p)
    PROVE  Durable' /\ \A q \in Procs : Knows(q)'
<1>1. ControlType /\ Durable /\ loc[p].rb \in Batches \cup {0} /\ loc[p].job \in Batches \cup {0}
  BY TypeParts, LocalFacts DEF IInv
<1>2. ASSUME UNCHANGED <<journal, outbox>> PROVE Durable' /\ Advances
  BY <1>1, <1>2, QuietDurable, QuietAdvances DEF journal
<1>3. CASE ReplayBusiness(p)
  <2> DEFINE b == loc[p].rb
  <2>1. \/ Goto(p, "manual") /\ UNCHANGED <<journal, outbox, loc>>
        \/ Exit(p) /\ UNCHANGED <<journal, outbox>>
        \/ /\ AllIn(b, "STAGED") /\ RecordEvents(b, FALSE) /\ MoveAll(b, "DB_COMMITTED")
           /\ Goto(p, "ledger") /\ UNCHANGED loc
    BY <1>3 DEF ReplayBusiness
  <2>2. CASE Goto(p, "manual") /\ UNCHANGED <<journal, outbox, loc>>
    BY <1>1, <1>2, <2>2, StayingForms, StayingKnows DEF Labels, Undoing
  <2>3. CASE Exit(p) /\ UNCHANGED <<journal, outbox>>
    BY <1>2, <2>3, ExitingKnows
  <2>4. CASE /\ AllIn(b, "STAGED") /\ RecordEvents(b, FALSE) /\ MoveAll(b, "DB_COMMITTED")
             /\ Goto(p, "ledger") /\ UNCHANGED loc
    <3>1. Durable' /\ Advances
      BY <1>1, <2>4, WriteDurable
    <3> QED
      BY <1>1, <2>4, <3>1, StayingForms, StayingKnows DEF Labels, Undoing
  <2> QED
    BY <2>1, <2>2, <2>3, <2>4
<1>4. CASE CommitBusiness(p)
  <2> DEFINE b == loc[p].job
  <2>1. \/ Exit(p) /\ UNCHANGED <<journal, outbox>>
        \/ /\ AllIn(b, "STAGED") /\ RecordEvents(b, TRUE) /\ MoveAll(b, "DB_COMMITTED")
           /\ Goto(p, "finalizing") /\ UNCHANGED loc
    BY <1>4 DEF CommitBusiness
  <2>2. CASE Exit(p) /\ UNCHANGED <<journal, outbox>>
    BY <1>2, <2>2, ExitingKnows
  <2>3. CASE /\ AllIn(b, "STAGED") /\ RecordEvents(b, TRUE) /\ MoveAll(b, "DB_COMMITTED")
             /\ Goto(p, "finalizing") /\ UNCHANGED loc
    <3>1. Durable' /\ Advances
      BY <1>1, <2>3, WriteDurable
    <3> QED
      BY <1>1, <2>3, <3>1, StayingForms, StayingKnows DEF Labels, Undoing
  <2> QED
    BY <2>1, <2>2, <2>3
<1> QED
  BY <1>3, <1>4

(* Compensation withdraws the events of a batch nobody has seen. *)
LEMMA UndoingStep ==
    ASSUME IInv, NEW p \in Procs, UndoBusiness(p)
    PROVE  Durable' /\ \A q \in Procs : Knows(q)'
<1> DEFINE b == loc[p].rb
<1>1. /\ StoreType /\ ControlType /\ Durable /\ Knows(p) /\ b \in Batches \cup {0}
      /\ loc[p].queue \subseteq Batches
  BY TypeParts, LocalFacts DEF IInv
<1>2. UNCHANGED <<batch, op>> /\ Goto(p, "cdone") /\ UNCHANGED loc
  BY DEF UndoBusiness, journal
<1>3. /\ \A o \in OpsOf(b) : outbox'[o].seq = 0 /\ ~outbox'[o].visible
      /\ \A o \in Ops : o[1] # b => outbox'[o] = outbox[o]
  BY <1>1 DEF UndoBusiness, DropEvents, OpsOf, NoEvent
<1>4. b # 0 => batch[b] \in Undone
  BY <1>1 DEF UndoBusiness, Knows, Undoing
<1>5. \A o \in Ops : o \in OpsOf(o[1]) /\ o[1] \in Batches /\ o[1] # 0
  BY OpsFacts DEF OpsOf
<1>6. JournalCoherent' /\ Accepted'
  BY <1>1, <1>2 DEF Durable, JournalCoherent, Accepted, Children, OpsOf
<1>7. Recorded' /\ Covered'
  BY <1>1, <1>2, <1>3, <1>4, <1>5 DEF Durable, Recorded, Covered, Undone, Complete
<1>8. LedgerAtomic'
  BY <1>1, <1>2, <1>3, <1>4, <1>5 DEF Durable, LedgerAtomic, Undone
<1>9. Advances
  BY <1>2, <1>3, <1>5 DEF Advances
<1>10. pc'[p] = "cdone" /\ loc'[p] = loc[p] /\ Alone(p)
  BY <1>1, <1>2 DEF Goto, Alone, ControlType
<1>11. Knows(p)'
  BY <1>1, <1>2, <1>3, <1>4, <1>10 DEF Knows, OpsOf
<1> QED
  BY <1>6, <1>7, <1>8, <1>9, <1>10, <1>11, OthersKnow DEF Durable

(* Finalizing a batch shows all of its events at once. *)
LEMMA FinalizingStep ==
    ASSUME IInv, NEW p \in Procs, FinalizeBatch(p)
    PROVE  Durable' /\ \A q \in Procs : Knows(q)'
<1> DEFINE b == Cur(p)
<1>1. /\ JournalType /\ StoreType /\ Durable /\ b \in Batches \cup {0}
  BY TypeParts, LocalFacts DEF IInv, Cur
<1>2. CASE Exit(p) /\ UNCHANGED <<journal, outbox>>
  <2>1. UNCHANGED <<batch, op, outbox>>
    BY <1>2 DEF journal
  <2> QED
    BY <1>1, <1>2, <2>1, QuietDurable, QuietAdvances, ExitingKnows
<1>3. CASE /\ CanFinalize(b) /\ MoveAll(b, "FINALIZED")
           /\ outbox' = [o \in Ops |-> IF o[1] = b /\ outbox[o].seq # 0
                                       THEN [outbox[o] EXCEPT !.visible = TRUE]
                                       ELSE outbox[o]]
           /\ Exit(p) \/ NextBatch(p)
  <2>1. \A o \in Ops : o[1] \in Batches /\ outbox[o] \in Events
    BY <1>1, OpsFacts DEF StoreType
  <2>2. \A o \in Ops : /\ outbox'[o].seq = outbox[o].seq
                       /\ o[1] = b /\ outbox[o].seq # 0 => outbox'[o].visible
                       /\ o[1] # b \/ outbox[o].seq = 0 => outbox'[o] = outbox[o]
    BY <1>3, <2>1 DEF Events
  <2>3. CASE b = 0
    <3>1. UNCHANGED <<batch, op>>
      BY <1>1, <1>3, <2>3, MoveNothing
    <3>2. \A o \in Ops : outbox'[o] = outbox[o]
      BY <2>1, <2>2, <2>3, OpsFacts
    <3>3. UNCHANGED outbox
      BY <1>1, <1>3, <3>2 DEF StoreType
    <3> QED
      BY <1>1, <1>3, <3>1, <3>3, QuietDurable, QuietAdvances, ExitingKnows, NextBatchKnows
  <2>4. CASE b \in Batches
    <3>1. /\ batch'[b] = "FINALIZED" /\ \A x \in Batches \ {b} : batch'[x] = batch[x]
          /\ \A o \in Children(b) : op'[o] = "FINALIZED"
          /\ \A o \in Ops \ Children(b) : op'[o] = op[o]
          /\ \A x : Children(x)' = Children(x)
      BY <1>1, <1>3, <2>4, MoveFacts DEF States
    <3>2. \A x : \A o \in Children(x) : o \in Ops /\ o[1] = x /\ op[o] # "NONE"
      BY DEF Children, OpsOf
    <3>3. \A o \in Ops : op'[o] # "NONE" <=> op[o] # "NONE"
      BY <3>1, <3>2
    <3>4. batch[b] = "FORWARD_APPLIED"
      BY <1>3 DEF CanFinalize, AllIn
    <3>5. JournalCoherent'
      <4> SUFFICES ASSUME NEW x \in Batches
                   PROVE  \/ \A o \in Children(x) : op'[o] = batch'[x]
                          \/ /\ batch'[x] = "FINALIZING"
                             /\ \A o \in Children(x) : op'[o] \in {"FINALIZING", "FORWARD_APPLIED"}
                             /\ \E o \in Children(x) : op'[o] = "FINALIZING"
        BY <3>1 DEF JournalCoherent
      <4>1. CASE x = b
        BY <3>1, <4>1
      <4>2. CASE x # b
        <5>1. \A o \in Children(x) : op'[o] = op[o]
          BY <3>1, <3>2, <4>2
        <5> QED
          BY <1>1, <3>1, <4>2, <5>1 DEF Durable, JournalCoherent
      <4> QED
        BY <4>1, <4>2
    <3>6. Accepted'
      BY <1>1, <3>1, <3>4 DEF Durable, Accepted
    <3>7. Recorded' /\ Covered'
      BY <1>1, <2>1, <2>2, <3>1, <3>3, <3>4 DEF Durable, Recorded, Covered, Written, Complete
    <3>8. LedgerAtomic'
      <4> SUFFICES ASSUME NEW o \in Ops
                   PROVE  /\ outbox'[o].visible <=> op'[o] # "NONE" /\ batch'[o[1]] = "FINALIZED"
                          /\ outbox'[o].seq # 0 => batch'[o[1]] \notin {"NONE", "ABORTED", "COMPENSATED"}
                          /\ outbox'[o].visible => outbox'[o].seq # 0
        BY DEF LedgerAtomic
      <4>1. CASE o[1] = b
        <5>1. op[o] # "NONE" <=> outbox[o].seq # 0
          BY <1>1, <3>4, <4>1 DEF Durable, Recorded, Covered, Complete
        <5>2. ~outbox[o].visible
          BY <1>1, <3>4, <4>1 DEF Durable, LedgerAtomic
        <5> QED
          BY <2>2, <3>1, <3>3, <4>1, <5>1, <5>2
      <4>2. CASE o[1] # b
        BY <1>1, <2>1, <2>2, <3>1, <3>3, <4>2 DEF Durable, LedgerAtomic
      <4> QED
        BY <4>1, <4>2
    <3>9. Advances
      BY <2>2, <3>1, <3>4 DEF Advances, Undone
    <3> QED
      BY <1>3, <3>5, <3>6, <3>7, <3>8, <3>9, ExitingKnows, NextBatchKnows DEF Durable
  <2> QED
    BY <1>1, <2>3, <2>4
<1> QED
  BY <1>2, <1>3 DEF FinalizeBatch

(* A batch enters the journal with its children, or rejected without any. *)
LEMMA EnteringSteps ==
    ASSUME IInv, NEW p \in Procs, CreateIntent(p) \/ RecordRejected(p)
    PROVE  Durable' /\ \A q \in Procs : Knows(q)'
<1> DEFINE b == loc[p].job
           new == loc[p].todo
<1>1. /\ JournalType /\ Durable /\ Knows(p) /\ b \in Batches \cup {0}
      /\ loc[p] \in Locals /\ new \in SUBSET Ops
  BY TypeParts, LocalFacts DEF IInv
<1>2. UNCHANGED outbox
  BY DEF CreateIntent, RecordRejected, stores
<1>3. OpsOf(0) = {}
  BY OpsFacts DEF OpsOf
<1>4. ASSUME UNCHANGED <<batch, op>>, Exit(p) PROVE Durable' /\ \A q \in Procs : Knows(q)'
  BY <1>1, <1>2, <1>4, QuietDurable, QuietAdvances, ExitingKnows
<1>5. CASE CreateIntent(p)
  <2> DEFINE l == [loc[p] EXCEPT !.cmd = Blank.cmd]
  <2>1. new # {} /\ new \subseteq OpsOf(b) /\ b \in Batches
    BY <1>1, <1>3, <1>5 DEF CreateIntent, Knows
  <2>2. \/ Exit(p) /\ UNCHANGED journal
        \/ /\ batch[b] = "NONE" /\ batch' = [batch EXCEPT ![b] = "INTENT"]
           /\ op' = [o \in Ops |-> IF o \in new THEN "INTENT" ELSE op[o]]
           /\ Jump(p, "temp", l)
    BY <1>5 DEF CreateIntent
  <2>3. l \in Locals /\ l.rb = loc[p].rb /\ l.queue = loc[p].queue
    BY <1>1, BlankType DEF Locals
  <2> HIDE DEF l
  <2>4. CASE /\ batch[b] = "NONE" /\ batch' = [batch EXCEPT ![b] = "INTENT"]
             /\ op' = [o \in Ops |-> IF o \in new THEN "INTENT" ELSE op[o]]
             /\ Jump(p, "temp", l)
    <3>1. /\ batch'[b] = "INTENT" /\ \A x \in Batches \ {b} : batch'[x] = batch[x]
          /\ \A o \in new : op'[o] = "INTENT"
          /\ \A o \in Ops \ new : op'[o] = op[o]
      BY <1>1, <2>1, <2>4 DEF JournalType
    <3>2. \A o \in OpsOf(b) : op[o] = "NONE" /\ outbox[o].seq = 0 /\ ~outbox[o].visible
      BY <1>1, <2>1, <2>4 DEF Durable, Accepted, Recorded, LedgerAtomic, Children, OpsOf
    <3>3. \A x : IF x = b THEN Children(x)' = new
                 ELSE Children(x)' = Children(x) /\ Children(x) \cap new = {}
      <4> SUFFICES ASSUME NEW CONSTANT x
                   PROVE  IF x = b THEN Children(x)' = new
                          ELSE Children(x)' = Children(x) /\ Children(x) \cap new = {}
        OBVIOUS
      <4>1. Children(x)' = {o \in OpsOf(x) : op'[o] # "NONE"}
        BY DEF Children, OpsOf
      <4>2. \A o \in OpsOf(x) : o \in Ops /\ o[1] = x
        BY DEF OpsOf
      <4>3. \A o \in new : o \in OpsOf(b) /\ o[1] = b
        BY <2>1 DEF OpsOf
      <4>4. CASE x = b
        BY <3>1, <3>2, <4>1, <4>2, <4>3, <4>4
      <4>5. CASE x # b
        BY <3>1, <4>1, <4>2, <4>3, <4>5 DEF Children
      <4> QED
        BY <4>4, <4>5
    <3>4. JournalCoherent'
      <4> SUFFICES ASSUME NEW x \in Batches
                   PROVE  \/ \A o \in Children(x)' : op'[o] = batch'[x]
                          \/ /\ batch'[x] = "FINALIZING"
                             /\ \A o \in Children(x)' : op'[o] \in {"FINALIZING", "FORWARD_APPLIED"}
                             /\ \E o \in Children(x)' : op'[o] = "FINALIZING"
        BY DEF JournalCoherent
      <4>1. CASE x = b
        BY <3>1, <3>3, <4>1
      <4>2. CASE x # b
        <5>1. \A o \in Children(x) : op'[o] = op[o]
          BY <3>1, <3>3, <4>2 DEF Children, OpsOf
        <5> QED
          BY <1>1, <3>1, <3>3, <4>2, <5>1 DEF Durable, JournalCoherent
      <4> QED
        BY <4>1, <4>2
    <3>5. Accepted'
      BY <1>1, <2>1, <3>1, <3>3 DEF Durable, Accepted
    <3>6. \A o \in Ops : o[1] # b => op'[o] = op[o] /\ o[1] \in Batches
      BY <2>1, <3>1, OpsFacts DEF OpsOf
    <3>7. \A o \in Ops : o[1] = b => o \in OpsOf(b)
      BY DEF OpsOf
    <3>8. Recorded' /\ Covered' /\ LedgerAtomic'
      BY <1>1, <1>2, <3>1, <3>2, <3>6, <3>7
         DEF Durable, Recorded, Covered, LedgerAtomic, Complete, Written
    <3>9. Advances
      BY <1>2, <2>4, <3>1 DEF Advances, Undone
    <3>10. Stays(p)
      <4>1. ControlType
        BY TypeParts DEF IInv
      <4> QED
        BY <2>3, <2>4, <4>1, StayingForms DEF Labels, Undoing
    <3> QED
      BY <3>4, <3>5, <3>8, <3>9, <3>10, StayingKnows DEF Durable
  <2> QED
    BY <1>4, <2>2, <2>4 DEF journal
<1>6. CASE RecordRejected(p)
  <2>1. Exit(p) /\ UNCHANGED op
    BY <1>6 DEF RecordRejected
  <2>2. CASE UNCHANGED batch
    BY <1>4, <2>1, <2>2
  <2>3. CASE b \in Batches /\ batch[b] = "NONE" /\ batch' = [batch EXCEPT ![b] = "ABORTED"]
    <3>1. batch'[b] = "ABORTED" /\ \A x \in Batches \ {b} : batch'[x] = batch[x]
      BY <1>1, <2>3 DEF JournalType
    <3>2. \A o \in OpsOf(b) : op[o] = "NONE" /\ outbox[o].seq = 0 /\ ~outbox[o].visible
      BY <1>1, <2>3 DEF Durable, Accepted, Recorded, LedgerAtomic, Children, OpsOf
    <3>3. \A x : Children(x)' = Children(x)
      BY <2>1 DEF Children
    <3>4. Children(b) = {}
      BY <1>1, <2>3 DEF Durable, Accepted
    <3>5. JournalCoherent'
      <4> SUFFICES ASSUME NEW x \in Batches
                   PROVE  \/ \A o \in Children(x) : op[o] = batch'[x]
                          \/ /\ batch'[x] = "FINALIZING"
                             /\ \A o \in Children(x) : op[o] \in {"FINALIZING", "FORWARD_APPLIED"}
                             /\ \E o \in Children(x) : op[o] = "FINALIZING"
        BY <2>1, <3>3 DEF JournalCoherent
      <4> QED
        BY <1>1, <3>1, <3>4 DEF Durable, JournalCoherent
    <3>6. Accepted'
      BY <1>1, <3>1, <3>3, <3>4 DEF Durable, Accepted
    <3>7. \A o \in Ops : o[1] \in Batches /\ (o[1] = b => o \in OpsOf(b))
      BY OpsFacts DEF OpsOf
    <3>8. Recorded' /\ Covered' /\ LedgerAtomic'
      BY <1>1, <1>2, <2>1, <3>1, <3>2, <3>7
         DEF Durable, Recorded, Covered, LedgerAtomic, Complete, Written
    <3>9. Advances
      BY <1>2, <2>3, <3>1 DEF Advances, Undone
    <3> QED
      BY <2>1, <3>5, <3>6, <3>8, <3>9, ExitingKnows DEF Durable
  <2> QED
    BY <1>1, <1>6, <2>2, <2>3 DEF RecordRejected, JournalType
<1> QED
  BY <1>5, <1>6

(* A child that is done leaves its batch behind until it is the last one.  *)
LEMMA ForwardingStep ==
    ASSUME IInv, NEW p \in Procs, NEW o \in Ops, ForwardApplied(p, o)
    PROVE  Durable' /\ \A q \in Procs : Knows(q)'
<1> DEFINE b == o[1]
           legal == batch[b] = op[o] /\ "FORWARD_APPLIED" \in LEGAL_TRANSITIONS[op[o]]
<1>1. /\ JournalType /\ ControlType /\ Durable /\ b \in Batches
      /\ UNCHANGED outbox
  BY TypeParts, OpsFacts DEF IInv, ForwardApplied, stores
<1>2. CASE ForwardFails(p) /\ UNCHANGED journal
  <2>1. Durable' /\ Advances
    BY <1>1, <1>2, QuietDurable, QuietAdvances DEF journal
  <2> QED
    BY <1>1, <1>2, <2>1, FailingStays, StayingKnows, ExitingKnows
<1>3. CASE /\ legal
           /\ op' = [op EXCEPT ![o] = "FORWARD_APPLIED"]
           /\ batch' = IF IsLastChild(o) THEN [batch EXCEPT ![b] = "FORWARD_APPLIED"] ELSE batch
           /\ NextChild(p, o)
           /\ Goto(p, IF ~IsLive(p) THEN "fstep"
                      ELSE IF loc[p].todo = {o} THEN "finalize" ELSE "lapply")
  <2>1. batch[b] = "FINALIZING" /\ op[o] = "FINALIZING" /\ o \in Children(b)
    BY <1>1, <1>3, Legal DEF JournalType, Children, OpsOf
  <2>2. op'[o] = "FORWARD_APPLIED" /\ \A x \in Ops \ {o} : op'[x] = op[x]
    BY <1>1, <1>3 DEF JournalType
  <2>3. /\ \A x \in Batches \ {b} : batch'[x] = batch[x]
        /\ batch'[b] = IF IsLastChild(o) THEN "FORWARD_APPLIED" ELSE "FINALIZING"
    BY <1>1, <1>3, <2>1 DEF JournalType
  <2>4. \A x : Children(x)' = Children(x)
    BY <2>1, <2>2 DEF Children, OpsOf
  <2>5. \A x \in Ops : (op'[x] # "NONE" <=> op[x] # "NONE") /\ x[1] \in Batches
    BY <2>1, <2>2, OpsFacts
  <2>6. JournalCoherent'
    <3> SUFFICES ASSUME NEW x \in Batches
                 PROVE  \/ \A y \in Children(x) : op'[y] = batch'[x]
                        \/ /\ batch'[x] = "FINALIZING"
                           /\ \A y \in Children(x) : op'[y] \in {"FINALIZING", "FORWARD_APPLIED"}
                           /\ \E y \in Children(x) : op'[y] = "FINALIZING"
      BY <2>4 DEF JournalCoherent
    <3>1. \A y \in Children(x) : y \in Ops /\ y[1] = x
      BY DEF Children, OpsOf
    <3>2. CASE x # b
      <4>1. \A y \in Children(x) : op'[y] = op[y]
        BY <2>2, <3>1, <3>2
      <4> QED
        BY <1>1, <2>3, <3>2, <4>1 DEF Durable, JournalCoherent
    <3>3. CASE x = b
      <4>1. \A y \in Children(b) : op[y] \in {"FINALIZING", "FORWARD_APPLIED"}
        BY <1>1, <2>1 DEF Durable, JournalCoherent
      <4>2. CASE IsLastChild(o)
        BY <2>2, <2>3, <3>1, <3>3, <4>2 DEF IsLastChild
      <4>3. CASE ~IsLastChild(o)
        <5>1. PICK y \in Children(b) \ {o} : op[y] # "FORWARD_APPLIED"
          BY <4>3 DEF IsLastChild
        <5>2. op'[y] = "FINALIZING"
          BY <2>2, <3>1, <3>3, <4>1, <5>1
        <5>3. \A z \in Children(b) : op'[z] \in {"FINALIZING", "FORWARD_APPLIED"}
          BY <2>2, <3>1, <3>3, <4>1
        <5> QED
          BY <2>3, <3>3, <4>3, <5>1, <5>2, <5>3
      <4> QED
        BY <4>2, <4>3
    <3> QED
      BY <3>2, <3>3
  <2>7. Accepted'
    BY <1>1, <2>1, <2>3, <2>4 DEF Durable, Accepted
  <2>8. Recorded' /\ Covered'
    BY <1>1, <2>1, <2>3, <2>5 DEF Durable, Recorded, Covered, Written, Complete
  <2>9. LedgerAtomic'
    BY <1>1, <2>1, <2>3, <2>5 DEF Durable, LedgerAtomic
  <2>10. Advances
    BY <1>1, <2>1, <2>3 DEF Advances, Undone
  <2>11. Stays(p)
    <3>1. pc'[p] \in {"fstep", "finalize", "lapply"} /\ \A q \in Procs \ {p} : pc'[q] = pc[q]
      BY <1>1, <1>3 DEF Goto, ControlType
    <3> QED
      BY <1>1, <1>3, <3>1, StayingFields DEF Stays, Alone, Undoing
  <2> QED
    BY <2>6, <2>7, <2>8, <2>9, <2>10, <2>11, StayingKnows DEF Durable
<1> QED
  BY <1>2, <1>3 DEF ForwardApplied

----------------------------------------------------------------------------
(* The inductive invariant, and what follows from it *)

(* A new Space has an empty journal and no request. *)
LEMMA InvInit == Init => IInv
<1> SUFFICES ASSUME Init PROVE IInv
  OBVIOUS
<1>1. \A b : Children(b) = {}
  BY DEF Init, Children, OpsOf
<1>2. \A o \in Ops : /\ op[o] = "NONE" /\ outbox[o].seq = 0 /\ ~outbox[o].visible
                   /\ batch[o[1]] = "NONE"
  BY OpsFacts DEF Init, NoEvent
<1>3. Durable
  BY <1>1, <1>2 DEF Init, Durable, JournalCoherent, Accepted, Recorded, Covered, LedgerAtomic
<1>4. \A p \in Procs : pc[p] = "idle" /\ loc[p].rb = 0 /\ loc[p].queue = {}
  BY DEF Init, Blank
<1> QED
  BY <1>3, <1>4, InitTypes DEF IInv, Knows, Undoing

(* A step of a request keeps the durable part and everybody's knowledge. *)
LEMMA InvProc ==
    ASSUME IInv, NEW p \in Procs, ProcStep(p)
    PROVE  Durable' /\ \A q \in Procs : Knows(q)'
<1>1. TypeOK /\ Durable
  BY DEF IInv
<1>2. ASSUME Stays(p) \/ Exit(p), UNCHANGED <<batch, op, outbox>>
      PROVE  Durable' /\ \A q \in Procs : Knows(q)'
  BY <1>1, <1>2, QuietAdvances, QuietDurable, StayingKnows, ExitingKnows
<1>3. CASE \/ Load(p) \/ Rescan(p) \/ Reload(p) \/ AssertLedger(p) \/ StartForward(p)
           \/ EndForward(p) \/ LoadInverse(p)
           \/ \E o \in Ops : \/ VerifyChild(p, o) \/ EndChild(p, o)
                            \/ \E k \in 1..5 : FinishStep(p, o, k) \/ MarkStep(p, o, k)
  BY <1>1, <1>2, <1>3, ForwardStays
<1>4. CASE EndUndo(p) \/ \E o \in Ops, k \in 1..5 : UndoStep(p, o, k) \/ MarkUndone(p, o, k)
  BY <1>1, <1>2, <1>4, InverseStays
<1>5. CASE \E o \in Ops : \/ WriteStage(p, o) \/ PublishStage(p, o)
                         \/ \E k \in 1..5 : ApplyForward(p, o, k) \/ MarkApplied(p, o, k)
  BY <1>1, <1>2, <1>5, LiveStays
<1>6. CASE \/ Scan(p) \/ CollectOrphans(p) \/ CollectUndone(p)
           \/ Compile(p) \/ SnapshotStores(p) \/ EndCompile(p)
           \/ \E o \in Ops : CompileCommand(p, o)
  BY <1>1, <1>6, LookingKnows, QuietDurable
<1>7. CASE \/ AbortBatch(p) \/ StartInverse(p) \/ EndInverse(p) \/ FailManual(p)
           \/ MarkStaged(p) \/ MarkFinalizing(p)
  BY <1>7, MovingSteps
<1>8. CASE ReplayBusiness(p) \/ CommitBusiness(p)
  BY <1>8, WritingSteps
<1>9. CASE UndoBusiness(p) \/ FinalizeBatch(p)
  BY <1>9, UndoingStep, FinalizingStep
<1>10. CASE CreateIntent(p) \/ RecordRejected(p)
  BY <1>10, EnteringSteps
<1>11. CASE \E o \in Ops : ForwardApplied(p, o)
  BY <1>11, ForwardingStep
<1> QED
  BY <1>3, <1>4, <1>5, <1>6, <1>7, <1>8, <1>9, <1>10, <1>11 DEF ProcStep

(* Every step of a request, of its recovery and of the environment. *)
LEMMA InvNext == IInv /\ [Next]_vars => IInv'
<1> SUFFICES ASSUME IInv, [Next]_vars PROVE IInv'
  OBVIOUS
<1>1. TypeOK /\ Durable /\ TypeOK'
  BY NextTypes DEF IInv
<1>2. SUFFICES Durable' /\ \A q \in Procs : Knows(q)'
  BY <1>1 DEF IInv
<1>3. ASSUME NEW p \in Procs, ProcStep(p) PROVE Durable' /\ \A q \in Procs : Knows(q)'
  BY <1>3, InvProc
<1>4. ASSUME NEW p \in Procs,
             \/ Fault(p)
             \/ \E b \in Batches \cup {0}, m \in {"SHARED", "EXCLUSIVE"} : Begin(p, b, m)
      PROVE  Durable' /\ \A q \in Procs : Knows(q)'
  BY <1>1, <1>4, LookingKnows, QuietDurable
<1>5. CASE Crash \/ \E o \in Ops, side \in Sides : LoseImage(o, side)
  BY <1>1, <1>5, EnvironmentKnows, QuietDurable
<1>6. CASE UNCHANGED vars
  <2>1. UNCHANGED <<batch, op, outbox, pc, loc>>
    BY <1>6 DEF vars, journal, stores, control
  <2>2. \A q \in Procs : Knows(q)'
    BY <2>1 DEF IInv, Knows, OpsOf
  <2> QED
    BY <1>1, <2>1, <2>2, QuietDurable
<1> QED
  BY <1>3, <1>4, <1>5, <1>6 DEF Next

(* The inductive invariant holds in every behaviour. *)
THEOREM Invariance == Spec => []IInv
BY InvInit, InvNext, PTL DEF Spec

(* Clients see the events of a batch exactly when it is FINALIZED, all of  *)
(* them and never one of a batch that was dropped: finalize_batch and the  *)
(* ledger writes of commit, replay and compensation agree, wherever they   *)
(* are interrupted and however requests under SHARED leases interleave.    *)
THEOREM LedgerIsAtomic == Spec => []LedgerAtomic
<1>1. IInv => LedgerAtomic
  BY DEF IInv, Durable
<1> QED
  BY <1>1, Invariance, PTL

(* Recovery may dispatch on the state of a batch alone: the children agree *)
(* with it, save that some may be ahead while it is FINALIZING.            *)
THEOREM JournalIsCoherent == Spec => []JournalCoherent
<1>1. IInv => JournalCoherent
  BY DEF IInv, Durable
<1> QED
  BY <1>1, Invariance, PTL

----------------------------------------------------------------------------
(* Refinement: every step of a request, of its recovery or of a crash is a *)
(* step of AtomicBatch or changes nothing that it speaks of.               *)

(* A step of the abstract specification or a stutter. *)
Allowed == [Abstract!ANext]_(Abstract!abstract)

(* What leaves the three abstract variables alone is allowed. *)
LEMMA Stutter ==
    UNCHANGED AcceptedOps /\ UNCHANGED Outcomes /\ UNCHANGED PublishedOps => Allowed
BY DEF Allowed, Abstract!abstract

(* They are read off the journal states and the ledger only. *)
LEMMA QuietStutters == UNCHANGED <<batch, op, outbox>> => Allowed
<1> SUFFICES ASSUME UNCHANGED <<batch, op, outbox>> PROVE Allowed
  OBVIOUS
<1>1. UNCHANGED AcceptedOps /\ UNCHANGED Outcomes /\ UNCHANGED PublishedOps
  BY DEF AcceptedOps, Outcomes, PublishedOps, Children, OpsOf
<1> QED
  BY <1>1, Stutter

(* A batch that moves between states of one outcome. *)
LEMMA MoveStutters ==
    ASSUME JournalType, NEW b \in Batches, NEW s \in States \ {"NONE"}, MoveAll(b, s),
           Outcome(batch[b]) = Outcome(s), UNCHANGED PublishedOps
    PROVE  Allowed
<1>1. UNCHANGED AcceptedOps
  BY MoveFacts DEF AcceptedOps
<1>2. \A x \in Batches : Outcome(batch'[x]) = Outcome(batch[x])
  BY MoveFacts
<1>3. UNCHANGED Outcomes
  BY <1>2 DEF Outcomes
<1> QED
  BY <1>1, <1>3, Stutter

(* An open batch that reaches an outcome. *)
LEMMA MoveSettles ==
    ASSUME JournalType, NEW b \in Batches, NEW s \in States \ {"NONE"}, MoveAll(b, s),
           Outcome(batch[b]) = "open"
    PROVE  UNCHANGED AcceptedOps /\ Abstract!Settle(b, Outcome(s))
<1>1. UNCHANGED AcceptedOps
  BY MoveFacts DEF AcceptedOps
<1>2. \A x \in Batches : Outcome(batch'[x]) = IF x = b THEN Outcome(s) ELSE Outcome(batch[x])
  BY MoveFacts
<1>3. Outcomes' = [Outcomes EXCEPT ![b] = Outcome(s)] /\ Outcomes[b] = "open"
  BY <1>2 DEF Outcomes
<1> QED
  BY <1>1, <1>3 DEF Abstract!Settle

----------------------------------------------------------------------------
(* The steps that write the journal or the ledger *)

(* A batch is dropped, or handed to the operator, or moves on undecided.   *)
LEMMA MovingRefines ==
    ASSUME IInv, NEW p \in Procs,
           \/ AbortBatch(p) \/ StartInverse(p) \/ EndInverse(p) \/ FailManual(p)
           \/ MarkStaged(p) \/ MarkFinalizing(p)
    PROVE  Allowed
<1>1. /\ JournalType /\ Durable /\ Knows(p)
      /\ loc[p].rb \in Batches \cup {0} /\ Cur(p) \in Batches \cup {0}
  BY TypeParts, LocalFacts DEF IInv, Cur
<1>2. UNCHANGED outbox /\ UNCHANGED PublishedOps
  BY DEF AbortBatch, StartInverse, EndInverse, FailManual, MarkStaged, MarkFinalizing, stores,
         PublishedOps
<1>3. ASSUME UNCHANGED journal PROVE Allowed
  BY <1>2, <1>3, QuietStutters DEF journal
<1>4. ASSUME NEW s, MoveAll(0, s) PROVE Allowed
  BY <1>1, <1>2, <1>4, MoveNothing, QuietStutters
<1>5. ASSUME NEW b \in Batches, NEW s \in States \ {"NONE"}, MoveAll(b, s),
             Outcome(batch[b]) = Outcome(s)
      PROVE  Allowed
  BY <1>1, <1>2, <1>5, MoveStutters
<1>6. ASSUME NEW b \in Batches, MoveAll(b, "ABORTED") \/ MoveAll(b, "COMPENSATED"),
             Outcome(batch[b]) = "open"
      PROVE  Allowed
  <2>1. UNCHANGED AcceptedOps /\ Abstract!Settle(b, "dropped")
    BY <1>1, <1>6, MoveSettles DEF Outcome, States
  <2>2. Abstract!Drop(b)
    BY <1>2, <2>1 DEF Abstract!Drop
  <2> QED
    BY <2>2 DEF Allowed, Abstract!ANext
<1>7. ASSUME NEW b \in Batches, MoveAll(b, "FAILED_MANUAL"), batch[b] # "NONE",
             Outcome(batch[b]) = "open"
      PROVE  Allowed
  <2>1. UNCHANGED AcceptedOps /\ Abstract!Settle(b, "stuck")
    BY <1>1, <1>7, MoveSettles DEF Outcome, States
  <2>2. AcceptedOps[b] # {}
    BY <1>1, <1>7 DEF Durable, Accepted, AcceptedOps, Outcome
  <2>3. Abstract!GetStuck(b)
    BY <1>2, <2>1, <2>2 DEF Abstract!GetStuck
  <2> QED
    BY <2>3 DEF Allowed, Abstract!ANext
<1>8. CASE AbortBatch(p)
  <2>1. CASE CanSet(loc[p].rb, "ABORTED") /\ MoveAll(loc[p].rb, "ABORTED")
    <3>1. CASE loc[p].rb = 0
      BY <1>4, <2>1, <3>1
    <3>2. CASE loc[p].rb \in Batches
      <4>1. batch[loc[p].rb] \in {"ABORTED", "INTENT", "STAGED"}
        BY <1>1, <2>1, <3>2, Legal DEF CanSet, JournalType
      <4>2. \/ Outcome(batch[loc[p].rb]) = Outcome("ABORTED")
            \/ Outcome(batch[loc[p].rb]) = "open"
        BY <4>1 DEF Outcome
      <4> QED
        BY <1>5, <1>6, <2>1, <3>2, <4>2 DEF States
    <3> QED
      BY <1>1, <3>1, <3>2
  <2> QED
    BY <1>3, <1>8, <2>1 DEF AbortBatch
<1>9. CASE StartInverse(p)
  <2>1. CASE CanSet(loc[p].rb, "COMPENSATING") /\ MoveAll(loc[p].rb, "COMPENSATING")
    <3>1. CASE loc[p].rb = 0
      BY <1>4, <2>1, <3>1
    <3>2. CASE loc[p].rb \in Batches
      <4>1. batch[loc[p].rb] \in {"COMPENSATING", "DB_COMMITTED", "FINALIZING",
                                   "FORWARD_APPLIED"}
        BY <1>1, <2>1, <3>2, Legal DEF CanSet, JournalType
      <4>2. Outcome(batch[loc[p].rb]) = Outcome("COMPENSATING")
        BY <4>1 DEF Outcome
      <4> QED
        BY <1>5, <2>1, <3>2, <4>2 DEF States
    <3> QED
      BY <1>1, <3>1, <3>2
  <2> QED
    BY <1>3, <1>9, <2>1 DEF StartInverse
<1>10. CASE EndInverse(p)
  <2>1. CASE CanSet(loc[p].rb, "COMPENSATED") /\ MoveAll(loc[p].rb, "COMPENSATED")
    <3>1. CASE loc[p].rb = 0
      BY <1>4, <2>1, <3>1
    <3>2. CASE loc[p].rb \in Batches
      <4>1. batch[loc[p].rb] \in {"COMPENSATED", "COMPENSATING"}
        BY <1>1, <2>1, <3>2, Legal DEF CanSet, JournalType
      <4>2. \/ Outcome(batch[loc[p].rb]) = Outcome("COMPENSATED")
            \/ Outcome(batch[loc[p].rb]) = "open"
        BY <4>1 DEF Outcome
      <4> QED
        BY <1>5, <1>6, <2>1, <3>2, <4>2 DEF States
    <3> QED
      BY <1>1, <3>1, <3>2
  <2> QED
    BY <1>3, <1>10, <2>1 DEF EndInverse
<1>11. CASE FailManual(p)
  <2>1. CASE MoveAll(loc[p].rb, "FAILED_MANUAL") /\ batch[loc[p].rb] \notin Terminal
    <3>1. CASE loc[p].rb = 0
      BY <1>4, <2>1, <3>1
    <3>2. CASE loc[p].rb \in Batches
      <4>1. batch[loc[p].rb] \notin {"NONE", "FINALIZED", "ABORTED", "COMPENSATED"}
        BY <1>1, <2>1, <3>2, OpsFacts DEF Knows, Terminal
      <4>2. \/ Outcome(batch[loc[p].rb]) = Outcome("FAILED_MANUAL")
            \/ Outcome(batch[loc[p].rb]) = "open"
        BY <4>1 DEF Outcome
      <4> QED
        BY <1>5, <1>7, <2>1, <3>2, <4>1, <4>2 DEF States
    <3> QED
      BY <1>1, <3>1, <3>2
  <2> QED
    BY <1>3, <1>11, <2>1 DEF FailManual
<1>12. CASE MarkStaged(p)
  <2>1. CASE batch[Cur(p)] = "INTENT" /\ MoveAll(Cur(p), "STAGED")
    <3>1. CASE Cur(p) = 0
      BY <1>4, <2>1, <3>1
    <3>2. CASE Cur(p) \in Batches
      BY <1>5, <2>1, <3>2 DEF Outcome, States
    <3> QED
      BY <1>1, <3>1, <3>2
  <2> QED
    BY <1>3, <1>12, <2>1 DEF MarkStaged
<1>13. CASE MarkFinalizing(p)
  <2>1. CASE AllIn(Cur(p), "DB_COMMITTED") /\ MoveAll(Cur(p), "FINALIZING")
    <3>1. CASE Cur(p) = 0
      BY <1>4, <2>1, <3>1
    <3>2. CASE Cur(p) \in Batches
      BY <1>5, <2>1, <3>2 DEF AllIn, Outcome, States
    <3> QED
      BY <1>1, <3>1, <3>2
  <2> QED
    BY <1>3, <1>13, <2>1 DEF MarkFinalizing
<1> QED
  BY <1>8, <1>9, <1>10, <1>11, <1>12, <1>13

(* Commit, replay and undo write events that nobody sees. *)
LEMMA WritingRefines ==
    ASSUME IInv, NEW p \in Procs, ReplayBusiness(p) \/ CommitBusiness(p) \/ UndoBusiness(p)
    PROVE  Allowed
<1>1. /\ JournalType /\ StoreType /\ Durable /\ Knows(p)
      /\ loc[p].rb \in Batches \cup {0} /\ loc[p].job \in Batches \cup {0}
  BY TypeParts, LocalFacts DEF IInv
<1>2. ASSUME UNCHANGED <<journal, outbox>> PROVE Allowed
  BY <1>2, QuietStutters DEF journal
<1>3. ASSUME NEW b \in Batches \cup {0}, NEW decode, AllIn(b, "STAGED"),
             RecordEvents(b, decode), MoveAll(b, "DB_COMMITTED")
      PROVE  Allowed
  <2>1. \A o \in Children(b) : o \in Ops /\ o[1] = b /\ b \in Batches /\ ~outbox[o].visible
    BY <1>1, <1>3, OpsFacts DEF Children, OpsOf, AllIn, Durable, LedgerAtomic
  <2>2. \A o \in Ops : outbox'[o].visible = outbox[o].visible
    <3>1. \A o \in Ops : outbox[o].visible \in BOOLEAN
      BY <1>1 DEF StoreType, Events
    <3> QED
      BY <1>3, <2>1, <3>1 DEF RecordEvents
  <2>3. UNCHANGED PublishedOps
    BY <2>2 DEF PublishedOps
  <2>4. CASE b = 0
    <3>1. UNCHANGED <<batch, op>>
      BY <1>1, <1>3, <2>4, MoveNothing
    <3>2. UNCHANGED AcceptedOps /\ UNCHANGED Outcomes
      BY <3>1 DEF AcceptedOps, Outcomes, Children, OpsOf
    <3> QED
      BY <2>3, <3>2, Stutter
  <2>5. CASE b \in Batches
    BY <1>1, <1>3, <2>3, <2>5, MoveStutters DEF AllIn, Outcome, States
  <2> QED
    BY <2>4, <2>5
<1>4. CASE ReplayBusiness(p)
  BY <1>1, <1>2, <1>3, <1>4 DEF ReplayBusiness
<1>5. CASE CommitBusiness(p)
  BY <1>1, <1>2, <1>3, <1>5 DEF CommitBusiness
<1>6. CASE UndoBusiness(p)
  <2> DEFINE b == loc[p].rb
  <2>1. b # 0 => batch[b] \in Undone
    BY <1>1, <1>6 DEF UndoBusiness, Knows, Undoing
  <2>2. \A o \in Ops : o[1] = b => ~outbox[o].visible
    BY <1>1, <2>1, OpsFacts DEF Undone, Durable, LedgerAtomic
  <2>3. \A o \in Ops : outbox'[o].visible <=> outbox[o].visible
    BY <1>1, <1>6, <2>2 DEF UndoBusiness, DropEvents, NoEvent
  <2>4. UNCHANGED PublishedOps
    BY <2>3 DEF PublishedOps
  <2>5. UNCHANGED AcceptedOps /\ UNCHANGED Outcomes
    BY <1>6 DEF UndoBusiness, journal, AcceptedOps, Outcomes, Children, OpsOf
  <2> QED
    BY <2>4, <2>5, Stutter
<1> QED
  BY <1>4, <1>5, <1>6

(* The batch is published in one step. *)
LEMMA FinalizingRefines ==
    ASSUME IInv, NEW p \in Procs, FinalizeBatch(p)
    PROVE  Allowed
<1> DEFINE b == Cur(p)
<1>1. JournalType /\ StoreType /\ Durable /\ b \in Batches \cup {0}
  BY TypeParts, LocalFacts DEF IInv, Cur
<1>2. CASE UNCHANGED <<journal, outbox>>
  BY <1>2, QuietStutters DEF journal
<1>3. CASE /\ CanFinalize(b) /\ MoveAll(b, "FINALIZED")
           /\ outbox' = [o \in Ops |-> IF o[1] = b /\ outbox[o].seq # 0
                                       THEN [outbox[o] EXCEPT !.visible = TRUE]
                                       ELSE outbox[o]]
  <2>1. \A o \in Ops : outbox'[o].visible <=> outbox[o].visible \/ (o[1] = b /\ outbox[o].seq # 0)
    <3>1. \A o \in Ops : outbox[o] \in Events
      BY <1>1 DEF StoreType
    <3> QED
      BY <1>3, <3>1 DEF Events
  <2>2. CASE b = 0
    <3>1. UNCHANGED <<batch, op>>
      BY <1>1, <1>3, <2>2, MoveNothing
    <3>2. UNCHANGED AcceptedOps /\ UNCHANGED Outcomes
      BY <3>1 DEF AcceptedOps, Outcomes, Children, OpsOf
    <3>3. UNCHANGED PublishedOps
      BY <2>1, <2>2, OpsFacts DEF PublishedOps
    <3> QED
      BY <3>2, <3>3, Stutter
  <2>3. CASE b \in Batches
    <3>1. batch[b] = "FORWARD_APPLIED"
      BY <1>3 DEF CanFinalize, AllIn
    <3>2. UNCHANGED AcceptedOps /\ Abstract!Settle(b, "committed")
      BY <1>1, <1>3, <2>3, <3>1, MoveSettles DEF Outcome, States
    <3>3. \A o \in Ops : o[1] = b /\ outbox[o].seq # 0 <=> o \in Children(b)
      BY <1>1, <2>3, <3>1 DEF Durable, Recorded, Covered, Complete, Children, OpsOf
    <3>4. Children(b) \subseteq Ops
      BY DEF Children, OpsOf
    <3>5. PublishedOps' = PublishedOps \cup Children(b)
      BY <2>1, <3>3, <3>4 DEF PublishedOps
    <3>6. AcceptedOps[b] = Children(b) /\ AcceptedOps[b] # {}
      BY <1>1, <2>3, <3>1 DEF AcceptedOps, Durable, Accepted
    <3>7. Abstract!Publish(b)
      BY <3>2, <3>5, <3>6 DEF Abstract!Publish
    <3> QED
      BY <2>3, <3>7 DEF Allowed, Abstract!ANext
  <2> QED
    BY <1>1, <2>2, <2>3
<1> QED
  BY <1>2, <1>3 DEF FinalizeBatch

(* A batch is accepted with the commands that were admitted, or rejected.  *)
LEMMA EnteringRefines ==
    ASSUME IInv, NEW p \in Procs, CreateIntent(p) \/ RecordRejected(p)
    PROVE  Allowed
<1> DEFINE b == loc[p].job
           new == loc[p].todo
<1>1. /\ JournalType /\ Durable /\ Knows(p) /\ b \in Batches \cup {0}
  BY TypeParts, LocalFacts DEF IInv
<1>2. UNCHANGED outbox /\ UNCHANGED PublishedOps
  BY DEF CreateIntent, RecordRejected, stores, PublishedOps
<1>3. ASSUME UNCHANGED <<batch, op>> PROVE Allowed
  BY <1>2, <1>3, QuietStutters
<1>4. ASSUME b \in Batches, batch[b] = "NONE", NEW s \in {"INTENT", "ABORTED"},
             batch' = [batch EXCEPT ![b] = s]
      PROVE  /\ Outcomes[b] = "open"
             /\ Outcomes' = IF s = "INTENT" THEN Outcomes
                            ELSE [Outcomes EXCEPT ![b] = "dropped"]
  <2>1. batch'[b] = s /\ \A x \in Batches \ {b} : batch'[x] = batch[x]
    BY <1>1, <1>4 DEF JournalType
  <2>2. \A x \in Batches : Outcome(batch'[x]) =
           IF x = b THEN IF s = "INTENT" THEN "open" ELSE "dropped" ELSE Outcome(batch[x])
    BY <2>1 DEF Outcome
  <2>3. Outcome(batch[b]) = "open"
    BY <1>4 DEF Outcome
  <2> QED
    BY <1>4, <2>2, <2>3 DEF Outcomes
<1>5. CASE CreateIntent(p)
  <2>1. new # {} /\ new \subseteq OpsOf(b) /\ b \in Batches
    BY <1>1, <1>5, OpsFacts DEF CreateIntent, Knows, OpsOf
  <2>2. CASE /\ batch[b] = "NONE" /\ batch' = [batch EXCEPT ![b] = "INTENT"]
             /\ op' = [o \in Ops |-> IF o \in new THEN "INTENT" ELSE op[o]]
    <3>1. Outcomes[b] = "open" /\ UNCHANGED Outcomes
      BY <1>4, <2>1, <2>2
    <3>2. Children(b) = {}
      BY <1>1, <2>1, <2>2 DEF Durable, Accepted
    <3>3. \A o \in Ops : op'[o] # "NONE" <=> op[o] # "NONE" \/ o \in new
      BY <2>2
    <3>4. \A x \in Batches : {o \in OpsOf(x) : op'[o] # "NONE"}
                             = IF x = b THEN new ELSE {o \in OpsOf(x) : op[o] # "NONE"}
      BY <2>1, <3>2, <3>3 DEF Children, OpsOf
    <3>5. AcceptedOps' = [AcceptedOps EXCEPT ![b] = new] /\ AcceptedOps[b] = {}
      BY <2>1, <3>2, <3>4 DEF AcceptedOps, Children, OpsOf
    <3>6. Abstract!Accept(b, new)
      BY <1>2, <2>1, <3>1, <3>5 DEF Abstract!Accept
    <3> QED
      BY <2>1, <3>6 DEF Allowed, Abstract!ANext
  <2>3. CASE UNCHANGED journal
    BY <1>3, <2>3 DEF journal
  <2> QED
    BY <1>5, <2>2, <2>3 DEF CreateIntent
<1>6. CASE RecordRejected(p)
  <2>1. UNCHANGED op
    BY <1>6 DEF RecordRejected
  <2>2. CASE UNCHANGED batch
    BY <1>3, <2>1, <2>2
  <2>3. CASE b \in Batches /\ batch[b] = "NONE" /\ batch' = [batch EXCEPT ![b] = "ABORTED"]
    <3>1. Abstract!Settle(b, "dropped")
      BY <1>4, <2>3 DEF Abstract!Settle
    <3>2. UNCHANGED AcceptedOps
      BY <2>1 DEF AcceptedOps, Children, OpsOf
    <3>3. Abstract!Drop(b)
      BY <1>2, <3>1, <3>2 DEF Abstract!Drop
    <3> QED
      BY <2>3, <3>3 DEF Allowed, Abstract!ANext
  <2> QED
    BY <1>1, <1>6, <2>2, <2>3 DEF RecordRejected, JournalType
<1> QED
  BY <1>5, <1>6

(* Children that are done decide nothing yet. *)
LEMMA ForwardingRefines ==
    ASSUME IInv, NEW p \in Procs, NEW o \in Ops, ForwardApplied(p, o)
    PROVE  Allowed
<1> DEFINE b == o[1]
<1>1. JournalType /\ b \in Batches /\ UNCHANGED outbox
  BY TypeParts, OpsFacts DEF IInv, ForwardApplied, stores
<1>2. CASE UNCHANGED journal
  BY <1>1, <1>2, QuietStutters DEF journal
<1>3. CASE /\ batch[b] = op[o] /\ "FORWARD_APPLIED" \in LEGAL_TRANSITIONS[op[o]]
           /\ op' = [op EXCEPT ![o] = "FORWARD_APPLIED"]
           /\ batch' = IF IsLastChild(o) THEN [batch EXCEPT ![b] = "FORWARD_APPLIED"] ELSE batch
  <2>1. batch[b] = "FINALIZING" /\ op[o] = "FINALIZING"
    BY <1>1, <1>3, Legal DEF JournalType
  <2>2. \A x \in Ops : op'[x] # "NONE" <=> op[x] # "NONE"
    BY <1>1, <1>3, <2>1 DEF JournalType
  <2>3. UNCHANGED AcceptedOps
    BY <2>2 DEF AcceptedOps, Children, OpsOf
  <2>4. \A x \in Batches : Outcome(batch'[x]) = Outcome(batch[x])
    BY <1>1, <1>3, <2>1 DEF Outcome, JournalType
  <2>5. UNCHANGED Outcomes
    BY <2>4 DEF Outcomes
  <2>6. UNCHANGED PublishedOps
    BY <1>1 DEF PublishedOps
  <2> QED
    BY <2>3, <2>5, <2>6, Stutter
<1> QED
  BY <1>2, <1>3 DEF ForwardApplied

----------------------------------------------------------------------------
(* The refinement *)

(* An empty journal means that nothing has been accepted or published. *)
LEMMA InitRefines == Init => Abstract!AInit
<1> SUFFICES ASSUME Init PROVE Abstract!AInit
  OBVIOUS
<1>1. AcceptedOps = [b \in Batches |-> {}]
  BY DEF Init, AcceptedOps, Children, OpsOf
<1>2. Outcomes = [b \in Batches |-> "open"]
  BY DEF Init, Outcomes, Outcome
<1>3. PublishedOps = {}
  BY DEF Init, PublishedOps, NoEvent
<1> QED
  BY <1>1, <1>2, <1>3 DEF Abstract!AInit

(* Every step maps to a step of AtomicBatch or to a stutter. *)
LEMMA NextRefines == IInv /\ [Next]_vars => Allowed
<1> SUFFICES ASSUME IInv, [Next]_vars PROVE Allowed
  OBVIOUS
<1>1. TypeOK
  BY DEF IInv
<1>2. ASSUME NEW p \in Procs, ProcStep(p) PROVE Allowed
  <2>1. CASE \/ Load(p) \/ Rescan(p) \/ Reload(p) \/ AssertLedger(p) \/ StartForward(p)
             \/ EndForward(p) \/ LoadInverse(p)
             \/ \E o \in Ops : \/ VerifyChild(p, o) \/ EndChild(p, o)
                              \/ \E k \in 1..5 : FinishStep(p, o, k) \/ MarkStep(p, o, k)
    BY <1>1, <2>1, ForwardStays, QuietStutters
  <2>2. CASE EndUndo(p) \/ \E o \in Ops, k \in 1..5 : UndoStep(p, o, k) \/ MarkUndone(p, o, k)
    BY <1>1, <2>2, InverseStays, QuietStutters
  <2>3. CASE \E o \in Ops : \/ WriteStage(p, o) \/ PublishStage(p, o)
                           \/ \E k \in 1..5 : ApplyForward(p, o, k) \/ MarkApplied(p, o, k)
    BY <1>1, <2>3, LiveStays, QuietStutters
  <2>4. CASE \/ Scan(p) \/ CollectOrphans(p) \/ CollectUndone(p)
             \/ Compile(p) \/ SnapshotStores(p) \/ EndCompile(p)
             \/ \E o \in Ops : CompileCommand(p, o)
    BY <2>4, LookingKnows, QuietStutters
  <2>5. CASE \/ AbortBatch(p) \/ StartInverse(p) \/ EndInverse(p) \/ FailManual(p)
             \/ MarkStaged(p) \/ MarkFinalizing(p)
    BY <2>5, MovingRefines
  <2>6. CASE ReplayBusiness(p) \/ CommitBusiness(p) \/ UndoBusiness(p)
    BY <2>6, WritingRefines
  <2>7. CASE FinalizeBatch(p)
    BY <2>7, FinalizingRefines
  <2>8. CASE CreateIntent(p) \/ RecordRejected(p)
    BY <2>8, EnteringRefines
  <2>9. CASE \E o \in Ops : ForwardApplied(p, o)
    BY <2>9, ForwardingRefines
  <2> QED
    BY <1>2, <2>1, <2>2, <2>3, <2>4, <2>5, <2>6, <2>7, <2>8, <2>9 DEF ProcStep
<1>3. ASSUME NEW p \in Procs,
             \/ Fault(p)
             \/ \E b \in Batches \cup {0}, m \in {"SHARED", "EXCLUSIVE"} : Begin(p, b, m)
      PROVE  Allowed
  BY <1>3, LookingKnows, QuietStutters
<1>4. CASE Crash \/ \E o \in Ops, side \in Sides : LoseImage(o, side)
  BY <1>4, EnvironmentKnows, QuietStutters
<1>5. CASE UNCHANGED vars
  BY <1>5, QuietStutters DEF vars, journal, stores
<1> QED
  BY <1>2, <1>3, <1>4, <1>5 DEF Next

(* Whatever leases its requests hold, wherever they fail and however they  *)
(* interleave: a batch is published whole, in one step and for good, or it *)
(* is never seen.                                                          *)
THEOREM Refinement == Spec => ImplementsAtomicBatch
BY InitRefines, NextRefines, Invariance, PTL
   DEF Spec, ImplementsAtomicBatch, Abstract!ASpec, Allowed
=============================================================================
