---------------------- MODULE DocumentGenerationsProofs ---------------------
(***************************************************************************)
(* Theorems about DocumentGenerations, for any tree of documents, any       *)
(* commands and any number of crashes, refusals and unanswered writes.      *)
(***************************************************************************)
EXTENDS DocumentGenerations, TLAPS

----------------------------------------------------------------------------
\* The type invariant and what it needs to know of a worker on its way.

\* The steps after the raw file, and those that have a generation of their own.
StagedPcs == {"stage", "clear", "batch", "clearData", "clearFlag", "embedPut", "embed",
              "degrade", "restore", "activate"}
GenPcs == (StagedPcs \ {"stage"}) \cup {"prune", "pruneChunks", "pruneRaw"}

\* A worker at step l with job j, for a command of kind k.
StepTyped(l, j, k) ==
    /\ l \in IngestPcs => k \in Ingests /\ j.of \in Content
    /\ l \in TreePcs => k \in {"delete", "batchDelete"}
    /\ l \in BasePcs => k = "deleteBase"
    /\ l \in IngestPcs \ {"start", "raw"} => j.copy.raw \in Versions /\ j.copy.of \in Content
    /\ l \in StagedPcs => j.copy.sv + 1 <= MaxGen
    /\ l \in GenPcs => j.gen \in 1 .. MaxGen
    /\ l = "batch" => j.next <= Batches
    /\ l \in {"cleanMappings", "cleanRaw"} => j.todo # {}

StepsTyped == \A o \in Op : StepTyped(pc[o], job[o], command[o].kind)

Typed == TypeOK /\ StepsTyped

USE DEF Pcs, IngestPcs, TreePcs, BasePcs, StagedPcs, GenPcs, Ingests

\* The constants a bound is compared with.
LEMMA BoundsAreNumbers ==
    /\ MaxGen \in Nat \ {0} /\ Batches \in Nat \ {0} /\ MaxEvents \in Nat
    /\ Embeds \in BOOLEAN
  BY GenerationsAssumption

\* A column of sets keeps its type when one document's set loses elements.
LEMMA ColumnShrinks ==
    ASSUME NEW T, NEW col \in [Doc -> SUBSET T], NEW x, NEW S \in SUBSET col[x]
    PROVE  [col EXCEPT ![x] = S] \in [Doc -> SUBSET T]
  OBVIOUS

\* ... and when it gains one of the right type.
LEMMA ColumnGrows ==
    ASSUME NEW T, NEW col \in [Doc -> SUBSET T], NEW x, NEW t \in T
    PROVE  [col EXCEPT ![x] = @ \cup {t}] \in [Doc -> SUBSET T]
  OBVIOUS

\* A row keeps its type under each of the updates the handlers make.
LEMMA RowUpdates ==
    ASSUME NEW r \in Row
    PROVE  /\ \A g \in Gens : /\ [r EXCEPT !.active = g] \in Row
                              /\ [r EXCEPT !.desired = g] \in Row
                              /\ [r EXCEPT !.sv = g] \in Row
                              /\ [r EXCEPT !.raw = g] \in Row
           /\ \A b \in BOOLEAN : [r EXCEPT !.building = b] \in Row
           /\ \A c \in Content \cup {NoFile} : [r EXCEPT !.of = c] \in Row
           /\ \A s \in {"pending", "processing", "ready", "failed"} :
                  [r EXCEPT !.status = s] \in Row
  BY DEF Row

\* A row names the generation under construction, the rest of it stays.
LEMMA BuildTyped ==
    ASSUME NEW r \in Row, NEW g \in Gens
    PROVE  /\ Build(r, g) \in Row
           /\ Build(r, g).active = r.active /\ Build(r, g).sv = r.sv
           /\ Build(r, g).raw = r.raw /\ Build(r, g).of = r.of
  <1>. DEFINE r1 == [r EXCEPT !.desired = g]
              r2 == [r1 EXCEPT !.building = TRUE]
  <1>1. r1 \in Row /\ r1.active = r.active /\ r1.sv = r.sv /\ r1.raw = r.raw /\ r1.of = r.of
    BY DEF Row
  <1>2. r2 \in Row /\ r2.active = r1.active /\ r2.sv = r1.sv /\ r2.raw = r1.raw /\ r2.of = r1.of
    <2>. HIDE DEF r1
    <2>. QED
      BY <1>1 DEF Row
  <1>3. Build(r, g) = r2
    BY DEF Build
  <1>4. QED
    BY <1>1, <1>2, <1>3

\* Giving a generation up leaves the active one alone.
LEMMA GiveUpTyped ==
    ASSUME NEW r \in Row
    PROVE  GiveUp(r) \in Row /\ GiveUp(r).active = r.active
  <1>. DEFINE r1 == [r EXCEPT !.desired = 0]
              r2 == [r1 EXCEPT !.building = FALSE]
  <1>1. r1 \in Row /\ r1.active = r.active
    BY BoundsAreNumbers DEF Row, Gens
  <1>2. r2 \in Row /\ r2.active = r1.active
    <2>. HIDE DEF r1
    <2>. QED
      BY <1>1 DEF Row
  <1>3. GiveUp(r) = r2
    BY DEF GiveUp
  <1>4. QED
    BY <1>1, <1>2, <1>3

\* The row of a document that has none yet.
LEMMA NewRowTyped == NewRow \in Row
  BY BoundsAreNumbers DEF NewRow, Row, Gens

\* The job of an idle worker.
LEMMA NoJobTyped == NoJob \in Job
  BY BoundsAreNumbers, NewRowTyped DEF NoJob, IngestJob, Job, Gens

\* The target of a command is a document.
LEMMA TargetTyped ==
    ASSUME TypeOK, NEW o \in Op
    PROVE  target(o) \in Doc /\ command[o].kind \in Kinds
  BY GenerationsAssumption DEF TypeOK, target, Kinds

\* A row keeps its type when it is stored.
LEMMA StoredTyped ==
    ASSUME NEW r \in Row
    PROVE  Stored(r) \in Row
  BY BoundsAreNumbers DEF Stored, Row, Gens

\* The upsert of a row keeps the types of the two variables it writes.
LEMMA UpsertTyped ==
    ASSUME TypeOK, NEW x, NEW r \in Row, upsert(x, r)
    PROVE  life' \in [Doc -> {"none", "active", "deleting"}] /\ row' \in [Doc -> Row]
  BY StoredTyped DEF TypeOK, upsert

\* A step of one worker leaves the others as they are.
LEMMA StepFrame ==
    ASSUME Typed, NEW o \in Op, NEW l \in Pcs, NEW j \in Job,
           pc' = [pc EXCEPT ![o] = l], job' = [job EXCEPT ![o] = j], command' = command,
           StepTyped(l, j, command[o].kind)
    PROVE  pc' \in [Op -> Pcs] /\ job' \in [Op -> Job] /\ StepsTyped'
  <1>1. pc \in [Op -> Pcs] /\ job \in [Op -> Job]
    BY DEF Typed, TypeOK
  <1>2. pc' \in [Op -> Pcs] /\ job' \in [Op -> Job]
    BY <1>1
  <1>3. ASSUME NEW p \in Op PROVE StepTyped(pc'[p], job'[p], command'[p].kind)
    <2>1. CASE p = o
      BY <1>1, <2>1
    <2>2. CASE p # o
      <3>1. pc'[p] = pc[p] /\ job'[p] = job[p]
        BY <1>1, <2>2
      <3>2. QED
        BY <3>1 DEF Typed, StepsTyped
    <2>3. QED
      BY <2>1, <2>2
  <1>4. QED
    BY <1>2, <1>3 DEF StepsTyped

\* The end of a worker.
LEMMA FinishTyped ==
    ASSUME Typed, NEW o \in Op, NEW s \in {"queued", "succeeded", "failed"},
           Finish(o, s), command' = command
    PROVE  /\ pc' \in [Op -> Pcs] /\ job' \in [Op -> Job] /\ StepsTyped'
           /\ opState' \in [Op -> {"queued", "succeeded", "failed"}]
  <1>1. StepTyped("idle", NoJob, command[o].kind)
    BY DEF StepTyped
  <1>2. pc' \in [Op -> Pcs] /\ job' \in [Op -> Job] /\ StepsTyped'
    BY <1>1, NoJobTyped, StepFrame DEF Finish, Goto, SetJob
  <1>3. QED
    BY <1>2 DEF Finish, Typed, TypeOK

\* What the published documents of Init hold.
LEMMA FirstContentTyped == FirstContent \in Content
  BY GenerationsAssumption DEF FirstContent

\* The initial states are typed.
LEMMA InitTyped == Init => Typed
  <1> SUFFICES ASSUME Init PROVE Typed
    OBVIOUS
  <1>. USE BoundsAreNumbers, FirstContentTyped
  <1>1. PICK present \in SUBSET {x \in Doc : Leaf(x)} :
            /\ life = [x \in Doc |-> IF Leaf(x) /\ x \notin present THEN "none" ELSE "active"]
            /\ row = [x \in Doc |-> IF x \in present THEN PublishedRow
                        ELSE IF Leaf(x) THEN NewRow ELSE DirectoryRow]
            /\ chunks = [x \in Doc |-> IF x \in present THEN FirstChunks ELSE {}]
            /\ vectors = [x \in Doc |-> IF x \in present /\ Embeds THEN {1} ELSE {}]
            /\ mappings = [x \in Doc |-> IF x \notin present THEN {}
                             ELSE {[gen |-> 1, sv |-> 1, raw |-> 1, of |-> FirstContent]}]
            /\ raw = [x \in Doc |-> [v \in Versions |->
                         IF x \in present /\ v = 1 THEN FirstContent ELSE NoFile]]
    BY Zenon DEF Init
  <1>2. row \in [Doc -> Row]
    <2>1. PublishedRow \in Row /\ DirectoryRow \in Row
      BY DEF PublishedRow, DirectoryRow, Row, Gens
    <2>2. QED
      BY <1>1, <2>1, NewRowTyped
  <1>3. chunks \in [Doc -> SUBSET [gen : 1 .. MaxGen, batch : 1 .. Batches, of : Content]]
    BY <1>1 DEF FirstChunks
  <1>4. /\ vectors \in [Doc -> SUBSET (1 .. MaxGen)]
        /\ mappings \in [Doc -> SUBSET [gen : 1 .. MaxGen, sv : Versions, raw : Versions, of : Content]]
        /\ raw \in [Doc -> [Versions -> Content \cup {NoFile}]]
        /\ life \in [Doc -> {"none", "active", "deleting"}]
    BY <1>1 DEF Versions
  <1>5. renaming \in [doc : Doc \cup {NoDoc}, copy : Row]
    BY NewRowTyped DEF Init, NoRename
  <1>6. TypeOK
    BY <1>2, <1>3, <1>4, <1>5, NoJobTyped DEF Init, TypeOK, RecoverySteps
  <1>7. StepsTyped
    BY DEF Init, StepsTyped, StepTyped
  <1>8. QED
    BY <1>6, <1>7 DEF Typed

\* A job keeps its type under each of the updates of its worker.
LEMMA JobUpdates ==
    ASSUME NEW j \in Job
    PROVE  /\ \A r \in Row : [j EXCEPT !.copy = r] \in Job
           /\ \A g \in Gens : [j EXCEPT !.gen = g] \in Job
           /\ \A n \in 1 .. Batches : [j EXCEPT !.next = n] \in Job
           /\ \A b \in BOOLEAN : [j EXCEPT !.unknown = b] \in Job
           /\ \A d \in SUBSET Doc : [j EXCEPT !.todo = d] \in Job
           /\ \A v \in SUBSET Versions : [j EXCEPT !.paths = v] \in Job
  BY DEF Job

\* Two updates of the jobs at once.
LEMMA JobRaised ==
    ASSUME NEW j \in Job, NEW r \in Row
    PROVE  /\ [j EXCEPT !.copy = r, !.unknown = TRUE] \in Job
           /\ [j EXCEPT !.copy = r, !.unknown = TRUE].copy = r
           /\ [j EXCEPT !.copy = r, !.unknown = TRUE].of = j.of
           /\ [j EXCEPT !.copy = r, !.unknown = TRUE].prev = j.prev
  <1>. DEFINE j1 == [j EXCEPT !.copy = r]
  <1>1. j1 \in Job /\ j1.copy = r /\ j1.of = j.of /\ j1.prev = j.prev
    BY DEF Job
  <1>. HIDE DEF j1
  <1>2. DEFINE j2 == [j1 EXCEPT !.unknown = TRUE]
  <1>3. j2 \in Job /\ j2.copy = j1.copy /\ j2.of = j1.of /\ j2.prev = j1.prev
    BY <1>1 DEF Job
  <1>4. QED
    BY <1>1, <1>3 DEF j1

\* A clean-up's job after one document.
LEMMA JobCleaned ==
    ASSUME NEW j \in Job, NEW d \in SUBSET Doc
    PROVE  /\ [j EXCEPT !.todo = d, !.paths = {}] \in Job
           /\ [j EXCEPT !.todo = d, !.paths = {}].todo = d
  <1>. DEFINE j1 == [j EXCEPT !.todo = d]
  <1>1. j1 \in Job /\ j1.todo = d
    BY DEF Job
  <1>. HIDE DEF j1
  <1>2. DEFINE j2 == [j1 EXCEPT !.paths = {}]
  <1>3. j2 \in Job /\ j2.todo = j1.todo
    BY <1>1 DEF Job
  <1>4. QED
    BY <1>1, <1>3 DEF j1

\* Two updates of a row at once.
LEMMA SourcedTyped ==
    ASSUME NEW r \in Row, NEW v \in Versions, NEW c \in Content
    PROVE  /\ Sourced(r, v, c) \in Row
           /\ Sourced(r, v, c).raw = v /\ Sourced(r, v, c).of = c /\ Sourced(r, v, c).sv = r.sv
           /\ Sourced(r, v, c).active = r.active
  <1>. DEFINE r1 == [r EXCEPT !.raw = v]
              r2 == [r1 EXCEPT !.of = c]
  <1>1. r1 \in Row /\ r1.raw = v /\ r1.sv = r.sv /\ r1.active = r.active
    BY DEF Row, Versions, Gens
  <1>2. r2 \in Row /\ r2.raw = r1.raw /\ r2.of = c /\ r2.sv = r1.sv /\ r2.active = r1.active
    <2>. HIDE DEF r1
    <2>. QED
      BY <1>1 DEF Row
  <1>3. Sourced(r, v, c) = r2
    BY DEF Sourced
  <1>4. QED
    BY <1>1, <1>2, <1>3

\* The source version is raised, the rest of the row stays.
LEMMA RaisedTyped ==
    ASSUME NEW r \in Row, r.sv + 1 \in Gens
    PROVE  /\ Raised(r) \in Row
           /\ Raised(r).raw = r.raw /\ Raised(r).of = r.of /\ Raised(r).active = r.active
  <1>. DEFINE r1 == [r EXCEPT !.sv = r.sv + 1]
              r2 == [r1 EXCEPT !.status = "ready"]
  <1>1. r1 \in Row /\ r1.raw = r.raw /\ r1.of = r.of /\ r1.active = r.active
    BY DEF Row
  <1>2. r2 \in Row /\ r2.raw = r1.raw /\ r2.of = r1.of /\ r2.active = r1.active
    <2>. HIDE DEF r1
    <2>. QED
      BY <1>1 DEF Row
  <1>3. Raised(r) = r2
    BY DEF Raised
  <1>4. QED
    BY <1>1, <1>2, <1>3

\* The row an activation writes.
LEMMA ActivatedTyped ==
    ASSUME NEW o, job[o] \in Job, job[o].copy.sv + 1 \in Gens
    PROVE  Activated(o) \in Row /\ Activated(o).active = job[o].gen
  <1>. DEFINE j == job[o]
              r1 == [j.copy EXCEPT !.active = j.gen]
              r2 == [r1 EXCEPT !.desired = j.gen]
              r3 == [r2 EXCEPT !.building = FALSE]
              r4 == [r3 EXCEPT !.status = "ready"]
              r5 == [r4 EXCEPT !.sv = j.copy.sv + 1]
  <1>1. j.copy \in Row /\ j.gen \in Gens
    BY DEF Job
  <1>2. r1 \in Row /\ r1.active = j.gen
    BY <1>1 DEF Row
  <1>3. r2 \in Row /\ r2.active = j.gen
    <2>. HIDE DEF r1
    <2>. QED BY <1>1, <1>2 DEF Row
  <1>4. r3 \in Row /\ r3.active = j.gen
    <2>. HIDE DEF r2
    <2>. QED BY <1>3 DEF Row
  <1>5. r4 \in Row /\ r4.active = j.gen
    <2>. HIDE DEF r3
    <2>. QED BY <1>4 DEF Row
  <1>6. r5 \in Row /\ r5.active = j.gen
    <2>. HIDE DEF r4
    <2>. QED BY <1>5 DEF Row
  <1>7. QED
    BY <1>6, Zenon DEF Activated

----------------------------------------------------------------------------
\* Every step of an ingest keeps the types.

\* BeginIngest keeps the types.
LEMMA BeginIngestTyped ==
    ASSUME Typed, NEW o \in Op, BeginIngest(o)
    PROVE  Typed'
  <1>. DEFINE x == target(o)
              copy == IF life[x] = "active" THEN row[x] ELSE NewRow
              bytes == IF command[o].kind = "import" THEN SourceOf[o]
                       ELSE IF row[x].raw = 0 THEN NoFile ELSE raw[x][row[x].raw]
              j == IngestJob(copy, bytes, copy.active \in vectors[x])
  <1>1. TypeOK /\ x \in Doc /\ command' = command
    BY TargetTyped DEF Typed, BeginIngest, ghostVars
  <1>2. /\ pc' \in [Op -> Pcs] /\ job' \in [Op -> Job] /\ StepsTyped'
        /\ opState' \in [Op -> {"queued", "succeeded", "failed"}]
    <2>1. CASE \E s \in {"succeeded", "failed"} : Finish(o, s)
      BY <1>1, <2>1, FinishTyped
    <2>2. CASE /\ Goto(o, "start") /\ SetJob(o, j) /\ UNCHANGED opState
               /\ command[o].kind # "import" => bytes # NoFile
      <3>1. copy \in Row /\ bytes \in Content
        <4>1. row[x] \in Row
          BY <1>1 DEF TypeOK
        <4>2. row[x].raw # 0 => raw[x][row[x].raw] \in Content \cup {NoFile}
          <5>1. row[x].raw \in 0 .. MaxGen
            BY <4>1 DEF Row, Gens
          <5>2. row[x].raw # 0 => row[x].raw \in Versions
            BY <5>1, BoundsAreNumbers DEF Versions
          <5>3. raw[x] \in [Versions -> Content \cup {NoFile}]
            BY <1>1 DEF TypeOK
          <5>4. QED
            BY <5>2, <5>3
        <4>3. SourceOf[o] \in Content
          BY GenerationsAssumption
        <4>4. QED
          BY <2>2, <4>1, <4>2, <4>3, NewRowTyped
      <3>2. j \in Job /\ j.of = bytes
        BY <3>1, BoundsAreNumbers DEF IngestJob, Job, Gens
      <3>3. StepTyped("start", j, command[o].kind)
        BY <3>1, <3>2 DEF BeginIngest, StepTyped
      <3>4. QED
        BY <1>1, <2>2, <3>2, <3>3, StepFrame DEF Goto, SetJob, TypeOK
    <2>3. QED
      BY <2>1, <2>2 DEF BeginIngest
  <1>3. QED
    BY <1>1, <1>2 DEF BeginIngest, storeVars, sideVars, ghostVars, Typed, TypeOK

\* A counted answer stays within the bound.
LEMMA AnswersCounted ==
    ASSUME TypeOK, NEW a \in Answers, Count(a)
    PROVE  events' \in 0 .. MaxEvents
  BY BoundsAreNumbers DEF TypeOK, Answers, Count

\* An event stays within the bound.
LEMMA EventCounted ==
    ASSUME TypeOK, Event
    PROVE  events' \in 0 .. MaxEvents
  BY BoundsAreNumbers DEF TypeOK, Event

\* StartIngest keeps the types.
LEMMA StartIngestTyped ==
    ASSUME Typed, NEW o \in Op, StartIngest(o)
    PROVE  Typed'
  <1>. DEFINE x == target(o)
              copy == [job[o].copy EXCEPT !.status = "processing"]
              j == [job[o] EXCEPT !.copy = copy]
  <1>1. TypeOK /\ x \in Doc /\ command' = command /\ pc[o] = "start"
    BY TargetTyped DEF Typed, StartIngest
  <1>2. /\ copy \in Row /\ j \in Job /\ j.of = job[o].of
    <2>1. job[o] \in Job /\ job[o].copy \in Row
      BY <1>1 DEF TypeOK, Job
    <2>2. copy \in Row
      BY <2>1 DEF Row
    <2>3. QED
      BY <2>1, <2>2 DEF Job
  <1>3. /\ pc' \in [Op -> Pcs] /\ job' \in [Op -> Job] /\ StepsTyped'
        /\ opState' \in [Op -> {"queued", "succeeded", "failed"}]
    <2>1. CASE \E s \in {"queued", "failed"} : Finish(o, s)
      BY <1>1, <2>1, FinishTyped
    <2>2. CASE Goto(o, "raw") /\ UNCHANGED opState /\ SetJob(o, j)
      <3>1. StepTyped("raw", j, command[o].kind)
        BY <1>1, <1>2 DEF Typed, StepsTyped, StepTyped
      <3>2. QED
        BY <1>1, <1>2, <2>2, <3>1, StepFrame DEF Goto, SetJob, TypeOK
    <2>3. QED
      BY <2>1, <2>2 DEF StartIngest
  <1>4. /\ life' \in [Doc -> {"none", "active", "deleting"}] /\ row' \in [Doc -> Row]
        /\ events' \in 0 .. MaxEvents
    <2>1. CASE UNCHANGED <<life, row, events>>
      BY <1>1, <2>1 DEF TypeOK
    <2>2. CASE \E a \in Answers : Count(a) /\ (upsert(x, copy) \/ UNCHANGED <<life, row>>)
      BY <1>1, <1>2, <2>2, UpsertTyped, AnswersCounted DEF TypeOK
    <2>3. QED
      BY <2>1, <2>2 DEF StartIngest
  <1>5. QED
    BY <1>1, <1>3, <1>4 DEF StartIngest, Typed, TypeOK

\* WriteRaw keeps the types.
LEMMA WriteRawTyped ==
    ASSUME Typed, NEW o \in Op, WriteRaw(o)
    PROVE  Typed'
  <1>. DEFINE x == target(o)
              v == NextVersion(job[o].copy)
              copy == Sourced(job[o].copy, v, job[o].of)
              j == [job[o] EXCEPT !.copy = copy]
  <1>1. TypeOK /\ x \in Doc /\ command' = command /\ pc[o] = "raw" /\ v <= MaxGen
    BY TargetTyped DEF Typed, WriteRaw, ghostVars
  <1>2. job[o] \in Job /\ job[o].copy \in Row /\ job[o].of \in Content
    BY <1>1 DEF TypeOK, Job, Typed, StepsTyped, StepTyped
  <1>3. v \in Versions /\ v = job[o].copy.sv + 1
    BY <1>1, <1>2, BoundsAreNumbers DEF NextVersion, Versions, Row, Gens
  <1>4. copy \in Row /\ copy.raw = v /\ copy.of = job[o].of /\ copy.sv = job[o].copy.sv
    <2>. HIDE DEF v
    <2>. QED
      BY <1>2, <1>3, SourcedTyped
  <1>5. j \in Job /\ j.copy = copy /\ j.of = job[o].of
    <2>. HIDE DEF copy
    <2>. QED
      BY <1>2, <1>4 DEF Job
  <1>6. ASSUME NEW l \in {"stage", "fail"} PROVE StepTyped(l, j, command[o].kind)
    <2>. HIDE DEF j, copy, v
    <2>. QED
      BY <1>1, <1>2, <1>3, <1>4, <1>5 DEF Typed, StepsTyped, StepTyped
  <1>7. job' = [job EXCEPT ![o] = j]
    BY DEF WriteRaw, SetJob
  <1>8. pc' \in [Op -> Pcs] /\ job' \in [Op -> Job] /\ StepsTyped'
    <2>1. PICK l \in {"stage", "fail"} : pc' = [pc EXCEPT ![o] = l]
      BY DEF WriteRaw, Goto
    <2>2. QED
      <3>. HIDE DEF j
      <3>. QED
        BY <1>1, <1>5, <1>6, <1>7, <2>1, StepFrame
  <1>9. raw' \in [Doc -> [Versions -> Content \cup {NoFile}]]
    BY <1>1, <1>2, <1>3 DEF WriteRaw, TypeOK
  <1>10. events' \in 0 .. MaxEvents
    BY <1>1, EventCounted DEF WriteRaw, TypeOK
  <1>11. QED
    BY <1>1, <1>8, <1>9, <1>10 DEF WriteRaw, storeVars, sideVars, ghostVars, Typed, TypeOK

\* A step of one worker that leaves its job as it is.
LEMMA GotoFrame ==
    ASSUME Typed, NEW o \in Op, NEW l \in Pcs, Goto(o, l), job' = job, command' = command,
           StepTyped(l, job[o], command[o].kind)
    PROVE  pc' \in [Op -> Pcs] /\ job' \in [Op -> Job] /\ StepsTyped'
  <1>1. job[o] \in Job /\ job \in [Op -> Job]
    BY DEF Typed, TypeOK
  <1>2. job' = [job EXCEPT ![o] = job[o]]
    BY <1>1
  <1>3. QED
    BY <1>1, <1>2, StepFrame DEF Goto

\* A step to failDocument.
LEMMA GotoFailTyped ==
    ASSUME Typed, NEW o \in Op, NEW b \in BOOLEAN, GotoFail(o, b), command' = command,
           pc[o] \in StagedPcs
    PROVE  pc' \in [Op -> Pcs] /\ job' \in [Op -> Job] /\ StepsTyped'
  <1>. DEFINE j == [job[o] EXCEPT !.unknown = b]
  <1>1. job[o] \in Job
    BY DEF Typed, TypeOK
  <1>2. j \in Job /\ j.copy = job[o].copy /\ j.of = job[o].of
    BY <1>1 DEF Job
  <1>3. StepTyped("fail", j, command[o].kind)
    <2>. HIDE DEF j
    <2>. QED
      BY <1>2 DEF Typed, StepsTyped, StepTyped
  <1>4. job' = [job EXCEPT ![o] = j]
    BY DEF GotoFail
  <1>5. QED
    <2>. HIDE DEF j
    <2>. QED
      BY <1>2, <1>3, <1>4, StepFrame DEF GotoFail, Goto

\* StageBegin keeps the types.
LEMMA StageBeginTyped ==
    ASSUME Typed, NEW o \in Op, StageBegin(o)
    PROVE  Typed'
  <1>. DEFINE x == target(o)
              gen == NextGen(x)
              j == [job[o] EXCEPT !.gen = gen]
  <1>1. /\ TypeOK /\ x \in Doc /\ command' = command /\ pc[o] = "stage"
        /\ job[o] \in Job /\ row[x] \in Row
    BY TargetTyped DEF Typed, TypeOK, StageBegin, ghostVars
  <1>2. gen \in 1 .. MaxGen
    BY <1>1, BoundsAreNumbers DEF StageBegin, NextGen, Row, Gens
  <1>3. j \in Job /\ j.gen = gen /\ j.copy = job[o].copy /\ j.of = job[o].of
    BY <1>1, <1>2 DEF Job, Gens
  <1>4. pc' \in [Op -> Pcs] /\ job' \in [Op -> Job] /\ StepsTyped'
    <2>1. CASE \E b \in BOOLEAN : GotoFail(o, b)
      BY <1>1, <2>1, GotoFailTyped
    <2>2. CASE Goto(o, "clear") /\ SetJob(o, j)
      <3>1. StepTyped("clear", j, command[o].kind)
        <4>. HIDE DEF j, gen
        <4>. QED
          BY <1>1, <1>2, <1>3 DEF Typed, StepsTyped, StepTyped
      <3>2. QED
        BY <1>1, <1>3, <2>2, <3>1, StepFrame DEF Goto, SetJob
    <2>3. QED
      BY <2>1, <2>2 DEF StageBegin
  <1>5. row' \in [Doc -> Row]
    <2>1. Build(row[x], gen) \in Row
      <3>. HIDE DEF gen
      <3>. QED
        BY <1>1, <1>2, BuildTyped DEF Gens
    <2>2. row' = row \/ row' = [row EXCEPT ![x] = Build(row[x], gen)]
      BY DEF StageBegin
    <2>3. QED
      BY <1>1, <2>1, <2>2 DEF TypeOK
  <1>6. events' \in 0 .. MaxEvents /\ stageMu' \in Op \cup {NoOp}
    BY <1>1, AnswersCounted DEF StageBegin, TypeOK
  <1>7. QED
    BY <1>1, <1>4, <1>5, <1>6 DEF StageBegin, sideVars, ghostVars, Typed, TypeOK

\* ClearLeftover and ClearStagedData keep the types.
LEMMA ClearTyped ==
    ASSUME Typed, NEW o \in Op, ClearLeftover(o) \/ ClearStagedData(o)
    PROVE  Typed'
  <1>. DEFINE x == target(o)
  <1>1. TypeOK /\ x \in Doc /\ command' = command /\ job' = job
    BY TargetTyped DEF Typed, ClearLeftover, ClearStagedData, ghostVars
  <1>2. pc' \in [Op -> Pcs] /\ job' \in [Op -> Job] /\ StepsTyped'
    <2>1. CASE ClearLeftover(o)
      <3>1. StepTyped("batch", job[o], command[o].kind)
        <4>1. job[o] \in Job /\ StepTyped("clear", job[o], command[o].kind)
          BY <1>1, <2>1 DEF ClearLeftover, Typed, TypeOK, StepsTyped
        <4>2. job[o].next <= Batches
          BY <4>1, BoundsAreNumbers DEF Job
        <4>3. QED
          BY <4>1, <4>2 DEF StepTyped
      <3>2. QED
        BY <1>1, <2>1, <3>1, GotoFrame DEF ClearLeftover
    <2>2. CASE ClearStagedData(o)
      <3>1. StepTyped("clearFlag", job[o], command[o].kind)
        BY <1>1, <2>2 DEF ClearStagedData, Typed, StepsTyped, StepTyped
      <3>2. QED
        BY <1>1, <2>2, <3>1, GotoFrame DEF ClearStagedData
    <2>3. QED
      BY <2>1, <2>2
  <1>3. /\ chunks' \in [Doc -> SUBSET [gen : 1 .. MaxGen, batch : 1 .. Batches, of : Content]]
        /\ vectors' \in [Doc -> SUBSET (1 .. MaxGen)]
    <2>1. /\ \E S \in SUBSET chunks[x] : chunks' = [chunks EXCEPT ![x] = S]
          /\ \E S \in SUBSET vectors[x] : vectors' = [vectors EXCEPT ![x] = S]
      BY DEF ClearLeftover, ClearStagedData
    <2>2. QED
      BY <1>1, <2>1 DEF TypeOK
  <1>4. QED
    BY <1>1, <1>2, <1>3 DEF ClearLeftover, ClearStagedData, sideVars, ghostVars, Typed, TypeOK

\* PutBatch keeps the types.
LEMMA PutBatchTyped ==
    ASSUME Typed, NEW o \in Op, PutBatch(o)
    PROVE  Typed'
  <1>. DEFINE x == target(o)
              b == job[o].next
              built == Build(job[o].copy, job[o].gen)
              counted == [job[o] EXCEPT !.next = b + 1]
              staged == [job[o] EXCEPT !.copy = built]
  <1>1. /\ TypeOK /\ x \in Doc /\ command' = command /\ pc[o] = "batch"
        /\ StepTyped("batch", job[o], command[o].kind)
        /\ job[o] \in Job /\ job[o].copy \in Row
    BY TargetTyped DEF Typed, StepsTyped, TypeOK, Job, PutBatch, ghostVars
  <1>2. job[o].gen \in 1 .. MaxGen /\ b \in 1 .. Batches /\ job[o].of \in Content
    BY <1>1, BoundsAreNumbers DEF StepTyped, Job
  <1>3. pc' \in [Op -> Pcs] /\ job' \in [Op -> Job] /\ StepsTyped'
    <2>1. CASE \E u \in BOOLEAN : GotoFail(o, u)
      BY <1>1, <2>1, GotoFailTyped
    <2>2. CASE Goto(o, "clearData") /\ UNCHANGED job
      <3>1. StepTyped("clearData", job[o], command[o].kind)
        BY <1>1 DEF StepTyped
      <3>2. QED
        BY <1>1, <2>2, <3>1, GotoFrame
    <2>3. CASE b < Batches /\ SetJob(o, counted) /\ UNCHANGED pc
      <3>1. /\ counted \in Job /\ counted.next = b + 1 /\ counted.copy = job[o].copy
            /\ counted.gen = job[o].gen /\ counted.of = job[o].of
        BY <1>1, <1>2, <2>3, BoundsAreNumbers DEF Job
      <3>2. StepTyped("batch", counted, command[o].kind)
        <4>. HIDE DEF counted
        <4>. QED
          BY <1>1, <1>2, <2>3, <3>1, BoundsAreNumbers DEF StepTyped
      <3>3. pc' = [pc EXCEPT ![o] = "batch"]
        BY <1>1, <2>3 DEF TypeOK
      <3>4. QED
        BY <1>1, <2>3, <3>1, <3>2, <3>3, StepFrame DEF SetJob
    <2>4. CASE SetJob(o, staged) /\ Goto(o, IF Embeds THEN "embedPut" ELSE "activate")
      <3>1. /\ built \in Row /\ built.raw = job[o].copy.raw /\ built.of = job[o].copy.of
            /\ built.sv = job[o].copy.sv
        BY <1>1, <1>2, BuildTyped DEF Gens
      <3>2. /\ staged \in Job /\ staged.copy = built /\ staged.gen = job[o].gen
            /\ staged.of = job[o].of
        <4>. HIDE DEF built
        <4>. QED
          BY <1>1, <3>1 DEF Job
      <3>3. ASSUME NEW l \in {"embedPut", "activate"}
            PROVE  StepTyped(l, staged, command[o].kind)
        <4>. HIDE DEF staged, built
        <4>. QED
          BY <1>1, <1>2, <3>1, <3>2 DEF StepTyped
      <3>4. QED
        BY <1>1, <2>4, <3>2, <3>3, StepFrame DEF Goto, SetJob
    <2>5. QED
      BY <2>1, <2>2, <2>3, <2>4 DEF PutBatch
  <1>4. chunks' \in [Doc -> SUBSET [gen : 1 .. MaxGen, batch : 1 .. Batches, of : Content]]
    <2>. DEFINE c == [gen |-> job[o].gen, batch |-> b, of |-> job[o].of]
    <2>1. c \in [gen : 1 .. MaxGen, batch : 1 .. Batches, of : Content]
      BY <1>2
    <2>2. chunks' = chunks \/ chunks' = [chunks EXCEPT ![x] = @ \cup {c}]
      BY DEF PutBatch
    <2>3. chunks \in [Doc -> SUBSET [gen : 1 .. MaxGen, batch : 1 .. Batches, of : Content]]
      BY <1>1 DEF TypeOK
    <2>. HIDE DEF c
    <2>4. [chunks EXCEPT ![x] = @ \cup {c}]
            \in [Doc -> SUBSET [gen : 1 .. MaxGen, batch : 1 .. Batches, of : Content]]
      BY <2>1, <2>3, ColumnGrows, Zenon
    <2>5. QED
      BY <2>2, <2>3, <2>4, Zenon
  <1>5. events' \in 0 .. MaxEvents /\ stageMu' \in Op \cup {NoOp}
    BY <1>1, AnswersCounted DEF PutBatch, TypeOK
  <1>6. QED
    BY <1>1, <1>3, <1>4, <1>5 DEF PutBatch, sideVars, ghostVars, Typed, TypeOK

\* ClearStagedFlag keeps the types.
LEMMA ClearStagedFlagTyped ==
    ASSUME Typed, NEW o \in Op, ClearStagedFlag(o)
    PROVE  Typed'
  <1>. DEFINE x == target(o)
  <1>1. /\ TypeOK /\ x \in Doc /\ command' = command /\ pc[o] = "clearFlag" /\ row[x] \in Row
    BY TargetTyped DEF Typed, TypeOK, ClearStagedFlag, ghostVars
  <1>2. pc' \in [Op -> Pcs] /\ job' \in [Op -> Job] /\ StepsTyped'
    BY <1>1, GotoFailTyped DEF ClearStagedFlag
  <1>3. row' \in [Doc -> Row]
    <2>1. GiveUp(row[x]) \in Row
      BY <1>1, GiveUpTyped
    <2>2. QED
      BY <1>1, <2>1 DEF ClearStagedFlag, TypeOK
  <1>4. QED
    BY <1>1, <1>2, <1>3 DEF ClearStagedFlag, sideVars, ghostVars, Typed, TypeOK

\* A whole-row write on the way, or the end of the ingest.
LEMMA PutRowTyped ==
    ASSUME Typed, NEW o \in Op, NEW r \in Row, NEW l \in {"embed", "restore", "activate"},
           PutRow(o, r, l), command' = command,
           StepTyped(pc[o], job[o], command[o].kind), pc[o] \in {"embedPut", "degrade"},
           r.raw = job[o].copy.raw, r.of = job[o].copy.of, r.sv = job[o].copy.sv
    PROVE  /\ pc' \in [Op -> Pcs] /\ job' \in [Op -> Job] /\ StepsTyped'
           /\ opState' \in [Op -> {"queued", "succeeded", "failed"}]
           /\ life' \in [Doc -> {"none", "active", "deleting"}] /\ row' \in [Doc -> Row]
  <1>. DEFINE x == target(o)
              j == [job[o] EXCEPT !.copy = r]
  <1>1. TypeOK /\ job[o] \in Job
    BY DEF Typed, TypeOK
  <1>2. CASE Writable(x)
    <2>1. j \in Job /\ j.copy = r /\ j.gen = job[o].gen /\ j.of = job[o].of
      BY <1>1 DEF Job
    <2>2. StepTyped(l, j, command[o].kind)
      <3>. HIDE DEF j
      <3>. QED
        BY <2>1 DEF StepTyped
    <2>3. pc' = [pc EXCEPT ![o] = l] /\ job' = [job EXCEPT ![o] = j] /\ opState' = opState
      BY <1>2 DEF PutRow, Goto, SetJob
    <2>4. pc' \in [Op -> Pcs] /\ job' \in [Op -> Job] /\ StepsTyped'
      <3>. HIDE DEF j
      <3>. QED
        BY <2>1, <2>2, <2>3, StepFrame
    <2>5. upsert(x, r)
      BY <1>2 DEF PutRow
    <2>6. QED
      BY <1>1, <2>3, <2>4, <2>5, UpsertTyped DEF TypeOK
  <1>3. CASE ~Writable(x)
    BY <1>1, <1>3, FinishTyped DEF PutRow, TypeOK
  <1>4. QED
    BY <1>2, <1>3

\* EmbedPut and DegradePut keep the types.
LEMMA RowPutTyped ==
    ASSUME Typed, NEW o \in Op, EmbedPut(o) \/ DegradePut(o)
    PROVE  Typed'
  <1>1. /\ TypeOK /\ command' = command /\ job[o].copy \in Row
        /\ StepTyped(pc[o], job[o], command[o].kind) /\ pc[o] \in {"embedPut", "degrade"}
    BY DEF Typed, TypeOK, Job, StepsTyped, EmbedPut, DegradePut, RowRest
  <1>2. PICK s \in {"processing", "ready"}, l \in {"embed", "restore", "activate"} :
            PutRow(o, [job[o].copy EXCEPT !.status = s], l)
    BY DEF EmbedPut, DegradePut
  <1>. DEFINE r == [job[o].copy EXCEPT !.status = s]
  <1>3. r \in Row /\ r.raw = job[o].copy.raw /\ r.of = job[o].copy.of /\ r.sv = job[o].copy.sv
    BY <1>1 DEF Row
  <1>4. /\ pc' \in [Op -> Pcs] /\ job' \in [Op -> Job] /\ StepsTyped'
        /\ opState' \in [Op -> {"queued", "succeeded", "failed"}]
        /\ life' \in [Doc -> {"none", "active", "deleting"}] /\ row' \in [Doc -> Row]
    <2>. HIDE DEF r
    <2>1. PutRow(o, r, l)
      BY <1>2 DEF r
    <2>2. QED
      BY <1>1, <1>3, <2>1, PutRowTyped
  <1>5. QED
    BY <1>1, <1>4 DEF EmbedPut, DegradePut, RowRest, sideVars, Typed, TypeOK

\* Embed keeps the types.
LEMMA EmbedTyped ==
    ASSUME Typed, NEW o \in Op, Embed(o)
    PROVE  Typed'
  <1>. DEFINE x == target(o)
  <1>1. /\ TypeOK /\ x \in Doc /\ command' = command /\ job' = job /\ pc[o] = "embed"
        /\ StepTyped("embed", job[o], command[o].kind)
    BY TargetTyped DEF Typed, StepsTyped, Embed, ghostVars
  <1>2. pc' \in [Op -> Pcs] /\ job' \in [Op -> Job] /\ StepsTyped'
    <2>1. ASSUME NEW l \in {"activate", "degrade"} PROVE StepTyped(l, job[o], command[o].kind)
      BY <1>1 DEF StepTyped
    <2>2. PICK l \in {"activate", "degrade"} : Goto(o, l)
      BY DEF Embed
    <2>3. QED
      BY <1>1, <2>1, <2>2, GotoFrame
  <1>3. vectors' \in [Doc -> SUBSET (1 .. MaxGen)]
    <2>1. job[o].gen \in 1 .. MaxGen
      BY <1>1 DEF StepTyped
    <2>2. vectors' = vectors \/ vectors' = [vectors EXCEPT ![x] = @ \cup {job[o].gen}]
      BY DEF Embed
    <2>3. QED
      BY <1>1, <2>1, <2>2 DEF TypeOK
  <1>4. events' \in 0 .. MaxEvents
    BY <1>1, EventCounted DEF Embed, TypeOK
  <1>5. QED
    BY <1>1, <1>2, <1>3, <1>4 DEF Embed, sideVars, ghostVars, Typed, TypeOK

\* Writes of a row by a worker that is about to finish.
LEMMA LastPutTyped ==
    ASSUME Typed, NEW o \in Op, RestorePrevious(o) \/ FailDocument(o)
    PROVE  Typed'
  <1>1. TypeOK /\ command' = command /\ job[o].copy \in Row /\ job[o].prev \in Row
    BY DEF Typed, TypeOK, Job, RestorePrevious, FailDocument, RowRest
  <1>2. \E s \in {"queued", "succeeded", "failed"} : Finish(o, s)
    BY DEF RestorePrevious, FailDocument
  <1>3. /\ pc' \in [Op -> Pcs] /\ job' \in [Op -> Job] /\ StepsTyped'
        /\ opState' \in [Op -> {"queued", "succeeded", "failed"}]
    BY <1>1, <1>2, FinishTyped
  <1>4. Previous(job[o].prev) \in Row /\ Failed(job[o].copy) \in Row
    BY <1>1 DEF Previous, Failed, Row
  <1>5. life' \in [Doc -> {"none", "active", "deleting"}] /\ row' \in [Doc -> Row]
    <2>1. CASE UNCHANGED <<life, row>>
      BY <1>1, <2>1 DEF TypeOK
    <2>2. CASE \E r \in Row : upsert(target(o), r)
      BY <1>1, <2>2, UpsertTyped
    <2>3. QED
      BY <1>4, <2>1, <2>2 DEF RestorePrevious, FailDocument
  <1>6. QED
    BY <1>1, <1>3, <1>5 DEF RestorePrevious, FailDocument, RowRest, sideVars, Typed, TypeOK

\* Activate keeps the types.
LEMMA ActivateTyped ==
    ASSUME Typed, NEW o \in Op, Activate(o)
    PROVE  Typed'
  <1>. DEFINE x == target(o)
              raised == Raised(job[o].copy)
              failed == [job[o] EXCEPT !.copy = raised]
              unknown == [job[o] EXCEPT !.copy = raised, !.unknown = TRUE]
  <1>1. /\ TypeOK /\ x \in Doc /\ command' = command /\ pc[o] = "activate"
        /\ StepTyped("activate", job[o], command[o].kind)
        /\ job[o] \in Job /\ job[o].copy \in Row
    BY TargetTyped DEF Typed, StepsTyped, TypeOK, Job, Activate
  <1>2. job[o].copy.sv + 1 \in Versions /\ job[o].copy.sv + 1 \in Gens
    BY <1>1, BoundsAreNumbers DEF StepTyped, Row, Gens, Versions
  <1>3. raised \in Row /\ raised.raw = job[o].copy.raw /\ raised.of = job[o].copy.of
    BY <1>1, <1>2, RaisedTyped
  <1>. HIDE DEF raised
  <1>4. /\ failed \in Job /\ failed.copy = raised /\ failed.of = job[o].of
        /\ unknown \in Job /\ unknown.copy = raised /\ unknown.of = job[o].of
    BY <1>1, <1>3, JobRaised DEF Job
  <1>5. /\ StepTyped("fail", failed, command[o].kind)
        /\ StepTyped("fail", unknown, command[o].kind)
        /\ StepTyped("prune", job[o], command[o].kind)
    <2>. HIDE DEF failed, unknown
    <2>. QED
      BY <1>1, <1>3, <1>4 DEF StepTyped
  <1>6. pc' \in [Op -> Pcs] /\ job' \in [Op -> Job] /\ StepsTyped'
    <2>1. CASE Goto(o, "fail") /\ (SetJob(o, failed) \/ SetJob(o, unknown))
      <3>. HIDE DEF failed, unknown
      <3>. QED
        BY <1>1, <1>4, <1>5, <2>1, StepFrame DEF Goto, SetJob
    <2>2. CASE Goto(o, "prune") /\ UNCHANGED job
      BY <1>1, <1>5, <2>2, GotoFrame
    <2>3. QED
      BY <2>1, <2>2 DEF Activate, raised
  <1>7. Activated(o) \in Row
    BY <1>1, <1>2, ActivatedTyped
  <1>8. /\ life' \in [Doc -> {"none", "active", "deleting"}] /\ row' \in [Doc -> Row]
    <2>1. UNCHANGED <<life, row>> \/ upsert(x, Activated(o))
      BY DEF Activate
    <2>2. QED
      BY <1>1, <1>7, <2>1, UpsertTyped DEF TypeOK
  <1>9. mappings' \in [Doc -> SUBSET [gen : 1 .. MaxGen, sv : Versions, raw : Versions, of : Content]]
    <2>1. Mapping(o) \in [gen : 1 .. MaxGen, sv : Versions, raw : Versions, of : Content]
      BY <1>1, <1>2 DEF Mapping, StepTyped
    <2>2. \/ mappings' = mappings
          \/ \E S \in SUBSET mappings[x] : mappings' = [mappings EXCEPT ![x] = S \cup {Mapping(o)}]
      BY DEF Activate
    <2>3. QED
      BY <1>1, <2>1, <2>2 DEF TypeOK
  <1>10. committed' \subseteq Op /\ published' \in [Op -> Nat] /\ events' \in 0 .. MaxEvents
    BY <1>1, AnswersCounted DEF Activate, Marked, TypeOK
  <1>11. QED
    BY <1>1, <1>6, <1>8, <1>9, <1>10 DEF Activate, sideVars, Typed, TypeOK

\* The three steps of a prune keep the types.
LEMMA PruneTyped ==
    ASSUME Typed, NEW o \in Op, PruneMappings(o) \/ PruneChunks(o) \/ PruneRaw(o)
    PROVE  Typed'
  <1>. DEFINE x == target(o)
              old == {m \in mappings[x] : m.gen \in Retired(job[o].gen)}
              j == [job[o] EXCEPT !.paths = {m.raw : m \in old}]
  <1>1. /\ TypeOK /\ x \in Doc /\ command' = command /\ job[o] \in Job
        /\ StepTyped(pc[o], job[o], command[o].kind)
        /\ mappings[x] \subseteq [gen : 1 .. MaxGen, sv : Versions, raw : Versions, of : Content]
    BY TargetTyped DEF Typed, TypeOK, StepsTyped, PruneMappings, PruneChunks, PruneRaw, ghostVars
  <1>2. /\ pc' \in [Op -> Pcs] /\ job' \in [Op -> Job] /\ StepsTyped'
        /\ opState' \in [Op -> {"queued", "succeeded", "failed"}]
    <2>1. CASE Finish(o, "succeeded")
      BY <1>1, <2>1, FinishTyped
    <2>2. CASE /\ pc[o] = "prune" /\ Goto(o, "pruneChunks") /\ SetJob(o, j)
               /\ UNCHANGED opState
      <3>1. j \in Job /\ j.copy = job[o].copy /\ j.gen = job[o].gen /\ j.of = job[o].of
        BY <1>1 DEF Job
      <3>2. StepTyped("pruneChunks", j, command[o].kind)
        <4>. HIDE DEF j
        <4>. QED
          BY <1>1, <2>2, <3>1 DEF StepTyped
      <3>3. QED
        <4>. HIDE DEF j
        <4>. QED
          BY <1>1, <2>2, <3>1, <3>2, StepFrame DEF Goto, SetJob, TypeOK
    <2>3. CASE pc[o] = "pruneChunks" /\ Goto(o, "pruneRaw") /\ UNCHANGED <<job, opState>>
      <3>1. StepTyped("pruneRaw", job[o], command[o].kind)
        BY <1>1, <2>3 DEF StepTyped
      <3>2. QED
        BY <1>1, <2>3, <3>1, GotoFrame DEF TypeOK
    <2>4. QED
      BY <2>1, <2>2, <2>3 DEF PruneMappings, PruneChunks, PruneRaw
  <1>3. /\ chunks' \in [Doc -> SUBSET [gen : 1 .. MaxGen, batch : 1 .. Batches, of : Content]]
        /\ vectors' \in [Doc -> SUBSET (1 .. MaxGen)]
        /\ mappings' \in [Doc -> SUBSET [gen : 1 .. MaxGen, sv : Versions, raw : Versions, of : Content]]
    <2>1. /\ chunks' = chunks \/ \E S \in SUBSET chunks[x] : chunks' = [chunks EXCEPT ![x] = S]
          /\ vectors' = vectors \/ \E S \in SUBSET vectors[x] : vectors' = [vectors EXCEPT ![x] = S]
          /\ mappings' = mappings \/ \E S \in SUBSET mappings[x] : mappings' = [mappings EXCEPT ![x] = S]
      <3>1. CASE PruneMappings(o)
        BY <3>1 DEF PruneMappings
      <3>2. CASE PruneChunks(o)
        BY <3>2 DEF PruneChunks
      <3>3. CASE PruneRaw(o)
        BY <3>3 DEF PruneRaw, storeVars
      <3>4. QED
        BY <3>1, <3>2, <3>3
    <2>2. chunks' \in [Doc -> SUBSET [gen : 1 .. MaxGen, batch : 1 .. Batches, of : Content]]
      <3>1. chunks \in [Doc -> SUBSET [gen : 1 .. MaxGen, batch : 1 .. Batches, of : Content]]
        BY <1>1 DEF TypeOK
      <3>2. ASSUME NEW S \in SUBSET chunks[x], chunks' = [chunks EXCEPT ![x] = S]
            PROVE  chunks' \in [Doc -> SUBSET [gen : 1 .. MaxGen, batch : 1 .. Batches, of : Content]]
        BY <3>1, <3>2, ColumnShrinks, Zenon
      <3>3. QED
        BY <2>1, <3>1, <3>2, Zenon
    <2>3. vectors' \in [Doc -> SUBSET (1 .. MaxGen)]
      <3>1. vectors \in [Doc -> SUBSET (1 .. MaxGen)]
        BY <1>1 DEF TypeOK
      <3>2. ASSUME NEW S \in SUBSET vectors[x], vectors' = [vectors EXCEPT ![x] = S]
            PROVE  vectors' \in [Doc -> SUBSET (1 .. MaxGen)]
        BY <3>1, <3>2, ColumnShrinks, Zenon
      <3>3. QED
        BY <2>1, <3>1, <3>2, Zenon
    <2>4. mappings' \in [Doc -> SUBSET [gen : 1 .. MaxGen, sv : Versions, raw : Versions, of : Content]]
      <3>1. mappings \in [Doc -> SUBSET [gen : 1 .. MaxGen, sv : Versions, raw : Versions, of : Content]]
        BY <1>1 DEF TypeOK
      <3>2. ASSUME NEW S \in SUBSET mappings[x], mappings' = [mappings EXCEPT ![x] = S]
            PROVE  mappings' \in [Doc -> SUBSET [gen : 1 .. MaxGen, sv : Versions, raw : Versions, of : Content]]
        BY <3>1, <3>2, ColumnShrinks, Zenon
      <3>3. QED
        BY <2>1, <3>1, <3>2, Zenon
    <2>5. QED
      BY <2>2, <2>3, <2>4
  <1>4. raw' \in [Doc -> [Versions -> Content \cup {NoFile}]]
    BY <1>1 DEF PruneMappings, PruneChunks, PruneRaw, Without, TypeOK
  <1>5. QED
    BY <1>1, <1>2, <1>3, <1>4
    DEF PruneMappings, PruneChunks, PruneRaw, storeVars, sideVars, ghostVars, Typed, TypeOK

----------------------------------------------------------------------------
\* Every step of a delete keeps the types.

\* The clean-up begins with the whole tree to do.
LEMMA CleanUpTyped ==
    ASSUME Typed, NEW o \in Op, Goto(o, "cleanChunks"),
           SetJob(o, [NoJob EXCEPT !.todo = Tree(target(o))]), command' = command,
           command[o].kind \in {"delete", "batchDelete"}
    PROVE  pc' \in [Op -> Pcs] /\ job' \in [Op -> Job] /\ StepsTyped'
  <1>. DEFINE j == [NoJob EXCEPT !.todo = Tree(target(o))]
  <1>1. j \in Job
    <2>1. Tree(target(o)) \in SUBSET Doc
      BY DEF Tree
    <2>2. QED
      BY <2>1, NoJobTyped, JobUpdates
  <1>2. StepTyped("cleanChunks", j, command[o].kind)
    <2>. HIDE DEF j
    <2>. QED
      BY DEF StepTyped
  <1>3. QED
    <2>. HIDE DEF j
    <2>1. job' = [job EXCEPT ![o] = j]
      BY DEF SetJob, j
    <2>2. QED
      BY <1>1, <1>2, <2>1, StepFrame DEF Goto

\* BeginDelete keeps the types.
LEMMA BeginDeleteTyped ==
    ASSUME Typed, NEW o \in Op, BeginDelete(o)
    PROVE  Typed'
  <1>1. TypeOK /\ command' = command /\ command[o].kind \in {"delete", "batchDelete"}
    BY DEF Typed, BeginDelete, ghostVars
  <1>2. /\ pc' \in [Op -> Pcs] /\ job' \in [Op -> Job] /\ StepsTyped'
        /\ opState' \in [Op -> {"queued", "succeeded", "failed"}]
    <2>1. CASE \E s \in {"succeeded", "failed"} : Finish(o, s)
      BY <1>1, <2>1, FinishTyped
    <2>2. CASE /\ Goto(o, "cleanChunks") /\ SetJob(o, [NoJob EXCEPT !.todo = Tree(target(o))])
               /\ UNCHANGED opState
      BY <1>1, <2>2, CleanUpTyped DEF TypeOK
    <2>3. CASE Goto(o, "fence") /\ UNCHANGED <<opState, job>>
      <3>1. StepTyped("fence", job[o], command[o].kind)
        BY <1>1 DEF StepTyped
      <3>2. QED
        BY <1>1, <2>3, <3>1, GotoFrame DEF TypeOK
    <2>4. QED
      BY <2>1, <2>2, <2>3 DEF BeginDelete
  <1>3. QED
    BY <1>1, <1>2 DEF BeginDelete, storeVars, sideVars, ghostVars, Typed, TypeOK

\* FenceTree keeps the types.
LEMMA FenceTreeTyped ==
    ASSUME Typed, NEW o \in Op, FenceTree(o)
    PROVE  Typed'
  <1>1. TypeOK /\ command' = command /\ command[o].kind \in {"delete", "batchDelete"}
    BY DEF Typed, FenceTree, ghostVars
  <1>2. /\ pc' \in [Op -> Pcs] /\ job' \in [Op -> Job] /\ StepsTyped'
        /\ opState' \in [Op -> {"queued", "succeeded", "failed"}]
    <2>1. CASE \E s \in {"queued", "failed"} : Finish(o, s)
      BY <1>1, <2>1, FinishTyped
    <2>2. CASE /\ Goto(o, "cleanChunks") /\ SetJob(o, [NoJob EXCEPT !.todo = Tree(target(o))])
               /\ UNCHANGED opState
      BY <1>1, <2>2, CleanUpTyped DEF TypeOK
    <2>3. QED
      BY <2>1, <2>2 DEF FenceTree
  <1>3. /\ life' \in [Doc -> {"none", "active", "deleting"}] /\ committed' \subseteq Op
        /\ events' \in 0 .. MaxEvents
    BY <1>1, AnswersCounted DEF FenceTree, Marked, TypeOK
  <1>4. QED
    BY <1>1, <1>2, <1>3 DEF FenceTree, sideVars, ghostVars, Typed, TypeOK

\* A document that is being cleaned.
LEMMA CurrentTyped ==
    ASSUME Typed, NEW o \in Op, job[o].todo # {}
    PROVE  Current(o) \in Doc /\ Current(o) \in job[o].todo
  BY DEF Typed, TypeOK, Job, Current

\* CleanChunks keeps the types.
LEMMA CleanChunksTyped ==
    ASSUME Typed, NEW o \in Op, CleanChunks(o)
    PROVE  Typed'
  <1>1. /\ TypeOK /\ command' = command
        /\ StepTyped("cleanChunks", job[o], command[o].kind)
    BY DEF Typed, StepsTyped, CleanChunks, ghostVars
  <1>2. CASE job[o].todo = {}
    <2>1. /\ pc' \in [Op -> Pcs] /\ job' \in [Op -> Job] /\ StepsTyped'
          /\ opState' \in [Op -> {"queued", "succeeded", "failed"}]
      BY <1>1, <1>2, FinishTyped DEF CleanChunks
    <2>2. QED
      BY <1>1, <1>2, <2>1 DEF CleanChunks, Marked, sideVars, ghostVars, Typed, TypeOK
  <1>3. CASE job[o].todo # {}
    <2>. DEFINE x == Current(o)
    <2>1. x \in Doc
      BY <1>3, CurrentTyped
    <2>2. StepTyped("cleanMappings", job[o], command[o].kind)
      BY <1>1, <1>3 DEF StepTyped
    <2>3. pc' \in [Op -> Pcs] /\ job' \in [Op -> Job] /\ StepsTyped'
      BY <1>1, <1>3, <2>2, GotoFrame DEF CleanChunks
    <2>4. chunks' = [chunks EXCEPT ![x] = {}] /\ vectors' = [vectors EXCEPT ![x] = {}]
      BY <1>3 DEF CleanChunks
    <2>5. /\ chunks' \in [Doc -> SUBSET [gen : 1 .. MaxGen, batch : 1 .. Batches, of : Content]]
          /\ vectors' \in [Doc -> SUBSET (1 .. MaxGen)]
      <3>. HIDE DEF x
      <3>. QED
        BY <1>1, <2>1, <2>4 DEF TypeOK
    <2>6. QED
      BY <1>1, <1>3, <2>3, <2>5 DEF CleanChunks, sideVars, ghostVars, Typed, TypeOK
  <1>4. QED
    BY <1>2, <1>3

\* CleanMappings keeps the types.
LEMMA CleanMappingsTyped ==
    ASSUME Typed, NEW o \in Op, CleanMappings(o)
    PROVE  Typed'
  <1>. DEFINE x == Current(o)
              paths == {m.raw : m \in mappings[x]} \cup ({row[x].raw} \ {0})
              j == [job[o] EXCEPT !.paths = paths]
  <1>1. /\ TypeOK /\ command' = command /\ job[o] \in Job
        /\ StepTyped("cleanMappings", job[o], command[o].kind) /\ job[o].todo # {}
    BY DEF Typed, TypeOK, StepsTyped, StepTyped, CleanMappings, ghostVars
  <1>2. x \in Doc
    BY <1>1, CurrentTyped
  <1>3. paths \in SUBSET Versions
    <2>. HIDE DEF x
    <2>1. /\ mappings[x] \subseteq [gen : 1 .. MaxGen, sv : Versions, raw : Versions, of : Content]
          /\ row[x] \in Row
      BY <1>1, <1>2 DEF TypeOK
    <2>2. row[x].raw # 0 => row[x].raw \in Versions
      BY <2>1, BoundsAreNumbers DEF Row, Gens, Versions
    <2>3. \A m \in mappings[x] : m.raw \in Versions
      BY <2>1
    <2>4. QED
      BY <2>2, <2>3
  <1>4. j \in Job /\ j.todo = job[o].todo
    <2>. HIDE DEF paths
    <2>. QED
      BY <1>1, <1>3 DEF Job
  <1>5. StepTyped("cleanRaw", j, command[o].kind)
    <2>. HIDE DEF j
    <2>. QED
      BY <1>1, <1>4 DEF StepTyped
  <1>6. pc' \in [Op -> Pcs] /\ job' \in [Op -> Job] /\ StepsTyped'
    <2>1. job' = [job EXCEPT ![o] = j]
      BY DEF CleanMappings, SetJob
    <2>2. QED
      <3>. HIDE DEF j
      <3>. QED
        BY <1>1, <1>4, <1>5, <2>1, StepFrame DEF CleanMappings, Goto
  <1>7. mappings' \in [Doc -> SUBSET [gen : 1 .. MaxGen, sv : Versions, raw : Versions, of : Content]]
    <2>1. mappings' = [mappings EXCEPT ![x] = {}]
      BY DEF CleanMappings
    <2>2. QED
      <3>. HIDE DEF x
      <3>. QED
        BY <1>1, <1>2, <2>1 DEF TypeOK
  <1>8. QED
    BY <1>1, <1>6, <1>7 DEF CleanMappings, sideVars, ghostVars, Typed, TypeOK

\* A raw store without some files is one.
LEMMA WithoutTyped ==
    ASSUME TypeOK, NEW x, NEW paths
    PROVE  Without(x, paths) \in [Doc -> [Versions -> Content \cup {NoFile}]]
  <1>1. CASE x \in Doc
    <2>. DEFINE f == [v \in Versions |-> IF v \in paths THEN NoFile ELSE raw[x][v]]
    <2>1. f \in [Versions -> Content \cup {NoFile}]
      BY <1>1 DEF TypeOK
    <2>2. QED
      <3>. HIDE DEF f
      <3>1. [raw EXCEPT ![x] = f] \in [Doc -> [Versions -> Content \cup {NoFile}]]
        BY <2>1 DEF TypeOK
      <3>2. QED
        BY <3>1 DEF Without, f
  <1>2. CASE x \notin Doc
    BY <1>2 DEF Without, TypeOK
  <1>3. QED
    BY <1>1, <1>2

\* CleanRaw keeps the types.
LEMMA CleanRawTyped ==
    ASSUME Typed, NEW o \in Op, CleanRaw(o)
    PROVE  Typed'
  <1>. DEFINE x == Current(o)
              j == [job[o] EXCEPT !.todo = job[o].todo \ {x}, !.paths = {}]
  <1>1. /\ TypeOK /\ command' = command /\ job[o] \in Job
        /\ StepTyped("cleanRaw", job[o], command[o].kind)
    BY DEF Typed, TypeOK, StepsTyped, CleanRaw, ghostVars
  <1>2. j \in Job
    <2>. DEFINE d == job[o].todo \ {x}
    <2>1. d \in SUBSET Doc
      BY <1>1 DEF Job
    <2>2. QED
      <3>. HIDE DEF d
      <3>1. [job[o] EXCEPT !.todo = d, !.paths = {}] \in Job
        BY <1>1, <2>1, JobCleaned
      <3>2. QED
        BY <3>1 DEF d
  <1>3. StepTyped("cleanChunks", j, command[o].kind)
    <2>. HIDE DEF j
    <2>. QED
      BY <1>1 DEF StepTyped
  <1>4. pc' \in [Op -> Pcs] /\ job' \in [Op -> Job] /\ StepsTyped'
    <2>1. job' = [job EXCEPT ![o] = j]
      BY DEF CleanRaw, SetJob
    <2>2. QED
      <3>. HIDE DEF j
      <3>. QED
        BY <1>1, <1>2, <1>3, <2>1, StepFrame DEF CleanRaw, Goto
  <1>5. raw' \in [Doc -> [Versions -> Content \cup {NoFile}]]
    BY <1>1, WithoutTyped DEF CleanRaw
  <1>6. QED
    BY <1>1, <1>4, <1>5 DEF CleanRaw, storeVars, sideVars, ghostVars, Typed, TypeOK

\* The three steps of delete_base keep the types.
LEMMA BaseDeleteTyped ==
    ASSUME Typed, NEW o \in Op, FenceBase(o) \/ CleanBaseChunks(o) \/ CleanBaseRaw(o)
    PROVE  Typed'
  <1>1. /\ TypeOK /\ command' = command
        /\ StepTyped(pc[o], job[o], command[o].kind)
    BY DEF Typed, StepsTyped, FenceBase, CleanBaseChunks, CleanBaseRaw, ghostVars
  <1>2. /\ pc' \in [Op -> Pcs] /\ job' \in [Op -> Job] /\ StepsTyped'
        /\ opState' \in [Op -> {"queued", "succeeded", "failed"}]
    <2>1. CASE \E s \in {"queued", "succeeded"} : Finish(o, s)
      BY <1>1, <2>1, FinishTyped
    <2>2. CASE \E l \in BasePcs : Goto(o, l) /\ command[o].kind = "deleteBase" /\ UNCHANGED <<opState, job>>
      <3>1. PICK l \in BasePcs : Goto(o, l)
        BY <2>2
      <3>2. StepTyped(l, job[o], command[o].kind)
        BY <2>2 DEF StepTyped
      <3>3. QED
        BY <1>1, <2>2, <3>1, <3>2, GotoFrame DEF TypeOK
    <2>3. QED
      <3>1. CASE FenceBase(o)
        BY <2>1, <2>2, <3>1 DEF FenceBase
      <3>2. CASE CleanBaseChunks(o)
        BY <1>1, <2>2, <3>2 DEF CleanBaseChunks, StepTyped
      <3>3. CASE CleanBaseRaw(o)
        BY <2>1, <3>3 DEF CleanBaseRaw
      <3>4. QED
        BY <3>1, <3>2, <3>3
  <1>3. CASE FenceBase(o)
    <2>1. /\ life' \in [Doc -> {"none", "active", "deleting"}] /\ committed' \subseteq Op
          /\ events' \in 0 .. MaxEvents /\ baseLife' \in {"active", "deleting"}
      BY <1>1, <1>3, AnswersCounted DEF FenceBase, BaseDeleting, Marked, TypeOK
    <2>2. QED
      BY <1>1, <1>2, <1>3, <2>1 DEF FenceBase, sideVars, ghostVars, Typed, TypeOK
  <1>4. CASE CleanBaseChunks(o)
    <2>1. /\ chunks' \in [Doc -> SUBSET [gen : 1 .. MaxGen, batch : 1 .. Batches, of : Content]]
          /\ vectors' \in [Doc -> SUBSET (1 .. MaxGen)]
      BY <1>4 DEF CleanBaseChunks
    <2>2. QED
      BY <1>1, <1>2, <1>4, <2>1 DEF CleanBaseChunks, sideVars, ghostVars, Typed, TypeOK
  <1>5. CASE CleanBaseRaw(o)
    <2>1. raw' \in [Doc -> [Versions -> Content \cup {NoFile}]] /\ committed' \subseteq Op
      BY <1>1, <1>5 DEF CleanBaseRaw, Marked, TypeOK
    <2>2. QED
      BY <1>1, <1>2, <1>5, <2>1 DEF CleanBaseRaw, sideVars, ghostVars, Typed, TypeOK
  <1>6. QED
    BY <1>3, <1>4, <1>5

----------------------------------------------------------------------------
\* Retries, restarts and what runs beside the workers.

\* Crash keeps the types.
LEMMA CrashTyped ==
    ASSUME Typed, Crash
    PROVE  Typed'
  <1>1. StepsTyped'
    BY DEF Crash, ghostVars, StepsTyped, StepTyped
  <1>2. TypeOK'
    BY NoJobTyped, NewRowTyped, EventCounted
    DEF Crash, storeVars, ghostVars, NoRename, RecoverySteps, Typed, TypeOK
  <1>3. QED
    BY <1>1, <1>2 DEF Typed

\* Both steps of the recovery keep the types.
LEMMA RecoveryTyped ==
    ASSUME Typed, RecoverRead \/ RecoverWrite
    PROVE  Typed'
  <1>1. recovery'.step \in RecoverySteps /\ recovery'.ids \subseteq Doc
    BY DEF RecoverRead, RecoverWrite, RecoverySteps, AfterStep
  <1>2. row' \in [Doc -> Row]
    <2>1. ASSUME NEW x \in Doc, NEW s \in {"pending", "failed"}
          PROVE  [GiveUp(row[x]) EXCEPT !.status = s] \in Row
      <3>1. GiveUp(row[x]) \in Row
        BY <2>1, GiveUpTyped DEF Typed, TypeOK
      <3>2. QED
        BY <3>1 DEF Row
    <2>2. row \in [Doc -> Row]
      BY DEF Typed, TypeOK
    <2>3. CASE RecoverRead
      BY <2>2, <2>3 DEF RecoverRead, storeVars
    <2>4. CASE RecoverWrite
      <3>1. PICK s \in {"pending", "failed"} :
                row' = [x \in Doc |-> IF x \notin recovery.ids THEN row[x]
                                     ELSE [GiveUp(row[x]) EXCEPT !.status = s]]
        BY <2>4, Zenon DEF RecoverWrite
      <3>2. ASSUME NEW x \in Doc PROVE row'[x] \in Row
        <4>1. row'[x] \in {row[x], [GiveUp(row[x]) EXCEPT !.status = s]}
          BY <3>1
        <4>2. QED
          BY <2>1, <2>2, <4>1
      <3>3. QED
        BY <3>1, <3>2
    <2>5. QED
      BY <2>3, <2>4
  <1>3. StepsTyped'
    BY DEF RecoverRead, RecoverWrite, ghostVars, Typed, StepsTyped
  <1>4. QED
    BY <1>1, <1>2, <1>3 DEF RecoverRead, RecoverWrite, storeVars, ghostVars, Typed, TypeOK

\* Both steps of a rename keep the types.
LEMMA RenameTyped ==
    ASSUME Typed, RenamePut \/ \E x \in Doc : RenameRead(x)
    PROVE  Typed'
  <1>1. CASE \E x \in Doc : RenameRead(x)
    <2>1. renaming' \in [doc : Doc \cup {NoDoc}, copy : Row]
      BY <1>1 DEF RenameRead, Typed, TypeOK
    <2>2. events' \in 0 .. MaxEvents
      BY <1>1, EventCounted DEF RenameRead, Typed
    <2>3. QED
      BY <1>1, <2>1, <2>2 DEF RenameRead, storeVars, ghostVars, Typed, TypeOK, StepsTyped
  <1>2. CASE RenamePut
    <2>1. renaming.copy \in Row
      BY DEF Typed, TypeOK
    <2>2. life' \in [Doc -> {"none", "active", "deleting"}] /\ row' \in [Doc -> Row]
      BY <1>2, <2>1, UpsertTyped DEF RenamePut, Typed, TypeOK
    <2>3. renaming' \in [doc : Doc \cup {NoDoc}, copy : Row]
      BY <1>2, NewRowTyped DEF RenamePut, NoRename
    <2>4. QED
      BY <1>2, <2>2, <2>3 DEF RenamePut, Typed, TypeOK, StepsTyped
  <1>3. QED
    BY <1>1, <1>2

\* Retries and scans keep the types.
LEMMA SideTyped ==
    ASSUME Typed,
           \/ \E o \in Op : Retry(o)
           \/ ScanRead \/ ScanDone
           \/ \E x \in Doc, v \in Versions : ScanQuarantine(x, v)
    PROVE  Typed'
  <1>1. CASE \E o \in Op : Retry(o)
    BY <1>1, EventCounted DEF Retry, storeVars, sideVars, ghostVars, Typed, TypeOK, StepsTyped
  <1>2. CASE ScanRead \/ ScanDone
    BY <1>2, EventCounted DEF ScanRead, ScanDone, storeVars, ghostVars, Typed, TypeOK, StepsTyped
  <1>3. CASE \E x \in Doc, v \in Versions : ScanQuarantine(x, v)
    <2>1. raw' \in [Doc -> [Versions -> Content \cup {NoFile}]]
      BY <1>3 DEF ScanQuarantine, Typed, TypeOK
    <2>2. QED
      BY <1>3, <2>1 DEF ScanQuarantine, storeVars, sideVars, Typed, TypeOK, StepsTyped
  <1>4. QED
    BY <1>1, <1>2, <1>3

\* Every step keeps the types.
LEMMA StepTypedNext ==
    ASSUME Typed, [Next]_vars
    PROVE  Typed'
  <1>1. ASSUME NEW o \in Op, Ingest(o) PROVE Typed'
    BY <1>1, BeginIngestTyped, StartIngestTyped, WriteRawTyped, StageBeginTyped, ClearTyped,
       PutBatchTyped, ClearStagedFlagTyped, RowPutTyped, EmbedTyped, LastPutTyped,
       ActivateTyped, PruneTyped DEF Ingest
  <1>2. ASSUME NEW o \in Op, Delete(o) PROVE Typed'
    BY <1>2, BeginDeleteTyped, FenceTreeTyped, CleanChunksTyped, CleanMappingsTyped,
       CleanRawTyped, BaseDeleteTyped DEF Delete
  <1>3. CASE UNCHANGED vars
    BY <1>3 DEF vars, storeVars, sideVars, ghostVars, Typed, TypeOK, StepsTyped
  <1>4. QED
    BY <1>1, <1>2, <1>3, CrashTyped, RecoveryTyped, RenameTyped, SideTyped DEF Next

\* Every variable keeps its type: no row, job, chunk or mapping ever holds a
\* generation or a source version outside the bounds, or an unknown content.
THEOREM TypeCorrect == Spec => []TypeOK
  <1>1. Init => Typed
    BY InitTyped
  <1>2. Typed /\ [Next]_vars => Typed'
    BY StepTypedNext
  <1>3. Typed => TypeOK
    BY DEF Typed
  <1>4. QED
    BY <1>1, <1>2, <1>3, PTL DEF Spec

----------------------------------------------------------------------------
\* What a step may do to the lifecycles and the data of a document.

\* The lifecycles change by a whole-row write, the fence of a tree or that of
\* the base.
FencesTree(x) ==
    /\ baseLife' = baseLife
    /\ life' = [y \in Doc |-> IF y \in Tree(x) /\ life[y] # "none" THEN "deleting" ELSE life[y]]
FencesBase ==
    baseLife' = "deleting" /\ life' = [x \in Doc |-> IF life[x] = "active" THEN "deleting" ELSE life[x]]
Upserts == baseLife' = baseLife /\ \E x, r : upsert(x, r)

\* There is no other way.
LEMMA LifeStep ==
    ASSUME TypeOK, Next
    PROVE  \/ UNCHANGED <<baseLife, life>>
           \/ Upserts
           \/ \E x \in Doc : FencesTree(x)
           \/ FencesBase
  <1>1. ASSUME NEW o \in Op, Ingest(o) PROVE UNCHANGED <<baseLife, life>> \/ Upserts
    <2>1. CASE StartIngest(o)
      BY <2>1 DEF StartIngest, Upserts
    <2>2. CASE EmbedPut(o) \/ DegradePut(o)
      BY <2>2 DEF EmbedPut, DegradePut, PutRow, RowRest, Upserts
    <2>3. CASE RestorePrevious(o) \/ FailDocument(o)
      BY <2>3 DEF RestorePrevious, FailDocument, RowRest, Upserts
    <2>4. CASE Activate(o)
      BY <2>4 DEF Activate, Upserts
    <2>5. CASE BeginIngest(o) \/ WriteRaw(o) \/ StageBegin(o) \/ ClearLeftover(o) \/ PutBatch(o)
      BY <2>5 DEF BeginIngest, WriteRaw, StageBegin, ClearLeftover, PutBatch, storeVars
    <2>6. CASE \/ ClearStagedData(o) \/ ClearStagedFlag(o) \/ Embed(o)
               \/ PruneMappings(o) \/ PruneChunks(o) \/ PruneRaw(o)
      BY <2>6 DEF ClearStagedData, ClearStagedFlag, Embed, PruneMappings, PruneChunks, PruneRaw,
                  storeVars
    <2>7. QED
      BY <1>1, <2>1, <2>2, <2>3, <2>4, <2>5, <2>6 DEF Ingest
  <1>2. ASSUME NEW o \in Op, Delete(o)
        PROVE  UNCHANGED <<baseLife, life>> \/ FencesTree(target(o)) \/ FencesBase
    <2>1. CASE FenceTree(o)
      BY <2>1 DEF FenceTree, FencesTree
    <2>2. CASE FenceBase(o)
      BY <2>2 DEF FenceBase, BaseDeleting, FencesBase
    <2>3. CASE \/ BeginDelete(o) \/ CleanChunks(o) \/ CleanMappings(o) \/ CleanRaw(o)
               \/ CleanBaseChunks(o) \/ CleanBaseRaw(o)
      BY <2>3 DEF BeginDelete, CleanChunks, CleanMappings, CleanRaw, CleanBaseChunks, CleanBaseRaw,
                  storeVars
    <2>4. QED
      BY <1>2, <2>1, <2>2, <2>3 DEF Delete
  <1>3. CASE \/ \E o \in Op : Retry(o)
             \/ Crash \/ RecoverRead \/ RecoverWrite \/ (\E x \in Doc : RenameRead(x))
             \/ ScanRead \/ (\E x \in Doc, v \in Versions : ScanQuarantine(x, v)) \/ ScanDone
    BY <1>3 DEF Retry, Crash, RecoverRead, RecoverWrite, RenameRead, ScanRead, ScanQuarantine,
                ScanDone, storeVars
  <1>4. CASE RenamePut
    BY <1>4 DEF RenamePut, Upserts
  <1>5. QED
    BY <1>1, <1>2, <1>3, <1>4, TargetTyped DEF Next

\* The tree of a document: reflexive and closed under the directories above.
LEMMA LineageFacts ==
    ASSUME NEW x \in Doc
    PROVE  /\ x \in Lineage[x] /\ Lineage[x] \subseteq Doc
           /\ \A y \in Lineage[x] : Lineage[y] \subseteq Lineage[x]
           /\ x \in Tree(x)
           /\ \A y \in Doc : y \in Tree(x) <=> x \in Lineage[y]
  BY GenerationsAssumption DEF Tree

\* No step leaves a live document below a fence: a whole-row write tests the
\* scope, a fence turns the whole tree, and the base turns all that is active.
LEMMA LiveScopeStep ==
    ASSUME Typed, LiveScope, [Next]_vars
    PROVE  LiveScope'
  <1>. USE DEF LiveScope
  <1>1. CASE UNCHANGED <<baseLife, life>>
    BY <1>1
  <1>2. CASE Upserts
    <2>1. PICK x, r : upsert(x, r)
      BY <1>2 DEF Upserts
    <2>2. CASE x \in Doc
      <3>1. life' = [life EXCEPT ![x] = "active"] /\ baseLife' = baseLife /\ baseLife = "active"
        BY <1>2, <2>1 DEF Upserts, upsert, Writable, ScopeActive
      <3>2. \A y \in Lineage[x] \ {x} : life[y] = "active"
        BY <2>1 DEF upsert, Writable, ScopeActive
      <3>3. \A y \in Doc : life[y] = "active" => life'[y] = "active"
        BY <2>2, <3>1 DEF Typed, TypeOK
      <3>4. ASSUME NEW z \in Doc, life'[z] = "active", NEW y \in Lineage[z]
            PROVE  life'[y] = "active"
        <4>1. y \in Doc
          BY LineageFacts
        <4>2. CASE z = x
          BY <2>2, <3>1, <3>2, <3>3, <4>1, <4>2 DEF Typed, TypeOK
        <4>3. CASE z # x
          BY <2>2, <3>1, <3>3, <3>4, <4>1, <4>3 DEF Typed, TypeOK
        <4>4. QED
          BY <4>2, <4>3
      <3>5. QED
        BY <3>1, <3>4
    <2>3. CASE x \notin Doc
      <3>1. life' = life
        BY <2>1, <2>3 DEF upsert, Typed, TypeOK
      <3>2. QED
        BY <1>2, <3>1 DEF Upserts
    <2>4. QED
      BY <2>2, <2>3
  <1>3. CASE \E x \in Doc : FencesTree(x)
    <2>1. PICK x \in Doc : FencesTree(x)
      BY <1>3
    <2>2. ASSUME NEW z \in Doc, life'[z] = "active", NEW y \in Lineage[z]
          PROVE  life'[y] = "active"
      <3>1. y \in Doc
        BY LineageFacts
      <3>2. z \notin Tree(x) /\ life[z] = "active"
        BY <2>1, <2>2 DEF FencesTree
      <3>3. x \notin Lineage[z]
        BY <3>2, LineageFacts
      <3>4. y \notin Tree(x)
        BY <3>1, <3>3, LineageFacts
      <3>5. life[y] = "active"
        BY <3>2
      <3>6. QED
        BY <2>1, <3>1, <3>4, <3>5 DEF FencesTree
    <2>3. ASSUME NEW z \in Doc, life'[z] = "active" PROVE baseLife' = "active"
      <3>1. life[z] = "active"
        BY <2>1, <2>3 DEF FencesTree
      <3>2. QED
        BY <2>1, <3>1 DEF FencesTree
    <2>4. QED
      BY <2>2, <2>3
  <1>4. CASE FencesBase
    BY <1>4 DEF FencesBase
  <1>5. CASE Next
    BY <1>1, <1>2, <1>3, <1>4, <1>5, LifeStep DEF Typed
  <1>6. CASE UNCHANGED vars
    BY <1>1, <1>6 DEF vars, storeVars
  <1>7. QED
    BY <1>5, <1>6

\* At first every directory is active.
LEMMA InitScope == Init => LiveScope
  <1>. SUFFICES ASSUME Init, NEW x \in Doc, life[x] = "active", NEW y \in Lineage[x]
                PROVE  baseLife = "active" /\ life[y] = "active"
    BY LineageFacts DEF LiveScope
  <1>1. PICK present \in SUBSET {z \in Doc : Leaf(z)} :
            life = [z \in Doc |-> IF Leaf(z) /\ z \notin present THEN "none" ELSE "active"]
    BY DEF Init
  <1>2. y \in Doc /\ x \in Tree(y)
    BY LineageFacts
  <1>3. CASE y = x
    BY <1>3 DEF Init
  <1>4. CASE y # x
    <2>1. ~Leaf(y)
      BY <1>2, <1>4 DEF Leaf
    <2>2. QED
      BY <1>1, <1>2, <2>1 DEF Init
  <1>5. QED
    BY <1>3, <1>4

\* A document is live only below live directories in a live base: the fence of
\* a directory or of the base reaches what an import under way puts there.
THEOREM ScopeIsLive == Spec => []LiveScope
  <1>1. Init => Typed /\ LiveScope
    BY InitTyped, InitScope
  <1>2. (Typed /\ LiveScope) /\ [Next]_vars => (Typed /\ LiveScope)'
    BY StepTypedNext, LiveScopeStep
  <1>3. QED
    BY <1>1, <1>2, PTL DEF Spec

----------------------------------------------------------------------------
\* A deleted document.

\* A fenced document is not deleted; nor is anything above it.
LEMMA FencedIsLive ==
    ASSUME NEW x \in Doc, Fenced(x)
    PROVE  baseLife = "active" /\ \A y \in Lineage[x] : life[y] = "active"
  BY DEF Fenced

\* The published data of a document that is gone.
Loses(x) == /\ chunks'[x] \subseteq chunks[x] /\ mappings'[x] \subseteq mappings[x]

\* Data is added below an active scope only.
LEMMA DataStep ==
    ASSUME Typed, Next, NEW x \in Doc
    PROVE  Loses(x) \/ Fenced(x)
  <1>. USE DEF Loses
  <1>1. /\ chunks \in [Doc -> SUBSET [gen : 1 .. MaxGen, batch : 1 .. Batches, of : Content]]
        /\ mappings \in [Doc -> SUBSET [gen : 1 .. MaxGen, sv : Versions, raw : Versions, of : Content]]
    BY DEF Typed, TypeOK
  <1>2. ASSUME NEW o \in Op, Ingest(o) PROVE Loses(x) \/ Fenced(x)
    <2>. DEFINE y == target(o)
    <2>1. CASE PutBatch(o)
      BY <1>1, <2>1 DEF PutBatch, Accepts
    <2>2. CASE Activate(o)
      BY <1>1, <2>2 DEF Activate
    <2>3. CASE ClearLeftover(o) \/ ClearStagedData(o)
      BY <1>1, <2>3 DEF ClearLeftover, ClearStagedData
    <2>4. CASE PruneMappings(o) \/ PruneChunks(o) \/ PruneRaw(o)
      BY <1>1, <2>4 DEF PruneMappings, PruneChunks, PruneRaw, storeVars
    <2>5. CASE \/ BeginIngest(o) \/ StartIngest(o) \/ WriteRaw(o) \/ StageBegin(o)
               \/ ClearStagedFlag(o) \/ Embed(o)
      BY <2>5 DEF BeginIngest, StartIngest, WriteRaw, StageBegin, ClearStagedFlag, Embed, storeVars
    <2>6. CASE EmbedPut(o) \/ DegradePut(o) \/ RestorePrevious(o) \/ FailDocument(o)
      BY <2>6 DEF EmbedPut, DegradePut, RestorePrevious, FailDocument, RowRest
    <2>7. QED
      BY <1>2, <2>1, <2>2, <2>3, <2>4, <2>5, <2>6 DEF Ingest
  <1>3. ASSUME NEW o \in Op, Delete(o) PROVE Loses(x)
    <2>1. CASE CleanChunks(o) \/ CleanMappings(o)
      BY <1>1, <2>1 DEF CleanChunks, CleanMappings
    <2>2. CASE CleanBaseChunks(o)
      BY <2>2 DEF CleanBaseChunks
    <2>3. CASE BeginDelete(o) \/ FenceTree(o) \/ CleanRaw(o) \/ FenceBase(o) \/ CleanBaseRaw(o)
      BY <2>3 DEF BeginDelete, FenceTree, CleanRaw, FenceBase, CleanBaseRaw, storeVars
    <2>4. QED
      BY <1>3, <2>1, <2>2, <2>3 DEF Delete
  <1>4. CASE \/ \E o \in Op : Retry(o)
             \/ Crash \/ RecoverRead \/ RecoverWrite \/ (\E y \in Doc : RenameRead(y))
             \/ RenamePut \/ ScanRead \/ ScanDone
             \/ \E y \in Doc, v \in Versions : ScanQuarantine(y, v)
    BY <1>4 DEF Retry, Crash, RecoverRead, RecoverWrite, RenameRead, RenamePut, ScanRead,
                ScanQuarantine, ScanDone, storeVars
  <1>5. QED
    BY <1>2, <1>3, <1>4 DEF Next

\* The active generation changes by a whole-row write only.
LEMMA ActiveStep ==
    ASSUME Typed, Next, NEW x \in Doc
    PROVE  row'[x].active = row[x].active \/ \E r : upsert(x, r)
  <1>1. row \in [Doc -> Row]
    BY DEF Typed, TypeOK
  <1>2. ASSUME NEW y, NEW r, upsert(y, r)
        PROVE  row'[x].active = row[x].active \/ \E s : upsert(x, s)
    <2>1. CASE y = x
      BY <1>2, <2>1
    <2>2. CASE y # x
      BY <1>1, <1>2, <2>2 DEF upsert
    <2>3. QED
      BY <2>1, <2>2
  <1>3. ASSUME NEW o \in Op, Ingest(o)
        PROVE  row'[x].active = row[x].active \/ \E y, r : upsert(y, r)
    <2>1. CASE StageBegin(o) \/ ClearStagedFlag(o)
      <3>1. ASSUME NEW g \in Gens PROVE Build(row[x], g).active = row[x].active
        BY <1>1, BuildTyped
      <3>2. GiveUp(row[x]).active = row[x].active
        BY <1>1, GiveUpTyped
      <3>3. StageBegin(o) => NextGen(target(o)) \in Gens
        <4>1. row[target(o)].active \in Nat
          <5>1. row[target(o)] \in Row
            BY <1>1, TargetTyped DEF Typed
          <5>2. QED
            BY <5>1 DEF Row, Gens
        <4>2. StageBegin(o) => NextGen(target(o)) <= MaxGen
          BY DEF StageBegin
        <4>3. QED
          BY <4>1, <4>2, BoundsAreNumbers DEF NextGen, Gens
      <3>4. CASE StageBegin(o)
        BY <1>1, <3>1, <3>3, <3>4 DEF StageBegin
      <3>5. CASE ClearStagedFlag(o)
        BY <1>1, <3>2, <3>5 DEF ClearStagedFlag
      <3>6. QED
        BY <2>1, <3>4, <3>5
    <2>2. CASE StartIngest(o)
      BY <2>2 DEF StartIngest
    <2>3. CASE EmbedPut(o) \/ DegradePut(o)
      BY <2>3 DEF EmbedPut, DegradePut, PutRow
    <2>4. CASE RestorePrevious(o) \/ FailDocument(o)
      BY <2>4 DEF RestorePrevious, FailDocument
    <2>5. CASE Activate(o)
      BY <2>5 DEF Activate
    <2>6. CASE BeginIngest(o) \/ WriteRaw(o) \/ ClearLeftover(o) \/ PutBatch(o)
      BY <2>6 DEF BeginIngest, WriteRaw, ClearLeftover, PutBatch, storeVars
    <2>7. CASE \/ ClearStagedData(o) \/ Embed(o)
               \/ PruneMappings(o) \/ PruneChunks(o) \/ PruneRaw(o)
      BY <2>7 DEF ClearStagedData, Embed, PruneMappings, PruneChunks, PruneRaw, storeVars
    <2>8. QED
      BY <1>3, <2>1, <2>2, <2>3, <2>4, <2>5, <2>6, <2>7 DEF Ingest
  <1>4. ASSUME NEW o \in Op, Delete(o) PROVE row' = row
    BY <1>4 DEF Delete, BeginDelete, FenceTree, CleanChunks, CleanMappings, CleanRaw, FenceBase,
                CleanBaseChunks, CleanBaseRaw, storeVars
  <1>5. CASE \/ \E o \in Op : Retry(o)
             \/ Crash \/ RecoverRead \/ (\E y \in Doc : RenameRead(y))
             \/ ScanRead \/ ScanDone
             \/ \E y \in Doc, v \in Versions : ScanQuarantine(y, v)
    BY <1>5 DEF Retry, Crash, RecoverRead, RenameRead, ScanRead, ScanQuarantine, ScanDone, storeVars
  <1>6. CASE RecoverWrite
    <2>1. ASSUME NEW s PROVE [GiveUp(row[x]) EXCEPT !.status = s].active = row[x].active
      <3>1. GiveUp(row[x]) \in Row /\ GiveUp(row[x]).active = row[x].active
        BY <1>1, GiveUpTyped
      <3>2. QED
        BY <3>1 DEF Row
    <2>2. QED
      BY <1>6, <2>1 DEF RecoverWrite
  <1>7. CASE RenamePut
    BY <1>2, <1>7 DEF RenamePut
  <1>8. QED
    BY <1>2, <1>3, <1>4, <1>5, <1>6, <1>7 DEF Next

\* Deletion is for good.
LEMMA DeletedStep ==
    ASSUME Typed, [Next]_vars, NEW x \in Doc, life[x] = "deleting"
    PROVE  /\ life'[x] = "deleting" /\ Loses(x)
           /\ row'[x].active = row[x].active
  <1>1. CASE UNCHANGED vars
    BY <1>1 DEF vars, storeVars, Loses
  <1>2. CASE Next
    <2>1. ~Fenced(x)
      BY LineageFacts DEF Fenced
    <2>2. ASSUME NEW r PROVE ~upsert(x, r)
      BY DEF upsert, Writable
    <2>3. life'[x] = "deleting"
      <3>1. CASE Upserts
        <4>1. PICK y, r : upsert(y, r)
          BY <3>1 DEF Upserts
        <4>2. y # x
          BY <2>2, <4>1
        <4>3. QED
          BY <4>1, <4>2 DEF upsert, Typed, TypeOK
      <3>2. CASE \E y \in Doc : FencesTree(y)
        BY <3>2 DEF FencesTree
      <3>3. CASE FencesBase
        BY <3>3 DEF FencesBase
      <3>4. QED
        BY <1>2, <3>1, <3>2, <3>3, LifeStep DEF Typed
    <2>4. QED
      BY <1>2, <2>1, <2>2, <2>3, DataStep, ActiveStep
  <1>3. QED
    BY <1>1, <1>2

\* From its fence on a document only loses data: an ingest, a rename, a
\* recovery or a late activation never brings any of it back.
THEOREM DeletionIsFinal == Spec => DeletedOnlyLoses
  <1>1. Typed /\ [Next]_vars =>
            [\A x \in Doc : life[x] = "deleting" =>
                /\ life'[x] = "deleting"
                /\ chunks'[x] \subseteq chunks[x] /\ mappings'[x] \subseteq mappings[x]
                /\ row'[x].active = row[x].active]_vars
    BY DeletedStep DEF Loses
  <1>2. QED
    BY <1>1, InitTyped, StepTypedNext, PTL DEF Spec, DeletedOnlyLoses

----------------------------------------------------------------------------
\* One generation of a command.

\* The steps before the activation is answered.
BeforePcs == {"start", "raw"} \cup StagedPcs

\* A command that published n generations, with or without its marker, at l.
Once(n, marked, l) ==
    /\ n \in Nat /\ n <= 1
    /\ marked \/ n = 0
    /\ l \in BeforePcs => ~marked

PublishInv == \A o \in Op : Once(published[o], o \in committed, pc[o])

\* No step activates a second time: an ingest whose marker is committed does
\* not begin, and activation commits the marker.
LEMMA PublishStep ==
    ASSUME Typed, PublishInv, [Next]_vars
    PROVE  PublishInv'
  <1>. USE DEF PublishInv, Once, BeforePcs
  <1>1. pc \in [Op -> Pcs] /\ published \in [Op -> Nat]
    BY DEF Typed, TypeOK
  <1>2. ASSUME NEW o \in Op, Ingest(o) PROVE PublishInv'
    <2>1. CASE BeginIngest(o)
      <3>1. published' = published /\ committed' = committed
        BY <2>1 DEF BeginIngest, storeVars, ghostVars
      <3>2. \/ pc' = [pc EXCEPT ![o] = "idle"]
            \/ o \notin committed /\ pc' = [pc EXCEPT ![o] = "start"]
        BY <2>1 DEF BeginIngest, Resolved, Finish, Goto
      <3>3. QED
        BY <1>1, <3>1, <3>2
    <2>2. CASE Activate(o)
      <3>1. /\ pc[o] = "activate" /\ o \notin committed /\ published[o] = 0
        BY <2>2 DEF Activate
      <3>2. /\ \E l \in {"fail", "prune"} : pc' = [pc EXCEPT ![o] = l]
            /\ \/ published' = published /\ committed' = committed
               \/ published' = [published EXCEPT ![o] = @ + 1] /\ committed' = committed \cup {o}
        BY <2>2 DEF Activate, Goto, Marked
      <3>3. QED
        BY <1>1, <3>1, <3>2
    <2>3. CASE ~BeginIngest(o) /\ ~Activate(o)
      <3>1. published' = published /\ committed' = committed
        BY <1>2, <2>3
        DEF Ingest, StartIngest, WriteRaw, StageBegin, ClearLeftover, PutBatch, ClearStagedData,
            ClearStagedFlag, EmbedPut, Embed, DegradePut, RestorePrevious, FailDocument,
            PruneMappings, PruneChunks, PruneRaw, RowRest, storeVars, ghostVars
      <3>2. \E l \in Pcs : pc' = [pc EXCEPT ![o] = l] /\ (l \in BeforePcs => pc[o] \in BeforePcs)
        <4>1. CASE pc' = pc
          BY <1>1, <4>1
        <4>2. CASE StartIngest(o) \/ WriteRaw(o) \/ StageBegin(o) \/ ClearLeftover(o)
          BY <4>2 DEF StartIngest, WriteRaw, StageBegin, ClearLeftover, Goto, GotoFail, Finish
        <4>3. CASE PutBatch(o) \/ ClearStagedData(o) \/ ClearStagedFlag(o) \/ Embed(o)
          BY <4>1, <4>3 DEF PutBatch, ClearStagedData, ClearStagedFlag, Embed, Goto, GotoFail
        <4>4. CASE EmbedPut(o) \/ DegradePut(o) \/ RestorePrevious(o) \/ FailDocument(o)
          BY <4>4 DEF EmbedPut, DegradePut, RestorePrevious, FailDocument, PutRow, Goto, Finish
        <4>5. CASE PruneMappings(o) \/ PruneChunks(o) \/ PruneRaw(o)
          BY <4>5 DEF PruneMappings, PruneChunks, PruneRaw, Goto, Finish
        <4>6. QED
          BY <1>2, <2>3, <4>2, <4>3, <4>4, <4>5 DEF Ingest
      <3>3. QED
        BY <1>1, <3>1, <3>2
    <2>4. QED
      BY <2>1, <2>2, <2>3
  <1>3. ASSUME NEW o \in Op, Delete(o) PROVE PublishInv'
    <2>1. published' = published /\ committed' \subseteq committed \cup {o} /\ committed \subseteq committed'
      BY <1>3
      DEF Delete, BeginDelete, FenceTree, CleanChunks, CleanMappings, CleanRaw, FenceBase,
          CleanBaseChunks, CleanBaseRaw, Marked, storeVars, ghostVars
    <2>2. \E l \in Pcs \ BeforePcs : pc' = [pc EXCEPT ![o] = l]
      BY <1>3
      DEF Delete, BeginDelete, FenceTree, CleanChunks, CleanMappings, CleanRaw, FenceBase,
          CleanBaseChunks, CleanBaseRaw, Goto, Finish
    <2>3. QED
      BY <1>1, <2>1, <2>2
  <1>4. CASE Crash
    BY <1>1, <1>4 DEF Crash, storeVars, ghostVars
  <1>5. CASE \/ \E o \in Op : Retry(o)
             \/ RecoverRead \/ RecoverWrite \/ (\E y \in Doc : RenameRead(y))
             \/ RenamePut \/ ScanRead \/ ScanDone
             \/ \E y \in Doc, v \in Versions : ScanQuarantine(y, v)
    <2>1. published' = published /\ committed' = committed /\ pc' = pc
      BY <1>5
      DEF Retry, RecoverRead, RecoverWrite, RenameRead, RenamePut, ScanRead, ScanQuarantine,
          ScanDone, storeVars, ghostVars
    <2>2. QED
      BY <2>1
  <1>6. CASE UNCHANGED vars
    BY <1>6 DEF vars, storeVars, ghostVars
  <1>7. QED
    BY <1>2, <1>3, <1>4, <1>5, <1>6 DEF Next

\* A command publishes at most once, however often it is cut off, answered
\* wrongly, retried or replayed: until its marker commits nothing is published,
\* and once it has, no attempt reaches an activation again.
THEOREM PublishesOnce == Spec => []PublishedOnce
  <1>1. Init => Typed /\ PublishInv
    <2>. SUFFICES ASSUME Init PROVE PublishInv
      BY InitTyped
    <2>1. /\ published = [o \in Op |-> 0] /\ committed = {} /\ pc = [o \in Op |-> "idle"]
      BY DEF Init
    <2>2. QED
      BY <2>1 DEF PublishInv, Once, BeforePcs
  <1>2. (Typed /\ PublishInv) /\ [Next]_vars => (Typed /\ PublishInv)'
    BY StepTypedNext, PublishStep
  <1>3. PublishInv => PublishedOnce
    BY DEF PublishInv, Once, PublishedOnce
  <1>4. QED
    BY <1>1, <1>2, <1>3, PTL DEF Spec

----------------------------------------------------------------------------
\* A delete that has answered.

Empty(x) == chunks[x] = {} /\ mappings[x] = {}
CleanPcs == {"cleanChunks", "cleanMappings", "cleanRaw"}

\* A delete at step l with the documents d still to do.
TreeGone(o) == /\ life[target(o)] = "deleting"
               /\ \A x \in Tree(target(o)) : Empty(x)
DeleteInv(o) ==
    command[o].kind = "delete" =>
        /\ o \in committed => life[target(o)] = "deleting"
        /\ pc[o] \in CleanPcs =>
              /\ life[target(o)] = "deleting"
              /\ job[o].todo \subseteq Tree(target(o))
              /\ \A x \in Tree(target(o)) \ job[o].todo : Empty(x)
        /\ pc[o] \in {"cleanMappings", "cleanRaw"} => chunks[Current(o)] = {}
        /\ pc[o] = "cleanRaw" => mappings[Current(o)] = {}
        /\ opState[o] = "succeeded" => TreeGone(o)

\* A delete of the base.
BaseInv(o) ==
    command[o].kind = "deleteBase" =>
        /\ pc[o] \in BasePcs => baseLife = "deleting"
        /\ pc[o] = "cleanBaseRaw" \/ opState[o] = "succeeded" =>
              baseLife = "deleting" /\ \A x \in Doc : chunks[x] = {}

CleanInv == \A o \in Op : DeleteInv(o) /\ BaseInv(o)

\* What is empty below a fence stays empty.
LEMMA EmptyStays ==
    ASSUME Typed, [Next]_vars, NEW x \in Doc
    PROVE  /\ \A y \in Lineage[x] : life[y] = "deleting" =>
                 Loses(x)
           /\ baseLife = "deleting" => Loses(x) /\ baseLife' = "deleting"
  <1>1. CASE UNCHANGED vars
    BY <1>1 DEF vars, storeVars, Loses
  <1>2. CASE Next
    <2>1. (\E y \in Lineage[x] : life[y] = "deleting") \/ baseLife = "deleting" => ~Fenced(x)
      BY DEF Fenced
    <2>2. baseLife = "deleting" => baseLife' = "deleting"
      BY <1>2, LifeStep DEF Typed, Upserts, upsert, Writable, ScopeActive, FencesTree, FencesBase
    <2>3. QED
      BY <1>2, <2>1, <2>2, DataStep
  <1>3. QED
    BY <1>1, <1>2

\* A fenced tree stays fenced, and what is empty below it stays empty.
LEMMA TreeStays ==
    ASSUME Typed, [Next]_vars, NEW t \in Doc, life[t] = "deleting"
    PROVE  /\ life'[t] = "deleting"
           /\ \A x \in Tree(t) : /\ chunks[x] = {} => chunks'[x] = {}
                                 /\ mappings[x] = {} => mappings'[x] = {}
  <1>1. life'[t] = "deleting"
    BY DeletedStep
  <1>2. ASSUME NEW x \in Tree(t)
        PROVE  /\ chunks[x] = {} => chunks'[x] = {}
               /\ mappings[x] = {} => mappings'[x] = {}
    <2>1. x \in Doc /\ t \in Lineage[x]
      BY DEF Tree
    <2>2. Loses(x)
      BY <2>1, EmptyStays
    <2>3. QED
      BY <2>2 DEF Loses
  <1>3. QED
    BY <1>1, <1>2

\* What a command is for never changes.
LEMMA TargetKept ==
    ASSUME [Next]_vars
    PROVE  command' = command
  <1>1. ASSUME NEW o \in Op, Ingest(o) PROVE command' = command
    BY <1>1
    DEF Ingest, BeginIngest, StartIngest, WriteRaw, StageBegin, ClearLeftover, PutBatch,
        ClearStagedData, ClearStagedFlag, EmbedPut, Embed, DegradePut, RestorePrevious, Activate,
        FailDocument, PruneMappings, PruneChunks, PruneRaw, RowRest, ghostVars
  <1>2. ASSUME NEW o \in Op, Delete(o) PROVE command' = command
    BY <1>2
    DEF Delete, BeginDelete, FenceTree, CleanChunks, CleanMappings, CleanRaw, FenceBase,
        CleanBaseChunks, CleanBaseRaw, ghostVars
  <1>3. CASE \/ \E o \in Op : Retry(o)
             \/ Crash \/ RecoverRead \/ RecoverWrite \/ (\E y \in Doc : RenameRead(y))
             \/ RenamePut \/ ScanRead \/ ScanDone
             \/ \E y \in Doc, v \in Versions : ScanQuarantine(y, v)
    BY <1>3
    DEF Retry, Crash, RecoverRead, RecoverWrite, RenameRead, RenamePut, ScanRead, ScanQuarantine,
        ScanDone, ghostVars
  <1>4. CASE UNCHANGED vars
    BY <1>4 DEF vars, ghostVars
  <1>5. QED
    BY <1>1, <1>2, <1>3, <1>4 DEF Next

\* A step that does not bring the delete forward.
LEMMA DeleteKept ==
    ASSUME Typed, [Next]_vars, NEW o \in Op, DeleteInv(o),
           pc'[o] \in CleanPcs => pc'[o] = pc[o] /\ job'[o] = job[o],
           o \in committed' => o \in committed,
           opState'[o] = "succeeded" => opState[o] = "succeeded"
    PROVE  DeleteInv(o)'
  <1>. SUFFICES ASSUME command[o].kind = "delete" PROVE DeleteInv(o)'
    BY TargetKept DEF DeleteInv
  <1>. DEFINE t == target(o)
  <1>1. t \in Doc /\ t' = t /\ Tree(t)' = Tree(t) /\ command' = command
    BY TargetTyped, TargetKept DEF Typed, target, Tree
  <1>2. CASE life[t] = "deleting"
    <2>1. /\ life'[t] = "deleting"
          /\ \A x \in Tree(t) : /\ chunks[x] = {} => chunks'[x] = {}
                                /\ mappings[x] = {} => mappings'[x] = {}
      BY <1>1, <1>2, TreeStays
    <2>2. ASSUME pc'[o] \in CleanPcs
          PROVE  /\ job'[o].todo \subseteq Tree(t)
                 /\ \A x \in Tree(t) \ job'[o].todo : Empty(x)'
      BY <2>1, <2>2 DEF DeleteInv, Empty
    <2>3. ASSUME pc'[o] \in {"cleanMappings", "cleanRaw"}
          PROVE  chunks'[Current(o)'] = {}
      <3>1. Current(o)' = Current(o) /\ Current(o) \in Tree(t)
        <4>1. job'[o] = job[o] /\ pc'[o] = pc[o] /\ job[o].todo # {}
          BY <2>3 DEF CleanPcs, Typed, StepsTyped, StepTyped
        <4>2. Current(o) \in job[o].todo
          BY <4>1, CurrentTyped
        <4>3. QED
          BY <2>3, <4>1, <4>2 DEF CleanPcs, Current, DeleteInv
      <3>2. QED
        BY <2>1, <2>3, <3>1 DEF CleanPcs, DeleteInv
    <2>4. ASSUME pc'[o] = "cleanRaw"
          PROVE  mappings'[Current(o)'] = {}
      <3>1. Current(o)' = Current(o) /\ Current(o) \in Tree(t)
        <4>1. job'[o] = job[o] /\ pc'[o] = pc[o] /\ job[o].todo # {}
          BY <2>4 DEF CleanPcs, Typed, StepsTyped, StepTyped
        <4>2. Current(o) \in job[o].todo
          BY <4>1, CurrentTyped
        <4>3. QED
          BY <2>4, <4>1, <4>2 DEF CleanPcs, Current, DeleteInv
      <3>2. QED
        BY <2>1, <2>4, <3>1 DEF CleanPcs, DeleteInv
    <2>5. opState'[o] = "succeeded" => TreeGone(o)'
      BY <1>1, <2>1 DEF DeleteInv, TreeGone, Empty
    <2>6. QED
      BY <1>1, <2>1, <2>2, <2>3, <2>4, <2>5 DEF DeleteInv
  <1>3. CASE life[t] # "deleting"
    <2>1. o \notin committed' /\ pc'[o] \notin CleanPcs /\ opState'[o] # "succeeded"
      BY <1>3 DEF DeleteInv, TreeGone
    <2>2. QED
      BY <2>1 DEF DeleteInv, CleanPcs
  <1>4. QED
    BY <1>2, <1>3

\* The steps of a delete on its own way.
LEMMA DeleteForward ==
    ASSUME Typed, CleanInv, NEW o \in Op, Delete(o), command[o].kind = "delete"
    PROVE  DeleteInv(o)'
  <1>. DEFINE t == target(o)
  <1>1. [Next]_vars /\ DeleteInv(o)
    BY DEF Next, CleanInv
  <1>2. t \in Doc /\ t' = t /\ Tree(t)' = Tree(t) /\ command' = command
    BY <1>1, TargetTyped, TargetKept DEF Typed, target, Tree
  <1>3. job \in [Op -> Job] /\ pc \in [Op -> Pcs] /\ life \in [Doc -> {"none", "active", "deleting"}]
        /\ opState \in [Op -> {"queued", "succeeded", "failed"}]
    BY DEF Typed, TypeOK
  <1>4. [NoJob EXCEPT !.todo = Tree(t)].todo = Tree(t)
    BY NoJobTyped DEF Job
  <1>5. CASE BeginDelete(o)
    <2>1. CASE pc'[o] \notin CleanPcs /\ committed' = committed /\ opState'[o] # "succeeded"
      BY <1>1, <2>1, DeleteKept
    <2>2. CASE /\ life[t] = "deleting" /\ Goto(o, "cleanChunks")
               /\ SetJob(o, [NoJob EXCEPT !.todo = Tree(t)]) /\ opState' = opState
      <3>1. pc'[o] = "cleanChunks" /\ job'[o].todo = Tree(t)
        BY <1>3, <1>4, <2>2 DEF Goto, SetJob
      <3>2. /\ life'[t] = "deleting"
            /\ \A x \in Tree(t) : /\ chunks[x] = {} => chunks'[x] = {}
                                  /\ mappings[x] = {} => mappings'[x] = {}
        BY <1>1, <1>2, <2>2, TreeStays
      <3>3. opState'[o] = "succeeded" => TreeGone(o)'
        BY <1>1, <1>2, <2>2, <3>2 DEF DeleteInv, TreeGone, Empty
      <3>4. QED
        BY <1>2, <3>1, <3>2, <3>3 DEF DeleteInv
    <2>3. QED
      <3>1. committed' = committed
        BY <1>5 DEF BeginDelete, storeVars
      <3>2. opState[o] = "queued"
        BY <1>5 DEF BeginDelete
      <3>3. o \in committed => life[t] = "deleting"
        BY <1>1 DEF DeleteInv
      <3>4. CASE Finish(o, "succeeded") /\ Resolved(o) /\ ~(Replays(o) /\ life[t] = "deleting")
        BY <3>3, <3>4 DEF Resolved, Replays
      <3>5. CASE Finish(o, "failed")
        BY <1>3, <2>1, <3>1, <3>5 DEF Finish, Goto, CleanPcs
      <3>6. CASE Goto(o, "fence") /\ UNCHANGED <<opState, job>>
        BY <1>3, <2>1, <3>1, <3>2, <3>6 DEF Goto, CleanPcs
      <3>7. CASE /\ life[t] = "deleting" /\ Goto(o, "cleanChunks")
                 /\ SetJob(o, [NoJob EXCEPT !.todo = Tree(t)]) /\ opState' = opState
        BY <2>2, <3>7
      <3>8. QED
        BY <1>5, <3>4, <3>5, <3>6, <3>7 DEF BeginDelete
  <1>6. CASE FenceTree(o)
    <2>1. CASE committed' = committed /\ Finish(o, "failed")
      BY <1>1, <1>3, <2>1, DeleteKept DEF Finish, Goto, CleanPcs
    <2>2. CASE life[t] = "active"
      <3>1. pc'[o] = "idle" \/ (pc'[o] = "cleanChunks" /\ job'[o].todo = Tree(t))
        BY <1>3, <1>4, <1>6, <2>2 DEF FenceTree, Finish, Goto, SetJob
      <3>2. (o \in committed' /\ o \notin committed) \/ pc'[o] = "cleanChunks" => life'[t] = "deleting"
        <4>1. t \in Tree(t)
          BY <1>2, LineageFacts
        <4>2. CASE FencesTree(t)
          BY <1>2, <2>2, <4>1, <4>2 DEF FencesTree
        <4>3. CASE life' = life
          <5>1. \A a \in Answers : ~Commits(a) => Unanswered(a)
            BY DEF Commits, Unanswered
          <5>2. committed' = committed /\ pc'[o] = "idle"
            BY <1>2, <1>3, <1>6, <2>2, <4>1, <4>3, <5>1 DEF FenceTree, Finish, Goto
          <5>3. QED
            BY <5>2
        <4>4. QED
          BY <1>6, <2>2, <4>2, <4>3 DEF FenceTree, FencesTree
      <3>3. o \notin committed
        BY <1>1, <2>2 DEF DeleteInv
      <3>4. opState'[o] # "succeeded"
        <4>1. opState[o] # "succeeded"
          BY <1>1, <2>2 DEF DeleteInv, TreeGone
        <4>2. QED
          BY <1>3, <1>6, <2>2, <4>1 DEF FenceTree, Finish
      <3>5. QED
        BY <1>2, <3>1, <3>2, <3>3, <3>4 DEF DeleteInv, CleanPcs
    <2>3. QED
      BY <1>6, <2>1, <2>2 DEF FenceTree
  <1>7. ASSUME CleanChunks(o) \/ CleanMappings(o) \/ CleanRaw(o)
        PROVE  /\ life[t] = "deleting" /\ life'[t] = "deleting"
               /\ job[o].todo \subseteq Tree(t)
               /\ \A x \in Tree(t) : /\ chunks[x] = {} => chunks'[x] = {}
                                     /\ mappings[x] = {} => mappings'[x] = {}
               /\ \A x \in Tree(t) \ job[o].todo : Empty(x)'
    <2>1. pc[o] \in CleanPcs
      BY <1>7 DEF CleanChunks, CleanMappings, CleanRaw, CleanPcs
    <2>2. life[t] = "deleting" /\ job[o].todo \subseteq Tree(t)
      BY <1>1, <2>1 DEF DeleteInv
    <2>3. \A x \in Tree(t) \ job[o].todo : Empty(x)
      BY <1>1, <2>1 DEF DeleteInv
    <2>4. QED
      BY <1>1, <1>2, <2>2, <2>3, TreeStays DEF Empty
  <1>8. ASSUME CleanMappings(o) \/ CleanRaw(o) \/ (CleanChunks(o) /\ job[o].todo # {})
        PROVE  /\ Current(o) \in job[o].todo /\ Current(o) \in Doc
               /\ opState' = opState
               /\ opState'[o] = "succeeded" => TreeGone(o)'
    <2>1. Current(o) \in job[o].todo /\ Current(o) \in Doc
      BY <1>8, CurrentTyped DEF CleanMappings, CleanRaw, Typed, StepsTyped, StepTyped
    <2>2. opState' = opState
      BY <1>8 DEF CleanMappings, CleanRaw, CleanChunks
    <2>3. QED
      BY <1>1, <1>2, <1>7, <1>8, <2>1, <2>2 DEF DeleteInv, TreeGone, Empty
  <1>9. CASE CleanChunks(o)
    <2>1. CASE job[o].todo = {}
      <3>1. pc'[o] = "idle"
        BY <1>3, <1>9, <2>1 DEF CleanChunks, Finish, Goto
      <3>2. TreeGone(o)'
        BY <1>2, <1>7, <1>9, <2>1 DEF TreeGone
      <3>3. QED
        BY <1>2, <1>7, <1>9, <3>1, <3>2 DEF DeleteInv, CleanPcs
    <2>2. CASE job[o].todo # {}
      <3>1. pc'[o] = "cleanMappings" /\ job' = job /\ Current(o)' = Current(o)
        BY <1>3, <1>9, <2>2 DEF CleanChunks, Goto, Current
      <3>2. chunks'[Current(o)] = {}
        <4>1. chunks' = [chunks EXCEPT ![Current(o)] = {}]
          BY <1>9, <2>2 DEF CleanChunks
        <4>2. QED
          BY <1>8, <1>9, <2>2, <4>1 DEF Typed, TypeOK
      <3>3. QED
        BY <1>2, <1>7, <1>8, <1>9, <2>2, <3>1, <3>2 DEF DeleteInv
    <2>3. QED
      BY <2>1, <2>2
  <1>10. CASE CleanMappings(o)
    <2>1. pc'[o] = "cleanRaw" /\ job'[o].todo = job[o].todo
      BY <1>3, <1>10 DEF CleanMappings, Goto, SetJob, Job
    <2>2. Current(o)' = Current(o)
      BY <2>1 DEF Current
    <2>3. mappings'[Current(o)] = {}
      <3>1. mappings' = [mappings EXCEPT ![Current(o)] = {}]
        BY <1>10 DEF CleanMappings
      <3>2. QED
        BY <1>8, <1>10, <3>1 DEF Typed, TypeOK
    <2>4. chunks'[Current(o)] = {}
      BY <1>1, <1>7, <1>8, <1>10 DEF CleanMappings, DeleteInv
    <2>5. QED
      BY <1>2, <1>7, <1>8, <1>10, <2>1, <2>2, <2>3, <2>4 DEF DeleteInv
  <1>11. CASE CleanRaw(o)
    <2>1. pc'[o] = "cleanChunks"
      BY <1>3, <1>11 DEF CleanRaw, Goto
    <2>2. job'[o].todo = job[o].todo \ {Current(o)}
      <3>. DEFINE d == job[o].todo \ {Current(o)}
      <3>1. d \in SUBSET Doc /\ job[o] \in Job
        BY <1>3 DEF Job
      <3>2. job' = [job EXCEPT ![o] = [job[o] EXCEPT !.todo = d, !.paths = {}]]
        BY <1>11 DEF CleanRaw, SetJob
      <3>3. [job[o] EXCEPT !.todo = d, !.paths = {}].todo = d
        <4>. HIDE DEF d
        <4>. QED
          BY <3>1, JobCleaned
      <3>4. QED
        <4>. HIDE DEF d
        <4>1. job'[o].todo = d
          BY <1>3, <3>2, <3>3
        <4>2. QED
          BY <4>1 DEF d
    <2>3. chunks'[Current(o)] = {} /\ mappings'[Current(o)] = {}
      <3>1. chunks[Current(o)] = {} /\ mappings[Current(o)] = {}
        BY <1>1, <1>11 DEF CleanRaw, DeleteInv
      <3>2. chunks' = chunks /\ mappings' = mappings
        BY <1>11 DEF CleanRaw, storeVars
      <3>3. QED
        BY <3>1, <3>2 DEF Empty
    <2>4. QED
      BY <1>2, <1>7, <1>8, <1>11, <2>1, <2>2, <2>3 DEF DeleteInv, Empty
  <1>12. CASE FenceBase(o) \/ CleanBaseChunks(o) \/ CleanBaseRaw(o)
    BY <1>12 DEF FenceBase, CleanBaseChunks, CleanBaseRaw, Typed, StepsTyped, StepTyped
  <1>13. QED
    BY <1>5, <1>6, <1>9, <1>10, <1>11, <1>12 DEF Delete

\* A worker of another command.
LEMMA OtherWorker ==
    ASSUME Typed, NEW p \in Op, NEW o \in Op, p # o, Ingest(p) \/ Delete(p)
    PROVE  /\ pc'[o] = pc[o] /\ job'[o] = job[o] /\ opState'[o] = opState[o]
           /\ o \in committed' <=> o \in committed
  <1>1. job \in [Op -> Job] /\ pc \in [Op -> Pcs] /\ opState \in [Op -> {"queued", "succeeded", "failed"}]
    BY DEF Typed, TypeOK
  <1>2. pc' = pc \/ \E l : pc' = [pc EXCEPT ![p] = l]
    BY DEF Ingest, BeginIngest, StartIngest, WriteRaw, StageBegin, ClearLeftover, PutBatch,
           ClearStagedData, ClearStagedFlag, EmbedPut, Embed, DegradePut, RestorePrevious, Activate,
           FailDocument, PruneMappings, PruneChunks, PruneRaw, PutRow, Delete, BeginDelete, FenceTree,
           CleanChunks, CleanMappings, CleanRaw, FenceBase, CleanBaseChunks, CleanBaseRaw,
           Goto, GotoFail, Finish
  <1>3. job' = job \/ \E j : job' = [job EXCEPT ![p] = j]
    <2>1. CASE Ingest(p)
      BY <2>1 DEF Ingest, BeginIngest, StartIngest, WriteRaw, StageBegin, ClearLeftover, PutBatch,
           ClearStagedData, ClearStagedFlag, EmbedPut, Embed, DegradePut, RestorePrevious, Activate,
           FailDocument, PruneMappings, PruneChunks, PruneRaw, PutRow, SetJob, GotoFail, Finish
    <2>2. CASE Delete(p)
      BY <2>2 DEF Delete, BeginDelete, FenceTree, CleanChunks, CleanMappings, CleanRaw, FenceBase,
           CleanBaseChunks, CleanBaseRaw, SetJob, Finish
    <2>3. QED
      BY <2>1, <2>2
  <1>4. opState' = opState \/ \E s : opState' = [opState EXCEPT ![p] = s]
    BY DEF Ingest, BeginIngest, StartIngest, WriteRaw, StageBegin, ClearLeftover, PutBatch,
           ClearStagedData, ClearStagedFlag, EmbedPut, Embed, DegradePut, RestorePrevious, Activate,
           FailDocument, PruneMappings, PruneChunks, PruneRaw, PutRow, Delete, BeginDelete, FenceTree,
           CleanChunks, CleanMappings, CleanRaw, FenceBase, CleanBaseChunks, CleanBaseRaw, Finish
  <1>5. committed' = committed \/ committed' = committed \cup {p}
    BY DEF Ingest, BeginIngest, StartIngest, WriteRaw, StageBegin, ClearLeftover, PutBatch,
           ClearStagedData, ClearStagedFlag, EmbedPut, Embed, DegradePut, RestorePrevious, Activate,
           FailDocument, PruneMappings, PruneChunks, PruneRaw, RowRest, Delete, BeginDelete, FenceTree,
           CleanChunks, CleanMappings, CleanRaw, FenceBase, CleanBaseChunks, CleanBaseRaw,
           Marked, storeVars
  <1>6. QED
    BY <1>1, <1>2, <1>3, <1>4, <1>5

\* Only imports and reindexes ingest.
LEMMA IngestKind ==
    ASSUME Typed, NEW o \in Op, Ingest(o)
    PROVE  command[o].kind \in Ingests
  <1>1. BeginIngest(o) \/ pc[o] \in IngestPcs
    BY DEF Ingest, StartIngest, WriteRaw, StageBegin, ClearLeftover, PutBatch,
           ClearStagedData, ClearStagedFlag, EmbedPut, Embed, DegradePut, RestorePrevious, Activate,
           FailDocument, PruneMappings, PruneChunks, PruneRaw
  <1>2. QED
    BY <1>1 DEF BeginIngest, Typed, StepsTyped, StepTyped

\* A step beside the workers.
SideStep == \/ \E o \in Op : Retry(o)
            \/ Crash \/ RecoverRead \/ RecoverWrite \/ (\E y \in Doc : RenameRead(y))
            \/ RenamePut \/ ScanRead \/ ScanDone
            \/ \E y \in Doc, v \in Versions : ScanQuarantine(y, v)
\* It leaves a worker alone or stops it.
LEMMA SideWorkers ==
    ASSUME Typed, SideStep, NEW o \in Op
    PROVE  /\ (pc'[o] = pc[o] /\ job'[o] = job[o]) \/ pc'[o] = "idle"
           /\ opState'[o] = "succeeded" => opState[o] = "succeeded"
           /\ committed' = committed
  <1>1. opState \in [Op -> {"queued", "succeeded", "failed"}]
    BY DEF Typed, TypeOK
  <1>2. CASE \E p \in Op : Retry(p)
    BY <1>1, <1>2 DEF Retry, storeVars
  <1>3. CASE Crash
    BY <1>3 DEF Crash, storeVars
  <1>4. CASE RecoverRead \/ RecoverWrite \/ (\E y \in Doc : RenameRead(y)) \/ RenamePut
    BY <1>4 DEF RecoverRead, RecoverWrite, RenameRead, RenamePut, storeVars
  <1>5. CASE ScanRead \/ ScanDone \/ \E y \in Doc, v \in Versions : ScanQuarantine(y, v)
    BY <1>5 DEF ScanRead, ScanQuarantine, ScanDone, storeVars
  <1>6. QED
    BY <1>2, <1>3, <1>4, <1>5 DEF SideStep

\* Every step keeps what is known of a delete.
LEMMA DeleteInvStep ==
    ASSUME Typed, CleanInv, [Next]_vars, NEW o \in Op
    PROVE  DeleteInv(o)'
  <1>. SUFFICES ASSUME command[o].kind = "delete" PROVE DeleteInv(o)'
    BY TargetKept DEF DeleteInv
  <1>1. DeleteInv(o)
    BY DEF CleanInv
  <1>2. CASE Delete(o)
    BY <1>2, DeleteForward
  <1>3. CASE Ingest(o)
    BY <1>3, IngestKind
  <1>4. CASE \E p \in Op : p # o /\ (Ingest(p) \/ Delete(p))
    BY <1>1, <1>4, OtherWorker, DeleteKept
  <1>5. CASE SideStep
    <2>1. /\ (pc'[o] = pc[o] /\ job'[o] = job[o]) \/ pc'[o] = "idle"
          /\ opState'[o] = "succeeded" => opState[o] = "succeeded"
          /\ committed' = committed
      BY <1>5, SideWorkers
    <2>2. pc'[o] \in CleanPcs => pc'[o] = pc[o] /\ job'[o] = job[o]
      BY <2>1 DEF CleanPcs
    <2>3. QED
      BY <1>1, <2>1, <2>2, DeleteKept
  <1>6. CASE UNCHANGED vars
    BY <1>1, <1>6, DeleteKept DEF vars, storeVars
  <1>7. QED
    BY <1>2, <1>3, <1>4, <1>5, <1>6 DEF Next, SideStep

\* Every step keeps what is known of a delete of the base.
LEMMA BaseInvStep ==
    ASSUME Typed, CleanInv, [Next]_vars, NEW o \in Op
    PROVE  BaseInv(o)'
  <1>. SUFFICES ASSUME command[o].kind = "deleteBase" PROVE BaseInv(o)'
    BY TargetKept DEF BaseInv
  <1>1. BaseInv(o) /\ command' = command
    BY TargetKept DEF CleanInv
  <1>2. baseLife = "deleting" =>
            baseLife' = "deleting" /\ \A x \in Doc : chunks[x] = {} => chunks'[x] = {}
    <2>. SUFFICES ASSUME baseLife = "deleting"
                  PROVE  baseLife' = "deleting" /\ \A x \in Doc : chunks[x] = {} => chunks'[x] = {}
      OBVIOUS
    <2>1. \A x \in Doc : Loses(x) /\ baseLife' = "deleting"
      BY EmptyStays
    <2>2. target(o) \in Doc
      BY TargetTyped DEF Typed
    <2>3. QED
      BY <2>1, <2>2 DEF Loses
  <1>3. /\ job \in [Op -> Job] /\ pc \in [Op -> Pcs]
        /\ opState \in [Op -> {"queued", "succeeded", "failed"}]
    BY DEF Typed, TypeOK
  <1>4. ASSUME pc'[o] = pc[o] \/ pc'[o] \notin BasePcs,
               opState'[o] = "succeeded" => opState[o] = "succeeded"
        PROVE  BaseInv(o)'
    BY <1>1, <1>2, <1>4 DEF BaseInv
  <1>5. CASE Delete(o)
    <2>1. CASE FenceBase(o)
      <3>1. pc'[o] = "cleanBase" => baseLife' = "deleting"
        <4>1. \A a \in Answers : ~Commits(a) => Unanswered(a)
          BY DEF Commits, Unanswered
        <4>2. QED
          BY <1>3, <2>1, <4>1 DEF FenceBase, Goto, Finish
      <3>2. pc'[o] \in {"idle", "cleanBase"} /\ opState'[o] # "succeeded"
        BY <1>3, <2>1 DEF FenceBase, Goto, Finish
      <3>3. QED
        BY <1>1, <3>1, <3>2 DEF BaseInv
    <2>2. CASE CleanBaseChunks(o)
      <3>1. /\ pc[o] = "cleanBase" /\ pc'[o] = "cleanBaseRaw" /\ \A x \in Doc : chunks'[x] = {}
        BY <1>3, <2>2 DEF CleanBaseChunks, Goto
      <3>2. QED
        BY <1>1, <1>2, <3>1 DEF BaseInv
    <2>3. CASE CleanBaseRaw(o)
      <3>1. pc[o] = "cleanBaseRaw" /\ pc'[o] = "idle"
        BY <1>3, <2>3 DEF CleanBaseRaw, Goto, Finish
      <3>2. QED
        BY <1>1, <1>2, <3>1 DEF BaseInv
    <2>4. CASE \/ BeginDelete(o) \/ FenceTree(o) \/ CleanChunks(o) \/ CleanMappings(o)
               \/ CleanRaw(o)
      <3>1. command[o].kind \in {"delete", "batchDelete"}
        BY <2>4
        DEF BeginDelete, FenceTree, CleanChunks, CleanMappings, CleanRaw, Typed, StepsTyped,
            StepTyped
      <3>2. QED
        BY <3>1
    <2>5. QED
      BY <1>5, <2>1, <2>2, <2>3, <2>4 DEF Delete
  <1>6. CASE Ingest(o)
    BY <1>6, IngestKind
  <1>7. CASE \E p \in Op : p # o /\ (Ingest(p) \/ Delete(p))
    BY <1>4, <1>7, OtherWorker
  <1>8. CASE SideStep
    BY <1>4, <1>8, SideWorkers
  <1>9. CASE UNCHANGED vars
    BY <1>4, <1>9 DEF vars, storeVars
  <1>10. QED
    BY <1>5, <1>6, <1>7, <1>8, <1>9 DEF Next, SideStep

\* A delete that has answered success has left nothing of its scope behind, for
\* every crash between its fence and its last step and every replay, and
\* nothing appears there later.
THEOREM DeletesAreComplete == Spec => []CleanAfterDelete
  <1>1. Init => Typed /\ CleanInv
    <2>. SUFFICES ASSUME Init PROVE CleanInv
      BY InitTyped
    <2>1. committed = {} /\ opState = [o \in Op |-> "queued"] /\ pc = [o \in Op |-> "idle"]
      BY DEF Init
    <2>2. QED
      BY <2>1 DEF CleanInv, DeleteInv, BaseInv, CleanPcs
  <1>2. (Typed /\ CleanInv) /\ [Next]_vars => (Typed /\ CleanInv)'
    BY StepTypedNext, DeleteInvStep, BaseInvStep DEF CleanInv
  <1>3. CleanInv => CleanAfterDelete
    BY DEF CleanInv, DeleteInv, BaseInv, TreeGone, Empty, CleanAfterDelete
  <1>4. QED
    BY <1>1, <1>2, <1>3, PTL DEF Spec

----------------------------------------------------------------------------
\* A published document is whole.

\* The steps that have a generation of their own, those that have all of it,
\* and those that retire older ones.
OwnPcs == StagedPcs \ {"stage"}
FullPcs == {"embedPut", "embed", "degrade", "restore", "activate"}
PrunePcs == {"prune", "pruneChunks", "pruneRaw"}

AllChunks(g, c) == {[gen |-> g, batch |-> b, of |-> c] : b \in 1 .. Batches}
BatchesBefore(g, c, n) == {[gen |-> g, batch |-> b, of |-> c] : b \in 1 .. n - 1}

\* A document that is not deleted and that nothing has disturbed.
Calm(x) == life[x] # "deleting" /\ x \notin overlapped /\ x \notin rewound

\* The copies of its row are not ahead of it.
CopyBehind(o, x) ==
    pc[o] \in IngestPcs => /\ job[o].copy.active <= row[x].active
                           /\ job[o].prev.active <= row[x].active
RenameBehind(x) ==
    renaming # NoRename /\ renaming.doc = x => renaming.copy.active <= row[x].active

\* What its one worker has staged.
StagedRight(o, x) ==
    /\ pc[o] \in {"start", "raw", "stage", "clear"} => job[o].next = 1
    /\ pc[o] \in IngestPcs \ {"start", "raw"} => job[o].copy.of = job[o].of
    /\ pc[o] \in OwnPcs => job[o].gen = row[x].active + 1
    /\ pc[o] = "batch" =>
           ChunksOf(x, job[o].gen) = BatchesBefore(job[o].gen, job[o].of, job[o].next)
    /\ pc[o] \in FullPcs => ChunksOf(x, job[o].gen) = AllChunks(job[o].gen, job[o].of)
    /\ pc[o] \in PrunePcs => job[o].gen <= row[x].active

\* A document without a row has nothing.
Absent(x) ==
    life[x] = "none" => /\ row[x].active = 0 /\ chunks[x] = {}
                        /\ \A o \in Op : target(o) = x => ~Working(o)

Right(x) ==
    /\ Absent(x) /\ Whole(x) /\ RenameBehind(x)
    /\ \A o, p \in Op : target(o) = x /\ target(p) = x /\ Working(o) /\ Working(p) => o = p
    /\ \A o \in Op : target(o) = x => CopyBehind(o, x) /\ StagedRight(o, x)

WholeInv == \A x \in Doc : Calm(x) => Right(x)

\* The worker of a clean-up works below a fence.
Cleans(o) == pc[o] \in CleanPcs => /\ life[target(o)] = "deleting"
                                   /\ job[o].todo \subseteq Tree(target(o))
CleanersInv == \A o \in Op : Cleans(o)

\* A whole-row write that does not set the row back leaves the active
\* generation as it is.
LEMMA UpsertCalm ==
    ASSUME Typed, NEW x \in Doc, NEW r \in Row, upsert(x, r),
           r.active <= row[x].active, x \notin rewound'
    PROVE  row'[x].active = row[x].active /\ life'[x] = "active"
  <1>1. row[x] \in Row /\ row[x].active \in Nat /\ r.active \in Nat
    <2>1. row[x] \in Row
      BY DEF Typed, TypeOK
    <2>2. QED
      BY <2>1 DEF Row, Gens
  <1>2. ~(r.active < row[x].active)
    BY DEF upsert
  <1>3. r.active = row[x].active
    BY <1>1, <1>2
  <1>4. Stored(r).active = r.active
    BY DEF Stored, Row
  <1>5. row' = [row EXCEPT ![x] = Stored(r)] /\ life' = [life EXCEPT ![x] = "active"]
    BY DEF upsert
  <1>6. QED
    BY <1>3, <1>4, <1>5 DEF Typed, TypeOK

\* A step of the worker of a document that leaves its active generation alone.
LEMMA QuietStep ==
    ASSUME Typed, NEW x \in Doc, NEW o \in Op, target(o) = x, Right(x), Ingest(o),
           row'[x].active = row[x].active, life'[x] = life[x] \/ life'[x] = "active",
           chunks' = chunks \/ life'[x] = "active",
           ChunksOf(x, row[x].active)' = ChunksOf(x, row[x].active),
           Working(o) \/ ChunksOf(x, row[x].active + 1)' = ChunksOf(x, row[x].active + 1),
           \A m \in mappings[x] : m.gen = row[x].active => m \in mappings'[x],
           Working(o)' => \A p \in Op \ {o} : target(p) = x => ~Working(p),
           Working(o)' => life'[x] = "active",
           CopyBehind(o, x)', StagedRight(o, x)', renaming' = renaming
    PROVE  Right(x)'
  <1>1. command' = command /\ \A p \in Op : target(p)' = target(p)
    BY TargetKept DEF Next, target
  <1>2. \A p \in Op \ {o} : pc'[p] = pc[p] /\ job'[p] = job[p]
    BY OtherWorker
  <1>3. \A p \in Op \ {o} : Working(p)' <=> Working(p)
    BY <1>2 DEF Working
  <1>4. Absent(x)'
    BY <1>1, <1>3 DEF Right, Absent
  <1>5. Whole(x)'
    <2>. SUFFICES ASSUME row'[x].active > 0
                  PROVE  \E m \in mappings'[x] :
                            /\ m.gen = row'[x].active
                            /\ ChunksOf(x, m.gen)' = AllChunks(m.gen, m.of)
      BY DEF Whole, AllChunks
    <2>1. PICK m \in mappings[x] : /\ m.gen = row[x].active
                                   /\ ChunksOf(x, m.gen) = AllChunks(m.gen, m.of)
      BY DEF Right, Whole, AllChunks
    <2>2. QED
      BY <2>1
  <1>6. RenameBehind(x)'
    BY DEF Right, RenameBehind
  <1>7. ASSUME NEW p \in Op, target(p) = x PROVE CopyBehind(p, x)' /\ StagedRight(p, x)'
    <2>1. CASE p = o
      BY <2>1
    <2>2. CASE p # o
      <3>1. pc'[p] = pc[p] /\ job'[p] = job[p]
        BY <1>2, <2>2
      <3>2. CopyBehind(p, x) /\ StagedRight(p, x)
        BY <1>7 DEF Right
      <3>3. CASE Working(o)
        <4>1. ~Working(p)
          BY <1>7, <2>2, <3>3 DEF Right
        <4>2. QED
          BY <3>1, <3>2, <4>1 DEF Working, CopyBehind, StagedRight, OwnPcs, FullPcs
      <3>4. CASE ~Working(o)
        <4>1. ASSUME pc[p] \in OwnPcs
              PROVE  /\ job[p].gen = row[x].active + 1
                     /\ ChunksOf(x, job[p].gen)' = ChunksOf(x, job[p].gen)
          BY <3>1, <3>2, <3>4, <4>1 DEF StagedRight, ChunksOf
        <4>2. QED
          BY <3>1, <3>2, <4>1 DEF CopyBehind, StagedRight, OwnPcs, FullPcs
      <3>5. QED
        BY <3>3, <3>4
    <2>3. QED
      BY <2>1, <2>2
  <1>8. ASSUME NEW p \in Op, NEW q \in Op, target(p) = x, target(q) = x, Working(p)', Working(q)'
        PROVE  p = q
    BY <1>3, <1>8 DEF Right
  <1>9. QED
    BY <1>1, <1>4, <1>5, <1>6, <1>7, <1>8 DEF Right

\* A worker at a document that is right and stays calm.
Here(o, x) ==
    Typed /\ o \in Op /\ x \in Doc /\ target(o) = x /\ Right(x) /\ Calm(x) /\ Calm(x)'

\* What is known of it.
LEMMA HereFacts ==
    ASSUME NEW o, NEW x, Here(o, x)
    PROVE  /\ o \in Op /\ x \in Doc /\ target(o) = x /\ Typed /\ TypeOK
           /\ pc \in [Op -> Pcs] /\ job \in [Op -> Job]
           /\ job[o] \in Job /\ job[o].copy \in Row /\ job[o].prev \in Row
           /\ job[o].copy.active \in Nat /\ job[o].prev.active \in Nat
           /\ row[x] \in Row /\ row[x].active \in Nat
           /\ CopyBehind(o, x) /\ StagedRight(o, x)
           /\ x \notin rewound' /\ x \notin overlapped' /\ life'[x] # "deleting"
           /\ StepTyped(pc[o], job[o], command[o].kind)
  <1>1. /\ o \in Op /\ x \in Doc /\ target(o) = x /\ Typed /\ TypeOK
        /\ pc \in [Op -> Pcs] /\ job \in [Op -> Job] /\ row[x] \in Row
    BY DEF Here, Typed, TypeOK
  <1>2. job[o] \in Job /\ job[o].copy \in Row /\ job[o].prev \in Row
    BY <1>1 DEF Job
  <1>3. \A r \in Row : r.active \in Nat
    BY DEF Row, Gens
  <1>4. CopyBehind(o, x) /\ StagedRight(o, x)
    BY DEF Here, Right
  <1>5. x \notin rewound' /\ x \notin overlapped' /\ life'[x] # "deleting"
    BY DEF Here, Calm
  <1>6. StepTyped(pc[o], job[o], command[o].kind)
    BY <1>1 DEF Typed, StepsTyped
  <1>7. QED
    BY <1>1, <1>2, <1>3, <1>4, <1>5, <1>6

\* The end of a worker, after a row write or without one.
LEMMA EndsRight ==
    ASSUME NEW o, NEW x, Here(o, x), Ingest(o), pc'[o] = "idle",
           chunks' = chunks, mappings' = mappings, renaming' = renaming,
           \/ row' = row /\ life' = life
           \/ \E r \in Row : upsert(x, r) /\ r.active <= row[x].active
    PROVE  Right(x)'
  <1>1. row'[x].active = row[x].active /\ (life'[x] = life[x] \/ life'[x] = "active")
    BY HereFacts, UpsertCalm
  <1>2. CopyBehind(o, x)' /\ StagedRight(o, x)' /\ ~Working(o)'
    BY DEF CopyBehind, StagedRight, OwnPcs, FullPcs, PrunePcs, Working
  <1>4. /\ ChunksOf(x, row[x].active)' = ChunksOf(x, row[x].active)
        /\ ChunksOf(x, row[x].active + 1)' = ChunksOf(x, row[x].active + 1)
    BY <1>1 DEF ChunksOf
  <1>5. Right(x)
    BY DEF Here
  <1>6. QED
    BY <1>1, <1>2, <1>4, <1>5, HereFacts, QuietStep

\* The steps of an ingest at a document that is right, one by one: it reads the
\* row,
LEMMA BeginIngestRight ==
    ASSUME NEW o, NEW x, Here(o, x), BeginIngest(o)
    PROVE  Right(x)'
  <1>1. /\ Ingest(o) /\ renaming' = renaming
        /\ chunks' = chunks /\ mappings' = mappings /\ row' = row /\ life' = life
    BY DEF Ingest, BeginIngest, storeVars, sideVars
  <1>2. CASE pc'[o] = "idle"
    BY <1>1, <1>2, EndsRight
  <1>3. CASE \E r \in {row[x], NewRow} : \E c, v :
                 pc' = [pc EXCEPT ![o] = "start"] /\ job' = [job EXCEPT ![o] = IngestJob(r, c, v)]
    <2>. PICK r \in {row[x], NewRow} : \E c, v :
                 pc' = [pc EXCEPT ![o] = "start"] /\ job' = [job EXCEPT ![o] = IngestJob(r, c, v)]
      BY <1>3
    <2>1. PICK c, v :
                 pc' = [pc EXCEPT ![o] = "start"] /\ job' = [job EXCEPT ![o] = IngestJob(r, c, v)]
      OBVIOUS
    <2>2. pc'[o] = "start" /\ job'[o] = IngestJob(r, c, v)
      BY <2>1, HereFacts
    <2>3. r.active <= row[x].active
      BY HereFacts DEF NewRow
    <2>4. CopyBehind(o, x)' /\ StagedRight(o, x)' /\ ~Working(o)'
      BY <1>1, <2>2, <2>3
      DEF IngestJob, CopyBehind, StagedRight, OwnPcs, FullPcs, PrunePcs, Working
    <2>5. /\ ChunksOf(x, row[x].active)' = ChunksOf(x, row[x].active)
          /\ ChunksOf(x, row[x].active + 1)' = ChunksOf(x, row[x].active + 1)
      BY <1>1 DEF ChunksOf
    <2>6. Right(x)
      BY DEF Here
    <2>7. QED
      BY <1>1, <2>4, <2>5, <2>6, HereFacts, QuietStep
  <1>4. QED
    <2>1. pc'[o] = "idle" \/ (Goto(o, "start") /\ \E r \in {row[x], NewRow} : \E c, v : SetJob(o, IngestJob(r, c, v)))
      BY HereFacts DEF BeginIngest, Finish, Goto
    <2>2. QED
      BY <1>2, <1>3, <2>1 DEF Goto, SetJob

\* writes it, alone or the document is overlapped,
LEMMA StartIngestRight ==
    ASSUME NEW o, NEW x, Here(o, x), StartIngest(o)
    PROVE  Right(x)'
  <1>. DEFINE copy == [job[o].copy EXCEPT !.status = "processing"]
              j == [job[o] EXCEPT !.copy = copy]
  <1>1. Ingest(o) /\ renaming' = renaming /\ chunks' = chunks /\ mappings' = mappings /\ pc[o] = "start"
    BY DEF Ingest, StartIngest
  <1>2. copy \in Row /\ copy.active = job[o].copy.active
    BY HereFacts DEF Row
  <1>3. copy.active <= row[x].active /\ job[o].prev.active <= row[x].active /\ job[o].next = 1
    BY <1>1, <1>2, HereFacts DEF CopyBehind, StagedRight
  <1>4. /\ j.copy = copy /\ j.prev = job[o].prev /\ j.next = job[o].next
    BY HereFacts DEF Job
  <1>. HIDE DEF copy
  <1>5. CASE pc'[o] = "idle"
    <2>1. (row' = row /\ life' = life) \/ upsert(x, copy)
      BY HereFacts DEF StartIngest, copy
    <2>2. QED
      BY <1>1, <1>2, <1>3, <1>5, <2>1, EndsRight
  <1>6. CASE /\ upsert(x, copy) /\ Goto(o, "raw") /\ SetJob(o, j)
             /\ \A p \in Op \ {o} : ~(Working(p) /\ target(p) = x)
    <2>1. row'[x].active = row[x].active /\ life'[x] = "active"
      BY <1>2, <1>3, <1>6, HereFacts, UpsertCalm
    <2>. HIDE DEF j
    <2>2. pc'[o] = "raw" /\ job'[o] = j
      BY <1>6, HereFacts DEF Goto, SetJob
    <2>3. CopyBehind(o, x)' /\ StagedRight(o, x)'
      BY <1>3, <1>4, <2>1, <2>2 DEF CopyBehind, StagedRight, OwnPcs, FullPcs, PrunePcs
    <2>4. /\ ChunksOf(x, row[x].active)' = ChunksOf(x, row[x].active)
          /\ ChunksOf(x, row[x].active + 1)' = ChunksOf(x, row[x].active + 1)
      BY <1>1, <2>1 DEF ChunksOf
    <2>5. Right(x)
      BY DEF Here
    <2>6. QED
      BY <1>1, <1>6, <2>1, <2>3, <2>4, <2>5, HereFacts, QuietStep
  <1>7. QED
    <2>1. \A a \in Answers : ~Unanswered(a) => Commits(a)
      BY DEF Commits, Unanswered
    <2>2. pc'[o] = "idle" \/ (Goto(o, "raw") /\ SetJob(o, j) /\ upsert(x, copy)
               /\ overlapped' = IF \E p \in Op \ {o} : Working(p) /\ target(p) = x
                                THEN overlapped \cup {x} ELSE overlapped)
      BY <2>1, HereFacts DEF StartIngest, Finish, Goto, copy
    <2>3. QED
      BY <1>5, <1>6, <2>2, HereFacts

\* A step between the start of an ingest and its activation.
LEMMA WorksOn ==
    ASSUME NEW o, NEW x, Here(o, x), Ingest(o), Working(o),
           renaming' = renaming, mappings' = mappings,
           row'[x].active = row[x].active, life'[x] = life[x] \/ life'[x] = "active",
           \A c : c.gen = row[x].active => (c \in chunks'[x] <=> c \in chunks[x]),
           CopyBehind(o, x)', StagedRight(o, x)'
    PROVE  Right(x)'
  <1>1. Right(x) /\ Calm(x)
    BY DEF Here
  <1>2. life[x] = "active"
    <2>1. life[x] \in {"none", "active", "deleting"}
      BY HereFacts DEF TypeOK
    <2>2. QED
      BY <1>1, <2>1, HereFacts DEF Calm, Right, Absent
  <1>3. \A p \in Op \ {o} : target(p) = x => ~Working(p)
    BY <1>1, HereFacts DEF Right
  <1>4. ChunksOf(x, row[x].active)' = ChunksOf(x, row[x].active)
    BY DEF ChunksOf
  <1>5. QED
    BY <1>1, <1>2, <1>3, <1>4, HereFacts, QuietStep

\* writes the file,
LEMMA WriteRawRight ==
    ASSUME NEW o, NEW x, Here(o, x), WriteRaw(o)
    PROVE  Right(x)'
  <1>. DEFINE v == NextVersion(job[o].copy)
              c == Sourced(job[o].copy, v, job[o].of)
              j == [job[o] EXCEPT !.copy = c]
  <1>1. /\ Ingest(o) /\ renaming' = renaming /\ chunks' = chunks /\ mappings' = mappings
        /\ row' = row /\ life' = life /\ pc[o] = "raw" /\ Working(o)
    BY DEF Ingest, WriteRaw, storeVars, sideVars, Working
  <1>2. c.active = job[o].copy.active /\ c.of = job[o].of
    <2>. DEFINE d == [job[o].copy EXCEPT !.raw = v]
    <2>1. /\ d.active = job[o].copy.active /\ DOMAIN d = DOMAIN job[o].copy
          /\ "of" \in DOMAIN d
      BY HereFacts DEF Row
    <2>2. c = [d EXCEPT !.of = job[o].of]
      BY DEF Sourced
    <2>3. "active" \in DOMAIN d
      BY HereFacts DEF Row
    <2>. HIDE DEF d
    <2>4. QED
      BY <2>1, <2>2, <2>3
  <1>. HIDE DEF c
  <1>3. j.copy = c /\ j.prev = job[o].prev /\ j.next = job[o].next /\ j.of = job[o].of
    BY HereFacts DEF Job
  <1>4. c.active <= row[x].active /\ job[o].prev.active <= row[x].active /\ job[o].next = 1
    BY <1>1, <1>2, HereFacts DEF CopyBehind, StagedRight
  <1>5. pc'[o] \in {"stage", "fail"} /\ job'[o] = j
    BY HereFacts DEF WriteRaw, Goto, SetJob, c
  <1>. HIDE DEF j
  <1>6. CopyBehind(o, x)' /\ StagedRight(o, x)'
    BY <1>1, <1>2, <1>3, <1>4, <1>5 DEF CopyBehind, StagedRight, OwnPcs, FullPcs, PrunePcs
  <1>7. QED
    BY <1>1, <1>6, WorksOn

\* On the way to the write that records a failure.
LEMMA FailsRight ==
    ASSUME NEW o, NEW x, Here(o, x), pc[o] \in IngestPcs \ {"start", "raw"}, pc'[o] = "fail",
           job'[o].copy = job[o].copy, job'[o].prev = job[o].prev, job'[o].of = job[o].of,
           row'[x].active = row[x].active
    PROVE  CopyBehind(o, x)' /\ StagedRight(o, x)'
  BY HereFacts DEF CopyBehind, StagedRight, OwnPcs, FullPcs, PrunePcs

\* names the generation,
LEMMA StageBeginRight ==
    ASSUME NEW o, NEW x, Here(o, x), StageBegin(o)
    PROVE  Right(x)'
  <1>. DEFINE g == NextGen(x)
  <1>1. /\ Ingest(o) /\ renaming' = renaming /\ chunks' = chunks /\ mappings' = mappings
        /\ life' = life /\ pc[o] = "stage" /\ Working(o) /\ g <= MaxGen
    BY HereFacts DEF Ingest, StageBegin, sideVars, Working
  <1>2. g = row[x].active + 1 /\ g \in Gens
    BY <1>1, BoundsAreNumbers, HereFacts DEF NextGen, Gens
  <1>3. row'[x].active = row[x].active
    <2>1. Build(row[x], g).active = row[x].active
      BY <1>2, BuildTyped, HereFacts
    <2>2. row' = row \/ row' = [row EXCEPT ![x] = Build(row[x], g)]
      BY HereFacts DEF StageBegin
    <2>3. QED
      BY <2>1, <2>2, HereFacts DEF TypeOK
  <1>4. CASE \E u : GotoFail(o, u)
    <2>1. PICK u : pc' = [pc EXCEPT ![o] = "fail"] /\ job' = [job EXCEPT ![o].unknown = u]
      BY <1>4 DEF GotoFail, Goto
    <2>2. /\ pc'[o] = "fail" /\ job'[o].copy = job[o].copy /\ job'[o].prev = job[o].prev
          /\ job'[o].of = job[o].of
      BY <2>1, HereFacts DEF Job
    <2>3. QED
      BY <1>1, <1>3, <2>2, WorksOn, FailsRight
  <1>5. CASE Goto(o, "clear") /\ SetJob(o, [job[o] EXCEPT !.gen = g])
    <2>. DEFINE j == [job[o] EXCEPT !.gen = g]
    <2>1. pc'[o] = "clear" /\ job'[o] = j
      BY <1>5, HereFacts DEF Goto, SetJob
    <2>2. /\ j.copy = job[o].copy /\ j.prev = job[o].prev /\ j.next = job[o].next
          /\ j.of = job[o].of /\ j.gen = g
      BY HereFacts DEF Job
    <2>3. CopyBehind(o, x) /\ StagedRight(o, x)
      BY HereFacts
    <2>. HIDE DEF j, g
    <2>4. CopyBehind(o, x)' /\ StagedRight(o, x)'
      BY <1>1, <1>2, <1>3, <2>1, <2>2, <2>3
      DEF CopyBehind, StagedRight, OwnPcs, FullPcs, PrunePcs
    <2>5. QED
      BY <1>1, <1>3, <2>4, WorksOn
  <1>6. QED
    BY <1>4, <1>5, HereFacts DEF StageBegin

\* removes what is above the active one,
LEMMA ClearLeftoverRight ==
    ASSUME NEW o, NEW x, Here(o, x), ClearLeftover(o)
    PROVE  Right(x)'
  <1>. DEFINE g == job[o].gen
  <1>1. /\ Ingest(o) /\ renaming' = renaming /\ mappings' = mappings /\ row' = row
        /\ life' = life /\ pc[o] = "clear" /\ Working(o) /\ job' = job /\ pc'[o] = "batch"
    BY HereFacts DEF Ingest, ClearLeftover, sideVars, Working, Goto
  <1>2. /\ CopyBehind(o, x) /\ StagedRight(o, x) /\ g = row[x].active + 1 /\ job[o].next = 1
        /\ job[o].copy.of = job[o].of
    BY <1>1, HereFacts DEF StagedRight, OwnPcs
  <1>3. chunks'[x] = chunks[x] \ Leftover(x, g)
    <2>1. chunks' = [chunks EXCEPT ![x] = @ \ Leftover(x, g)]
      BY HereFacts DEF ClearLeftover
    <2>2. QED
      BY <2>1, HereFacts DEF TypeOK
  <1>4. \A c : c.gen = row[x].active => (c \in chunks'[x] <=> c \in chunks[x])
    BY <1>2, <1>3, HereFacts DEF Leftover
  <1>5. {c \in chunks'[x] : c.gen = g} = {} /\ BatchesBefore(g, job[o].of, 1) = {}
    <2>1. g \in Nat
      BY <1>2, HereFacts
    <2>2. \A c \in chunks'[x] : ~(c.gen = g)
      BY <1>3, <2>1 DEF Leftover
    <2>3. \A b \in 1 .. 1 - 1 : FALSE
      OBVIOUS
    <2>4. QED
      BY <2>2, <2>3 DEF BatchesBefore
  <1>6. ChunksOf(x, job[o].gen)' = BatchesBefore(job[o].gen, job[o].of, job[o].next)'
    BY <1>1, <1>2, <1>5 DEF ChunksOf, BatchesBefore
  <1>7. CopyBehind(o, x)' /\ StagedRight(o, x)'
    BY <1>1, <1>2, <1>6 DEF CopyBehind, StagedRight, OwnPcs, FullPcs, PrunePcs
  <1>8. QED
    BY <1>1, <1>4, <1>7, WorksOn

\* stages batch after batch,
LEMMA PutBatchRight ==
    ASSUME NEW o, NEW x, Here(o, x), PutBatch(o)
    PROVE  Right(x)'
  <1>. DEFINE g == job[o].gen
              b == job[o].next
              new == [gen |-> g, batch |-> b, of |-> job[o].of]
  <1>1. /\ Ingest(o) /\ renaming' = renaming /\ mappings' = mappings /\ row' = row
        /\ life' = life /\ pc[o] = "batch" /\ Working(o)
    BY HereFacts DEF Ingest, PutBatch, sideVars, Working
  <1>2. /\ CopyBehind(o, x) /\ StagedRight(o, x) /\ g = row[x].active + 1
        /\ job[o].copy.of = job[o].of /\ {c \in chunks[x] : c.gen = g} = BatchesBefore(g, job[o].of, b)
    BY <1>1, HereFacts DEF StagedRight, OwnPcs, ChunksOf
  <1>3. b \in 1 .. Batches /\ Batches \in Nat /\ g \in 1 .. MaxGen /\ g \in Gens /\ g \in Nat
    BY <1>1, HereFacts, BoundsAreNumbers DEF StepTyped, Job, Gens
  <1>4. chunks'[x] = chunks[x] \/ chunks'[x] = chunks[x] \cup {new}
    <2>1. chunks' = chunks \/ chunks' = [chunks EXCEPT ![x] = @ \cup {new}]
      BY HereFacts DEF PutBatch
    <2>2. QED
      BY <2>1, HereFacts DEF TypeOK
  <1>5. \A c : c.gen = row[x].active => (c \in chunks'[x] <=> c \in chunks[x])
    <2>1. new.gen = g /\ g # row[x].active
      BY <1>2, HereFacts
    <2>. HIDE DEF new
    <2>2. QED
      BY <1>4, <2>1
  <1>6. CASE pc'[o] = "clearData" /\ job' = job /\ chunks' = chunks
    <2>1. CopyBehind(o, x)' /\ StagedRight(o, x)'
      BY <1>1, <1>2, <1>6 DEF CopyBehind, StagedRight, OwnPcs, FullPcs, PrunePcs
    <2>2. QED
      BY <1>1, <1>5, <2>1, WorksOn
  <1>7. CASE \E u : GotoFail(o, u)
    <2>1. PICK u : pc' = [pc EXCEPT ![o] = "fail"] /\ job' = [job EXCEPT ![o].unknown = u]
      BY <1>7 DEF GotoFail, Goto
    <2>2. /\ pc'[o] = "fail" /\ job'[o].copy = job[o].copy /\ job'[o].prev = job[o].prev
          /\ job'[o].of = job[o].of
      BY <2>1, HereFacts DEF Job
    <2>3. QED
      BY <1>1, <1>5, <2>2, WorksOn, FailsRight
  <1>8. ASSUME chunks'[x] = chunks[x] \cup {new}
        PROVE  {c \in chunks'[x] : c.gen = g} = {c \in chunks[x] : c.gen = g} \cup {new}
    <2>1. new.gen = g
      OBVIOUS
    <2>. HIDE DEF new
    <2>2. QED
      BY <1>8, <2>1
  <1>9. CASE /\ chunks'[x] = chunks[x] \cup {new} /\ b < Batches
             /\ SetJob(o, [job[o] EXCEPT !.next = b + 1]) /\ pc' = pc
    <2>. DEFINE j == [job[o] EXCEPT !.next = b + 1]
    <2>1. /\ job'[o] = j /\ j.copy = job[o].copy /\ j.prev = job[o].prev /\ j.of = job[o].of
          /\ j.gen = g /\ j.next = b + 1
      BY <1>9, HereFacts DEF SetJob, Job
    <2>2. {c \in chunks'[x] : c.gen = g} = BatchesBefore(g, job[o].of, b + 1)
      <3>1. BatchesBefore(g, job[o].of, b + 1) = BatchesBefore(g, job[o].of, b) \cup {new}
        <4>1. \A i : i \in 1 .. (b + 1) - 1 <=> i \in 1 .. b - 1 \/ i = b
          BY <1>3
        <4>2. QED
          BY <4>1 DEF BatchesBefore
      <3>2. QED
        BY <1>2, <1>8, <1>9, <3>1
    <2>. HIDE DEF j
    <2>3. ChunksOf(x, job[o].gen)' = BatchesBefore(job[o].gen, job[o].of, job[o].next)'
      BY <2>1, <2>2 DEF ChunksOf, BatchesBefore
    <2>4. CopyBehind(o, x)' /\ StagedRight(o, x)'
      BY <1>1, <1>2, <1>9, <2>1, <2>3 DEF CopyBehind, StagedRight, OwnPcs, FullPcs, PrunePcs
    <2>5. QED
      BY <1>1, <1>5, <2>4, WorksOn
  <1>10. CASE /\ chunks'[x] = chunks[x] \cup {new} /\ ~(b < Batches)
              /\ SetJob(o, [job[o] EXCEPT !.copy = Build(@, g)])
              /\ pc'[o] \in {"embedPut", "activate"}
    <2>. DEFINE bc == Build(job[o].copy, g)
                j == [job[o] EXCEPT !.copy = bc]
    <2>1. bc.active = job[o].copy.active /\ bc.of = job[o].copy.of
      BY <1>3, HereFacts, BuildTyped
    <2>. HIDE DEF bc
    <2>2. /\ job'[o] = j /\ j.copy = bc /\ j.prev = job[o].prev /\ j.of = job[o].of
          /\ j.gen = g
      BY <1>10, HereFacts DEF SetJob, Job, bc
    <2>3. {c \in chunks'[x] : c.gen = g} = AllChunks(g, job[o].of)
      <3>1. AllChunks(g, job[o].of) = BatchesBefore(g, job[o].of, b) \cup {new}
        <4>1. \A i : i \in 1 .. Batches <=> i \in 1 .. b - 1 \/ i = b
          BY <1>3, <1>10
        <4>2. QED
          BY <4>1 DEF BatchesBefore, AllChunks
      <3>2. QED
        BY <1>2, <1>8, <1>10, <3>1
    <2>. HIDE DEF j
    <2>4. ChunksOf(x, job[o].gen)' = AllChunks(job[o].gen, job[o].of)'
      BY <2>2, <2>3 DEF ChunksOf, AllChunks
    <2>5. CopyBehind(o, x)' /\ StagedRight(o, x)'
      BY <1>1, <1>2, <1>10, <2>1, <2>2, <2>4 DEF CopyBehind, StagedRight, OwnPcs, FullPcs, PrunePcs
    <2>6. QED
      BY <1>1, <1>5, <2>5, WorksOn
  <1>11. QED
    <2>1. \A a \in Answers : ~Unanswered(a) => Commits(a)
      BY DEF Commits, Unanswered
    <2>2. CASE ~Accepts(x, g, b)
      BY <1>6, <2>2, HereFacts DEF PutBatch, Goto
    <2>3. CASE Accepts(x, g, b)
      <3>0. target(o) = x
        BY HereFacts
      <3>1. PICK a \in Answers :
            /\ chunks' = IF Commits(a) THEN [chunks EXCEPT ![x] = @ \cup {new}] ELSE chunks
            /\ IF Unanswered(a)
               THEN GotoFail(o, TRUE) /\ stageMu' = NoOp
               ELSE IF b < Batches
                    THEN SetJob(o, [job[o] EXCEPT !.next = b + 1]) /\ UNCHANGED <<pc, stageMu>>
                    ELSE /\ SetJob(o, [job[o] EXCEPT !.copy = Build(@, g)])
                         /\ Goto(o, IF Embeds THEN "embedPut" ELSE "activate")
                         /\ stageMu' = NoOp
        BY <2>3, <3>0, Zenon DEF PutBatch
      <3>2. CASE Unanswered(a)
        BY <1>7, <3>1, <3>2
      <3>3. CASE ~Unanswered(a)
        <4>1. chunks'[x] = chunks[x] \cup {new}
          BY <2>1, <3>1, <3>3, HereFacts DEF TypeOK
        <4>2. Goto(o, IF Embeds THEN "embedPut" ELSE "activate")
                  => pc'[o] \in {"embedPut", "activate"}
          BY HereFacts DEF Goto
        <4>3. QED
          BY <1>9, <1>10, <3>1, <3>3, <4>1, <4>2
      <3>4. QED
        BY <3>2, <3>3
    <2>4. QED
      BY <2>2, <2>3

\* or removes what it staged,
LEMMA ClearStagedRight ==
    ASSUME NEW o, NEW x, Here(o, x), ClearStagedData(o) \/ ClearStagedFlag(o)
    PROVE  Right(x)'
  <1>1. CASE ClearStagedData(o)
    <2>1. /\ Ingest(o) /\ renaming' = renaming /\ mappings' = mappings /\ row' = row
          /\ life' = life /\ pc[o] = "clearData" /\ pc'[o] = "clearFlag" /\ job' = job /\ Working(o)
      BY <1>1, HereFacts DEF Ingest, ClearStagedData, sideVars, Working, Goto
    <2>2. CopyBehind(o, x) /\ StagedRight(o, x) /\ job[o].gen = row[x].active + 1
      BY <2>1, HereFacts DEF StagedRight, OwnPcs
    <2>3. chunks'[x] = chunks[x] \ ChunksOf(x, job[o].gen)
      <3>1. chunks' = [chunks EXCEPT ![x] = @ \ ChunksOf(x, job[o].gen)]
        BY <1>1, HereFacts DEF ClearStagedData
      <3>2. QED
        BY <3>1, HereFacts DEF TypeOK
    <2>4. \A c : c.gen = row[x].active => (c \in chunks'[x] <=> c \in chunks[x])
      BY <2>2, <2>3, HereFacts DEF ChunksOf
    <2>5. CopyBehind(o, x)' /\ StagedRight(o, x)'
      BY <2>1, <2>2 DEF CopyBehind, StagedRight, OwnPcs, FullPcs, PrunePcs
    <2>6. QED
      BY <2>1, <2>4, <2>5, WorksOn
  <1>2. CASE ClearStagedFlag(o)
    <2>1. /\ Ingest(o) /\ renaming' = renaming /\ mappings' = mappings /\ chunks' = chunks
          /\ life' = life /\ pc[o] = "clearFlag" /\ Working(o)
      BY <1>2, HereFacts DEF Ingest, ClearStagedFlag, sideVars, Working
    <2>2. row'[x].active = row[x].active
      <3>1. GiveUp(row[x]).active = row[x].active
        BY GiveUpTyped, HereFacts
      <3>2. row' = row \/ row' = [row EXCEPT ![x] = GiveUp(row[x])]
        BY <1>2, HereFacts DEF ClearStagedFlag
      <3>3. QED
        BY <3>1, <3>2, HereFacts DEF TypeOK
    <2>3. pc' = [pc EXCEPT ![o] = "fail"] /\ job' = [job EXCEPT ![o].unknown = FALSE]
      BY <1>2 DEF ClearStagedFlag, GotoFail, Goto
    <2>4. /\ pc'[o] = "fail" /\ job'[o].copy = job[o].copy /\ job'[o].prev = job[o].prev
          /\ job'[o].of = job[o].of
      BY <2>3, HereFacts DEF Job
    <2>5. QED
      BY <2>1, <2>2, <2>4, WorksOn, FailsRight
  <1>3. QED
    BY <1>1, <1>2

\* A row that is written on the way, or ends the worker.
LEMMA PutRowRight ==
    ASSUME NEW o, NEW x, Here(o, x), Ingest(o), pc[o] \in FullPcs, NEW s, NEW next,
           s \in {"processing", "ready"}, next \in FullPcs,
           PutRow(o, [job[o].copy EXCEPT !.status = s], next),
           chunks' = chunks, mappings' = mappings, renaming' = renaming
    PROVE  Right(x)'
  <1>. DEFINE r == [job[o].copy EXCEPT !.status = s]
              j == [job[o] EXCEPT !.copy = r]
  <1>1. r \in Row /\ r.active = job[o].copy.active /\ r.of = job[o].copy.of
    BY HereFacts DEF Row
  <1>2. CopyBehind(o, x) /\ StagedRight(o, x)
    BY HereFacts
  <1>3. r.active <= row[x].active /\ Working(o)
    BY <1>1, <1>2 DEF CopyBehind, FullPcs, Working
  <1>. HIDE DEF r
  <1>4. CASE Writable(x)
    <2>1. upsert(x, r) /\ job' = [job EXCEPT ![o] = j] /\ pc' = [pc EXCEPT ![o] = next]
      BY <1>4, HereFacts DEF PutRow, SetJob, Goto, r
    <2>2. row'[x].active = row[x].active /\ life'[x] = "active"
      BY <1>1, <1>3, <2>1, HereFacts, UpsertCalm
    <2>3. /\ job'[o] = j /\ pc'[o] = next
          /\ j.copy = r /\ j.prev = job[o].prev /\ j.of = job[o].of /\ j.gen = job[o].gen
      BY <2>1, HereFacts DEF Job
    <2>. HIDE DEF j
    <2>4. ChunksOf(x, job[o].gen)' = ChunksOf(x, job[o].gen)
      BY <2>3 DEF ChunksOf
    <2>5. CopyBehind(o, x)' /\ StagedRight(o, x)'
      BY <1>1, <1>2, <1>3, <2>2, <2>3, <2>4
      DEF CopyBehind, StagedRight, AllChunks, OwnPcs, FullPcs, PrunePcs
    <2>6. QED
      BY <1>3, <2>2, <2>5, WorksOn
  <1>5. CASE ~Writable(x)
    <2>1. row' = row /\ life' = life /\ pc'[o] = "idle"
      BY <1>5, HereFacts DEF PutRow, Finish, Goto
    <2>2. QED
      BY <2>1, EndsRight
  <1>6. QED
    BY <1>4, <1>5

\* embeds or goes on without vectors,
LEMMA EmbedRight ==
    ASSUME NEW o, NEW x, Here(o, x), EmbedPut(o) \/ Embed(o) \/ DegradePut(o)
    PROVE  Right(x)'
  <1>1. CASE EmbedPut(o)
    BY <1>1, PutRowRight DEF EmbedPut, RowRest, Ingest, sideVars, FullPcs
  <1>2. CASE DegradePut(o)
    <2>1. PICK next \in FullPcs : PutRow(o, [job[o].copy EXCEPT !.status = "ready"], next)
      BY <1>2 DEF DegradePut, FullPcs
    <2>2. QED
      BY <1>2, <2>1, PutRowRight DEF DegradePut, RowRest, Ingest, sideVars, FullPcs
  <1>3. CASE Embed(o)
    <2>1. /\ Ingest(o) /\ renaming' = renaming /\ mappings' = mappings /\ chunks' = chunks
          /\ row' = row /\ life' = life /\ job' = job /\ pc[o] = "embed" /\ Working(o)
          /\ pc'[o] \in {"activate", "degrade"}
      BY <1>3, HereFacts DEF Ingest, Embed, sideVars, Working, Goto
    <2>2. CopyBehind(o, x) /\ StagedRight(o, x)
      BY HereFacts
    <2>3. CopyBehind(o, x)' /\ StagedRight(o, x)'
      BY <2>1, <2>2
      DEF CopyBehind, StagedRight, ChunksOf, AllChunks, OwnPcs, FullPcs, PrunePcs
    <2>4. QED
      BY <2>1, <2>3, WorksOn
  <1>4. QED
    BY <1>1, <1>2, <1>3

\* puts an old row back or records the failure,
LEMMA LastPutRight ==
    ASSUME NEW o, NEW x, Here(o, x), RestorePrevious(o) \/ FailDocument(o)
    PROVE  Right(x)'
  <1>1. /\ Ingest(o) /\ chunks' = chunks /\ mappings' = mappings /\ renaming' = renaming
        /\ pc'[o] = "idle" /\ CopyBehind(o, x) /\ pc[o] \in {"restore", "fail"}
    BY HereFacts DEF Ingest, RestorePrevious, FailDocument, RowRest, sideVars, Finish, Goto
  <1>2. ASSUME NEW r \in Row
        PROVE  Previous(r) \in Row /\ Previous(r).active = r.active
               /\ Failed(r) \in Row /\ Failed(r).active = r.active
    BY DEF Previous, Failed, Row
  <1>3. job[o].copy.active <= row[x].active /\ job[o].prev.active <= row[x].active
    BY <1>1 DEF CopyBehind
  <1>4. \/ row' = row /\ life' = life
        \/ upsert(x, Previous(job[o].prev)) \/ upsert(x, Failed(job[o].copy))
    BY HereFacts DEF RestorePrevious, FailDocument
  <1>5. QED
    BY <1>1, <1>2, <1>3, <1>4, HereFacts, EndsRight

\* retires what is below the active generation,
LEMMA PruneRight ==
    ASSUME NEW o, NEW x, Here(o, x), PruneMappings(o) \/ PruneChunks(o) \/ PruneRaw(o)
    PROVE  Right(x)'
  <1>. DEFINE g == job[o].gen
  <1>1. /\ Ingest(o) /\ renaming' = renaming /\ row' = row /\ life' = life /\ pc[o] \in PrunePcs
    BY DEF Ingest, PruneMappings, PruneChunks, PruneRaw, storeVars, sideVars, PrunePcs
  <1>2. /\ CopyBehind(o, x) /\ StagedRight(o, x) /\ g <= row[x].active /\ g \in Nat
        /\ pc[o] \in IngestPcs
    BY <1>1, HereFacts DEF StagedRight, PrunePcs, Job, Gens
  <1>3. \A i \in Retired(g) : i \in Nat /\ i < row[x].active
    BY <1>2, HereFacts DEF Retired
  <1>4. Right(x) /\ Calm(x)
    BY DEF Here
  <1>5. CASE pc'[o] = "idle" /\ chunks' = chunks /\ mappings' = mappings
    BY <1>1, <1>5, EndsRight
  <1>6. ASSUME pc'[o] \in PrunePcs, job'[o].copy = job[o].copy, job'[o].prev = job[o].prev,
               job'[o].gen = g, job'[o].of = job[o].of,
               \A c : c.gen >= row[x].active => (c \in chunks'[x] <=> c \in chunks[x]),
               \A m \in mappings[x] : m.gen = row[x].active => m \in mappings'[x],
               chunks' = chunks \/ life[x] = "active"
        PROVE  Right(x)'
    <2>1. CopyBehind(o, x)' /\ StagedRight(o, x)' /\ ~Working(o)'
      BY <1>1, <1>2, <1>6
      DEF CopyBehind, StagedRight, OwnPcs, FullPcs, PrunePcs, Working
    <2>2. /\ {c \in chunks'[x] : c.gen = row[x].active} = {c \in chunks[x] : c.gen = row[x].active}
          /\ {c \in chunks'[x] : c.gen = row[x].active + 1}
                = {c \in chunks[x] : c.gen = row[x].active + 1}
      <3>1. row[x].active >= row[x].active /\ row[x].active + 1 >= row[x].active
        BY HereFacts
      <3>2. QED
        BY <1>6, <3>1
    <2>3. /\ ChunksOf(x, row[x].active)' = ChunksOf(x, row[x].active)
          /\ ChunksOf(x, row[x].active + 1)' = ChunksOf(x, row[x].active + 1)
      BY <1>1, <2>2 DEF ChunksOf
    <2>4. QED
      BY <1>1, <1>4, <1>6, <2>1, <2>3, HereFacts, QuietStep
  <1>7. CASE PruneMappings(o)
    <2>. DEFINE old == {m \in mappings[x] : m.gen \in Retired(g)}
                j == [job[o] EXCEPT !.paths = {m.raw : m \in old}]
    <2>1. CASE pc'[o] = "idle" /\ mappings' = mappings
      BY <1>5, <1>7, <2>1 DEF PruneMappings
    <2>2. CASE mappings' = [mappings EXCEPT ![x] = @ \ old] /\ SetJob(o, j) /\ Goto(o, "pruneChunks")
      <3>1. /\ j.copy = job[o].copy /\ j.prev = job[o].prev /\ j.gen = g /\ j.of = job[o].of
            /\ job'[o] = j /\ pc'[o] = "pruneChunks"
        BY <2>2, HereFacts DEF Job, SetJob, Goto
      <3>2. mappings'[x] = mappings[x] \ old
        BY <2>2, HereFacts DEF TypeOK
      <3>3. \A m \in mappings[x] : m.gen = row[x].active => m \in mappings'[x]
        BY <1>3, <3>2, HereFacts
      <3>4. chunks' = chunks
        BY <1>7 DEF PruneMappings
      <3>. HIDE DEF j
      <3>5. QED
        BY <1>6, <3>1, <3>3, <3>4 DEF PrunePcs
    <2>3. QED
      BY <1>7, <2>1, <2>2, HereFacts DEF PruneMappings, Finish, Goto
  <1>8. CASE PruneChunks(o)
    <2>1. /\ job' = job /\ mappings' = mappings /\ pc'[o] = "pruneRaw"
          /\ chunks'[x] = {c \in chunks[x] : c.gen \notin Retired(g)}
      BY <1>8, HereFacts DEF PruneChunks, Goto, TypeOK
    <2>2. \A c : c.gen >= row[x].active => (c \in chunks'[x] <=> c \in chunks[x])
      BY <1>3, <2>1, HereFacts
    <2>3. chunks' = chunks \/ life[x] = "active"
      <3>1. CASE life[x] = "none"
        <4>1. chunks[x] = {} /\ chunks' = [chunks EXCEPT ![x] = {c \in @ : c.gen \notin Retired(g)}]
          BY <1>4, <1>8, <3>1, HereFacts DEF Right, Absent, PruneChunks
        <4>2. chunks \in [Doc -> SUBSET [gen : 1 .. MaxGen, batch : 1 .. Batches, of : Content]]
          BY HereFacts DEF TypeOK
        <4>3. QED
          BY <4>1, <4>2, HereFacts
      <3>2. CASE life[x] # "none"
        BY <1>4, <3>2, HereFacts DEF Calm, TypeOK
      <3>3. QED
        BY <3>1, <3>2
    <2>4. QED
      BY <1>6, <2>1, <2>2, <2>3 DEF PrunePcs
  <1>9. CASE PruneRaw(o)
    BY <1>5, <1>9, HereFacts DEF PruneRaw, storeVars, Finish, Goto
  <1>10. QED
    BY <1>7, <1>8, <1>9

\* The activation itself: what the worker has staged becomes what is published.
LEMMA ActivateCommits ==
    ASSUME NEW o, NEW x, Here(o, x), Activate(o), upsert(x, Activated(o)), job[o].gen = NextGen(x),
           mappings' = [mappings EXCEPT ![x] = {m \in @ : m.gen # job[o].gen} \cup {Mapping(o)}],
           CopyBehind(o, x)', StagedRight(o, x)'
    PROVE  Right(x)'
  <1>. DEFINE g == job[o].gen
  <1>1. /\ pc[o] = "activate" /\ chunks' = chunks /\ renaming' = renaming /\ Ingest(o) /\ Working(o)
        /\ Right(x)
    BY DEF Activate, Ingest, sideVars, Working, Here
  <1>2. g = row[x].active + 1 /\ job[o].copy.of = job[o].of /\ ChunksOf(x, g) = AllChunks(g, job[o].of)
    BY <1>1, HereFacts DEF NextGen, StagedRight, FullPcs
  <1>3. row'[x].active = g /\ life'[x] = "active"
    <2>1. job[o].copy.sv + 1 \in Gens
      BY <1>1, HereFacts, BoundsAreNumbers DEF StepTyped, Row, Gens
    <2>2. Activated(o) \in Row /\ Activated(o).active = g
      BY <2>1, HereFacts, ActivatedTyped
    <2>3. Stored(Activated(o)).active = g
      BY <2>2 DEF Stored, Row
    <2>4. QED
      BY <2>3, HereFacts DEF upsert, TypeOK
  <1>4. command' = command /\ \A p \in Op : target(p)' = target(p)
    BY <1>1, TargetKept, HereFacts DEF Next, target
  <1>5. \A p \in Op \ {o} : pc'[p] = pc[p] /\ job'[p] = job[p]
    BY <1>1, HereFacts, OtherWorker
  <1>6. \A p \in Op \ {o} : target(p) = x => ~Working(p) /\ ~Working(p)'
    BY <1>1, <1>5, HereFacts DEF Right, Working
  <1>7. Whole(x)'
    <2>. DEFINE m == Mapping(o)
    <2>1. m.gen = g /\ m.of = job[o].of
      BY <1>2 DEF Mapping
    <2>. HIDE DEF m
    <2>2. m \in mappings'[x]
      BY HereFacts DEF TypeOK, m
    <2>3. {c \in chunks'[x] : c.gen = m.gen} = AllChunks(m.gen, m.of)
      BY <1>1, <1>2, <2>1 DEF ChunksOf
    <2>4. m.gen = row'[x].active
      BY <1>3, <2>1
    <2>5. QED
      BY <2>2, <2>3, <2>4 DEF Whole, ChunksOf, AllChunks
  <1>8. RenameBehind(x)'
    <2>1. RenameBehind(x) /\ renaming.copy.active \in Nat
      BY <1>1, HereFacts DEF Right, TypeOK, Row, Gens
    <2>2. QED
      BY <1>1, <1>2, <1>3, <2>1, HereFacts DEF RenameBehind
  <1>9. ASSUME NEW p \in Op \ {o}, target(p) = x PROVE CopyBehind(p, x)' /\ StagedRight(p, x)'
    <2>1. /\ CopyBehind(p, x) /\ StagedRight(p, x) /\ pc'[p] = pc[p] /\ job'[p] = job[p]
          /\ ~Working(p)
      BY <1>1, <1>5, <1>6, <1>9 DEF Right
    <2>2. job[p].copy.active \in Nat /\ job[p].prev.active \in Nat /\ job[p].gen \in Nat
      BY HereFacts DEF TypeOK, Job, Row, Gens
    <2>3. CopyBehind(p, x)'
      BY <1>2, <1>3, <2>1, <2>2, HereFacts DEF CopyBehind
    <2>4. StagedRight(p, x)'
      BY <1>2, <1>3, <2>1, <2>2, HereFacts DEF StagedRight, Working, OwnPcs, FullPcs, PrunePcs
    <2>5. QED
      BY <2>3, <2>4
  <1>10. QED
    BY <1>3, <1>4, <1>6, <1>7, <1>8, <1>9, HereFacts DEF Right, Absent

\* and activates the full one.
LEMMA ActivateRight ==
    ASSUME NEW o, NEW x, Here(o, x), Activate(o)
    PROVE  Right(x)'
  <1>. DEFINE raised == Raised(job[o].copy)
              failed == [job[o] EXCEPT !.copy = raised]
              unknown == [job[o] EXCEPT !.copy = raised, !.unknown = TRUE]
              commit == /\ upsert(x, Activated(o)) /\ job[o].gen = NextGen(x)
                        /\ mappings' = [mappings EXCEPT ![x] =
                               {m \in @ : m.gen # job[o].gen} \cup {Mapping(o)}]
  <1>1. /\ pc[o] = "activate" /\ chunks' = chunks /\ renaming' = renaming /\ Ingest(o) /\ Working(o)
    BY DEF Activate, Ingest, sideVars, Working
  <1>2. /\ CopyBehind(o, x) /\ StagedRight(o, x) /\ job[o].copy.of = job[o].of
        /\ job[o].gen = row[x].active + 1 /\ job[o].gen \in Nat
    BY <1>1, HereFacts DEF StagedRight, OwnPcs
  <1>3. raised \in Row /\ raised.of = job[o].copy.of /\ raised.active = job[o].copy.active
    <2>1. job[o].copy.sv + 1 \in Gens
      BY <1>1, HereFacts, BoundsAreNumbers DEF StepTyped, Row, Gens
    <2>2. QED
      BY <2>1, HereFacts, RaisedTyped
  <1>. HIDE DEF raised
  <1>4. /\ failed.copy = raised /\ failed.of = job[o].of /\ failed.prev = job[o].prev
        /\ unknown.copy = raised /\ unknown.of = job[o].of /\ unknown.prev = job[o].prev
    BY <1>3, HereFacts, JobRaised DEF Job
  <1>. HIDE DEF failed, unknown
  <1>5. row'[x].active >= row[x].active
    <2>1. CASE row' = row
      BY <2>1, HereFacts
    <2>2. CASE upsert(x, Activated(o))
      <3>1. job[o].copy.sv + 1 \in Gens
        BY <1>1, HereFacts, BoundsAreNumbers DEF StepTyped, Row, Gens
      <3>2. Activated(o) \in Row /\ Activated(o).active = job[o].gen
        BY <3>1, HereFacts, ActivatedTyped
      <3>3. Stored(Activated(o)).active = job[o].gen
        BY <3>2 DEF Stored, Row
      <3>4. QED
        BY <1>2, <2>2, <3>3, HereFacts DEF upsert, TypeOK
    <2>3. QED
      BY <2>1, <2>2, HereFacts DEF Activate
  <1>6. row'[x].active \in Nat
    <2>1. TypeOK'
      BY <1>1, StepTypedNext, HereFacts DEF Next, Typed
    <2>2. QED
      BY <2>1, HereFacts DEF TypeOK, Row, Gens
  <1>7. ASSUME pc'[o] = "fail", job'[o] = failed \/ job'[o] = unknown
        PROVE  CopyBehind(o, x)' /\ StagedRight(o, x)'
    <2>1. raised.active <= row'[x].active /\ job[o].prev.active <= row'[x].active
      BY <1>1, <1>2, <1>3, <1>5, <1>6, HereFacts DEF CopyBehind
    <2>2. QED
      BY <1>2, <1>3, <1>4, <1>7, <2>1 DEF CopyBehind, StagedRight, OwnPcs, FullPcs, PrunePcs
  <1>8. ASSUME commit, pc'[o] = "prune", job' = job
        PROVE  CopyBehind(o, x)' /\ StagedRight(o, x)'
    <2>1. job[o].copy.active <= row'[x].active /\ job[o].prev.active <= row'[x].active
      BY <1>1, <1>2, <1>5, <1>6, HereFacts DEF CopyBehind
    <2>2. job[o].gen <= row'[x].active
      <3>1. job[o].copy.sv + 1 \in Gens
        BY <1>1, HereFacts, BoundsAreNumbers DEF StepTyped, Row, Gens
      <3>2. Activated(o) \in Row /\ Activated(o).active = job[o].gen
        BY <3>1, HereFacts, ActivatedTyped
      <3>3. Stored(Activated(o)).active = job[o].gen
        BY <3>2 DEF Stored, Row
      <3>4. QED
        BY <1>2, <1>8, <3>3, HereFacts DEF upsert, TypeOK
    <2>3. QED
      BY <1>2, <1>8, <2>1, <2>2 DEF CopyBehind, StagedRight, OwnPcs, FullPcs, PrunePcs
  <1>9. CASE row' = row /\ life' = life /\ mappings' = mappings /\ pc'[o] = "fail"
             /\ (job'[o] = failed \/ job'[o] = unknown)
    BY <1>1, <1>7, <1>9, WorksOn
  <1>10. CASE commit /\ (\/ pc'[o] = "fail" /\ job'[o] = unknown
                         \/ pc'[o] = "prune" /\ job' = job)
    BY <1>7, <1>8, <1>10, ActivateCommits
  <1>11. QED
    <2>0. target(o) = x /\ pc \in [Op -> Pcs] /\ job \in [Op -> Job] /\ o \in Op
      BY HereFacts
    <2>1. CASE ~(Fenced(x) /\ job[o].gen = NextGen(x))
      <3>1. /\ Goto(o, "fail") /\ SetJob(o, failed)
            /\ UNCHANGED <<life, row, mappings, committed, published, rewound, events>>
        BY <2>0, <2>1, Zenon DEF Activate, failed, raised
      <3>2. QED
        BY <1>9, <2>0, <3>1 DEF Goto, SetJob
    <2>2. CASE Fenced(x) /\ job[o].gen = NextGen(x)
      <3>1. PICK a \in Answers :
            /\ IF Commits(a)
               THEN /\ upsert(x, Activated(o))
                    /\ mappings' = [mappings EXCEPT ![x] =
                           {m \in @ : m.gen # job[o].gen} \cup {Mapping(o)}]
                    /\ committed' = Marked(o)
                    /\ published' = [published EXCEPT ![o] = @ + 1]
               ELSE UNCHANGED <<life, row, mappings, committed, published, rewound>>
            /\ IF Unanswered(a)
               THEN Goto(o, "fail") /\ SetJob(o, unknown)
               ELSE Goto(o, "prune") /\ UNCHANGED job
        BY <2>0, <2>2, Zenon DEF Activate, unknown, raised
      <3>2. /\ Unanswered(a) => pc'[o] = "fail" /\ job'[o] = unknown
            /\ ~Unanswered(a) => pc'[o] = "prune" /\ job' = job /\ Commits(a)
        BY <2>0, <3>1 DEF Goto, SetJob, Unanswered, Commits
      <3>3. CASE Commits(a)
        <4>1. commit
          BY <2>2, <3>1, <3>3
        <4>2. QED
          BY <1>10, <3>2, <4>1
      <3>4. CASE ~Commits(a)
        BY <1>9, <3>1, <3>2, <3>4
      <3>5. QED
        BY <3>3, <3>4
    <2>3. QED
      BY <2>1, <2>2

\* A clean-up goes on below its fence.
LEMMA CleansStep ==
    ASSUME Typed, CleanersInv, [Next]_vars, NEW o \in Op
    PROVE  Cleans(o)'
  <1>. DEFINE t == target(o)
  <1>1. t \in Doc /\ t' = t /\ Tree(t)' = Tree(t) /\ command' = command /\ Cleans(o)
    BY TargetTyped, TargetKept DEF Typed, target, Tree, CleanersInv
  <1>2. job \in [Op -> Job] /\ pc \in [Op -> Pcs] /\ life \in [Doc -> {"none", "active", "deleting"}]
    BY DEF Typed, TypeOK
  <1>3. life[t] = "deleting" => life'[t] = "deleting"
    BY <1>1, DeletedStep
  <1>4. ASSUME pc'[o] \in CleanPcs => pc[o] \in CleanPcs /\ job'[o].todo \subseteq job[o].todo
        PROVE  Cleans(o)'
    BY <1>1, <1>3, <1>4 DEF Cleans
  <1>5. ASSUME life'[t] = "deleting", job'[o].todo = Tree(t)
        PROVE  Cleans(o)'
    BY <1>1, <1>5 DEF Cleans
  <1>6. [NoJob EXCEPT !.todo = Tree(t)].todo = Tree(t)
    BY NoJobTyped DEF Job
  <1>7. CASE BeginDelete(o)
    <2>1. pc'[o] \notin CleanPcs \/ (life[t] = "deleting" /\ job'[o].todo = Tree(t))
      BY <1>2, <1>6, <1>7 DEF BeginDelete, Finish, Goto, SetJob, CleanPcs
    <2>2. QED
      BY <1>3, <1>4, <1>5, <2>1
  <1>8. CASE FenceTree(o)
    <2>1. pc'[o] \notin CleanPcs \/ (FencesTree(t) /\ life[t] = "active" /\ job'[o].todo = Tree(t))
      <3>1. \A a \in Answers : ~Unanswered(a) => Commits(a)
        BY DEF Commits, Unanswered
      <3>2. QED
        BY <1>2, <1>6, <1>8, <3>1 DEF FenceTree, FencesTree, Finish, Goto, SetJob, CleanPcs
    <2>2. t \in Tree(t)
      BY <1>1, LineageFacts DEF Tree
    <2>3. FencesTree(t) /\ life[t] = "active" => life'[t] = "deleting"
      BY <1>1, <2>2 DEF FencesTree
    <2>4. QED
      BY <1>4, <1>5, <2>1, <2>3
  <1>9. CASE CleanChunks(o)
    <2>1. pc'[o] \notin CleanPcs \/ (pc[o] \in CleanPcs /\ job' = job)
      BY <1>2, <1>9 DEF CleanChunks, Finish, Goto, CleanPcs
    <2>2. QED
      BY <1>4, <2>1
  <1>10. CASE CleanMappings(o)
    <2>1. pc[o] \in CleanPcs /\ job'[o].todo = job[o].todo
      BY <1>2, <1>10 DEF CleanMappings, SetJob, Job, CleanPcs
    <2>2. QED
      BY <1>4, <2>1
  <1>11. CASE CleanRaw(o)
    <2>1. pc[o] \in CleanPcs
      BY <1>11 DEF CleanRaw, CleanPcs
    <2>2. job'[o].todo = job[o].todo \ {Current(o)}
      <3>. DEFINE d == job[o].todo \ {Current(o)}
      <3>1. d \in SUBSET Doc /\ job[o] \in Job
        BY <1>2 DEF Job
      <3>2. job' = [job EXCEPT ![o] = [job[o] EXCEPT !.todo = d, !.paths = {}]]
        BY <1>11 DEF CleanRaw, SetJob
      <3>. HIDE DEF d
      <3>3. [job[o] EXCEPT !.todo = d, !.paths = {}].todo = d
        BY <3>1, JobCleaned
      <3>4. job'[o].todo = d
        BY <1>2, <3>2, <3>3
      <3>5. QED
        BY <3>4 DEF d
    <2>3. QED
      BY <1>4, <2>1, <2>2
  <1>12. CASE FenceBase(o) \/ CleanBaseChunks(o) \/ CleanBaseRaw(o)
    <2>1. pc'[o] \notin CleanPcs
      <3>1. command[o].kind = "deleteBase"
        BY <1>12 DEF FenceBase, CleanBaseChunks, CleanBaseRaw, Typed, StepsTyped, StepTyped
      <3>2. Typed'
        BY StepTypedNext
      <3>3. QED
        BY <1>1, <3>1, <3>2 DEF Typed, StepsTyped, StepTyped, CleanPcs
    <2>2. QED
      BY <1>4, <2>1
  <1>13. CASE Ingest(o)
    <2>1. pc'[o] \notin CleanPcs
      <3>1. command[o].kind \in Ingests
        BY <1>13, IngestKind
      <3>2. Typed'
        BY StepTypedNext
      <3>3. QED
        BY <1>1, <3>1, <3>2 DEF Typed, StepsTyped, StepTyped, CleanPcs
    <2>2. QED
      BY <1>4, <2>1
  <1>14. CASE \E p \in Op : p # o /\ (Ingest(p) \/ Delete(p))
    BY <1>4, <1>14, OtherWorker
  <1>15. CASE SideStep
    BY <1>4, <1>15, SideWorkers DEF CleanPcs
  <1>16. CASE UNCHANGED vars
    BY <1>4, <1>16 DEF vars
  <1>17. QED
    BY <1>7, <1>8, <1>9, <1>10, <1>11, <1>12, <1>13, <1>14, <1>15, <1>16 DEF Next, SideStep, Delete

\* What has not been overlapped or set back never was.
LEMMA CalmBefore ==
    ASSUME Typed, [Next]_vars, NEW x \in Doc, Calm(x)'
    PROVE  Calm(x)
  <1>1. overlapped \subseteq overlapped' /\ rewound \subseteq rewound'
    <2>1. ASSUME NEW o \in Op, Ingest(o) PROVE overlapped \subseteq overlapped' /\ rewound \subseteq rewound'
      <3>1. CASE \/ BeginIngest(o) \/ WriteRaw(o) \/ StageBegin(o) \/ ClearLeftover(o)
                 \/ PutBatch(o) \/ ClearStagedData(o) \/ ClearStagedFlag(o) \/ Embed(o)
                 \/ PruneMappings(o) \/ PruneChunks(o) \/ PruneRaw(o)
        BY <3>1 DEF BeginIngest, WriteRaw, StageBegin, ClearLeftover, PutBatch, ClearStagedData,
              ClearStagedFlag, Embed, PruneMappings, PruneChunks, PruneRaw, ghostVars
      <3>2. CASE EmbedPut(o) \/ DegradePut(o) \/ RestorePrevious(o) \/ FailDocument(o)
        BY <3>2 DEF EmbedPut, DegradePut, RestorePrevious, FailDocument, PutRow, RowRest, upsert
      <3>3. CASE StartIngest(o)
        BY <3>3 DEF StartIngest, upsert
      <3>4. CASE Activate(o)
        BY <3>4 DEF Activate, upsert
      <3>5. QED
        BY <2>1, <3>1, <3>2, <3>3, <3>4 DEF Ingest
    <2>2. ASSUME NEW o \in Op, Delete(o) PROVE overlapped' = overlapped /\ rewound' = rewound
      BY <2>2 DEF Delete, BeginDelete, FenceTree, CleanChunks, CleanMappings, CleanRaw, FenceBase,
              CleanBaseChunks, CleanBaseRaw, ghostVars
    <2>3. CASE SideStep
      BY <2>3 DEF SideStep, Retry, Crash, RecoverRead, RecoverWrite, RenameRead, RenamePut, ScanRead,
              ScanQuarantine, ScanDone, ghostVars, upsert
    <2>4. CASE UNCHANGED vars
      BY <2>4 DEF vars, ghostVars
    <2>5. QED
      BY <2>1, <2>2, <2>3, <2>4 DEF Next, SideStep
  <1>2. life[x] = "deleting" => life'[x] = "deleting"
    BY DeletedStep
  <1>3. QED
    BY <1>1, <1>2 DEF Calm

\* A step that touches neither the data of a document nor its workers.
LEMMA UntouchedRight ==
    ASSUME Typed, [Next]_vars, NEW x \in Doc, Right(x),
           row'[x].active = row[x].active, life'[x] = life[x] \/ life'[x] = "active",
           chunks'[x] = chunks[x], mappings'[x] = mappings[x] \/ life[x] = "none",
           RenameBehind(x)',
           \A o \in Op : target(o) = x =>
               (pc'[o] = pc[o] /\ job'[o] = job[o]) \/ pc'[o] \notin IngestPcs
    PROVE  Right(x)'
  <1>1. \A p \in Op : target(p)' = target(p)
    BY TargetKept DEF target
  <1>2. ASSUME NEW o \in Op, target(o) = x
        PROVE  CopyBehind(o, x)' /\ StagedRight(o, x)' /\ (Working(o)' => Working(o))
    <2>1. CASE pc'[o] = pc[o] /\ job'[o] = job[o]
      <3>1. CopyBehind(o, x) /\ StagedRight(o, x)
        BY <1>2 DEF Right
      <3>2. \A g : {c \in chunks'[x] : c.gen = g} = {c \in chunks[x] : c.gen = g}
        OBVIOUS
      <3>3. CopyBehind(o, x)' /\ (Working(o)' <=> Working(o))
        BY <2>1, <3>1 DEF CopyBehind, Working
      <3>4. StagedRight(o, x)'
        BY <2>1, <3>1, <3>2
        DEF StagedRight, ChunksOf, AllChunks, BatchesBefore, OwnPcs, FullPcs, PrunePcs
      <3>5. QED
        BY <3>3, <3>4
    <2>2. CASE pc'[o] \notin IngestPcs
      BY <2>2 DEF CopyBehind, StagedRight, Working, OwnPcs, FullPcs, PrunePcs
    <2>3. QED
      BY <1>2, <2>1, <2>2
  <1>3. Absent(x)'
    BY <1>1, <1>2 DEF Right, Absent
  <1>4. Whole(x)'
    <2>1. CASE life[x] = "none"
      <3>1. row[x].active = 0
        BY <2>1 DEF Right, Absent
      <3>2. QED
        BY <3>1 DEF Whole
    <2>2. CASE mappings'[x] = mappings[x]
      BY <2>2 DEF Right, Whole, ChunksOf
    <2>3. QED
      BY <2>1, <2>2
  <1>5. ASSUME NEW o \in Op, NEW p \in Op, target(o) = x, target(p) = x, Working(o)', Working(p)'
        PROVE  o = p
    BY <1>2, <1>5 DEF Right
  <1>6. QED
    BY <1>1, <1>2, <1>3, <1>4, <1>5 DEF Right

\* The ingest of another document.
LEMMA IngestAway ==
    ASSUME Typed, NEW x \in Doc, NEW p \in Op, Ingest(p), target(p) # x
    PROVE  /\ chunks'[x] = chunks[x] /\ mappings'[x] = mappings[x]
           /\ row'[x] = row[x] /\ life'[x] = life[x] /\ renaming' = renaming
  <1>. DEFINE y == target(p)
  <1>1. /\ chunks \in [Doc -> SUBSET [gen : 1 .. MaxGen, batch : 1 .. Batches, of : Content]]
        /\ mappings \in [Doc -> SUBSET [gen : 1 .. MaxGen, sv : Versions, raw : Versions, of : Content]]
        /\ row \in [Doc -> Row] /\ life \in [Doc -> {"none", "active", "deleting"}] /\ y \in Doc
    BY TargetTyped DEF Typed, TypeOK
  <1>2. chunks'[x] = chunks[x]
    <2>1. CASE ClearLeftover(p) \/ PutBatch(p) \/ ClearStagedData(p) \/ PruneChunks(p)
      BY <1>1, <2>1 DEF ClearLeftover, PutBatch, ClearStagedData, PruneChunks
    <2>2. CASE \/ BeginIngest(p) \/ StartIngest(p) \/ WriteRaw(p) \/ StageBegin(p)
               \/ ClearStagedFlag(p) \/ Embed(p) \/ Activate(p) \/ PruneMappings(p) \/ PruneRaw(p)
      BY <2>2 DEF BeginIngest, StartIngest, WriteRaw, StageBegin, ClearStagedFlag, Embed, Activate,
                  PruneMappings, PruneRaw, storeVars
    <2>3. CASE EmbedPut(p) \/ DegradePut(p) \/ RestorePrevious(p) \/ FailDocument(p)
      BY <2>3 DEF EmbedPut, DegradePut, RestorePrevious, FailDocument, RowRest
    <2>4. QED
      BY <2>1, <2>2, <2>3 DEF Ingest
  <1>3. mappings'[x] = mappings[x]
    <2>1. CASE Activate(p) \/ PruneMappings(p)
      BY <1>1, <2>1 DEF Activate, PruneMappings
    <2>2. CASE \/ BeginIngest(p) \/ StartIngest(p) \/ WriteRaw(p) \/ StageBegin(p)
               \/ ClearStagedFlag(p) \/ Embed(p) \/ PruneRaw(p)
               \/ ClearLeftover(p) \/ PutBatch(p) \/ ClearStagedData(p) \/ PruneChunks(p)
      BY <2>2 DEF BeginIngest, StartIngest, WriteRaw, StageBegin, ClearStagedFlag, Embed, PruneRaw,
                  ClearLeftover, PutBatch, ClearStagedData, PruneChunks, storeVars
    <2>3. CASE EmbedPut(p) \/ DegradePut(p) \/ RestorePrevious(p) \/ FailDocument(p)
      BY <2>3 DEF EmbedPut, DegradePut, RestorePrevious, FailDocument, RowRest
    <2>4. QED
      BY <2>1, <2>2, <2>3 DEF Ingest
  <1>4. row'[x] = row[x] /\ life'[x] = life[x]
    <2>1. \/ row' = row /\ life' = life
          \/ \E r : upsert(y, r)
          \/ life' = life /\ \E r : row' = [row EXCEPT ![y] = r]
      <3>1. CASE StartIngest(p)
        BY <3>1 DEF StartIngest
      <3>2. CASE EmbedPut(p) \/ DegradePut(p)
        BY <3>2 DEF EmbedPut, DegradePut, PutRow
      <3>3. CASE RestorePrevious(p) \/ FailDocument(p)
        BY <3>3 DEF RestorePrevious, FailDocument
      <3>4. CASE Activate(p)
        BY <3>4 DEF Activate
      <3>5. CASE StageBegin(p) \/ ClearStagedFlag(p)
        BY <3>5 DEF StageBegin, ClearStagedFlag
      <3>6. CASE \/ BeginIngest(p) \/ WriteRaw(p) \/ Embed(p) \/ PruneRaw(p) \/ PruneMappings(p)
                 \/ ClearLeftover(p) \/ PutBatch(p) \/ ClearStagedData(p) \/ PruneChunks(p)
        BY <3>6 DEF BeginIngest, WriteRaw, Embed, PruneRaw, PruneMappings, ClearLeftover, PutBatch,
                    ClearStagedData, PruneChunks, storeVars
      <3>7. QED
        BY <3>1, <3>2, <3>3, <3>4, <3>5, <3>6 DEF Ingest
    <2>2. ASSUME NEW r, upsert(y, r) PROVE row'[x] = row[x] /\ life'[x] = life[x]
      BY <1>1, <2>2 DEF upsert
    <2>3. QED
      BY <1>1, <2>1, <2>2
  <1>5. renaming' = renaming
    <2>1. CASE EmbedPut(p) \/ DegradePut(p) \/ RestorePrevious(p) \/ FailDocument(p)
      BY <2>1 DEF EmbedPut, DegradePut, RestorePrevious, FailDocument, RowRest, sideVars
    <2>2. CASE \/ BeginIngest(p) \/ StartIngest(p) \/ WriteRaw(p) \/ StageBegin(p)
               \/ ClearStagedFlag(p) \/ Embed(p) \/ PruneRaw(p) \/ Activate(p) \/ PruneMappings(p)
               \/ ClearLeftover(p) \/ PutBatch(p) \/ ClearStagedData(p) \/ PruneChunks(p)
      BY <2>2 DEF BeginIngest, StartIngest, WriteRaw, StageBegin, ClearStagedFlag, Embed, PruneRaw,
                  Activate, PruneMappings, ClearLeftover, PutBatch, ClearStagedData, PruneChunks, sideVars
    <2>3. QED
      BY <2>1, <2>2 DEF Ingest
  <1>6. QED
    BY <1>2, <1>3, <1>4, <1>5

LEMMA IngestElsewhere ==
    ASSUME Typed, NEW x \in Doc, NEW p \in Op, Ingest(p), target(p) # x, Right(x)
    PROVE  Right(x)'
  <1>1. /\ chunks'[x] = chunks[x] /\ mappings'[x] = mappings[x]
        /\ row'[x] = row[x] /\ life'[x] = life[x] /\ renaming' = renaming
    BY IngestAway
  <1>2. \A o \in Op : target(o) = x => pc'[o] = pc[o] /\ job'[o] = job[o]
    BY OtherWorker
  <1>3. RenameBehind(x)'
    BY <1>1 DEF Right, RenameBehind
  <1>4. [Next]_vars
    BY DEF Next
  <1>5. QED
    BY <1>1, <1>2, <1>3, <1>4, UntouchedRight

\* A clean-up touches no document that is still there.
LEMMA DeleteAway ==
    ASSUME Typed, LiveScope, CleanInv, CleanersInv, NEW x \in Doc, NEW o \in Op, Delete(o),
           Right(x), Calm(x), Calm(x)'
    PROVE  /\ row' = row /\ renaming' = renaming /\ life'[x] = life[x]
           /\ chunks'[x] = chunks[x]
           /\ mappings'[x] = mappings[x] \/ life[x] = "none"
           /\ \A p \in Op : target(p) = x =>
                 (pc'[p] = pc[p] /\ job'[p] = job[p]) \/ pc'[p] \notin IngestPcs
  <1>1. /\ chunks \in [Doc -> SUBSET [gen : 1 .. MaxGen, batch : 1 .. Batches, of : Content]]
        /\ mappings \in [Doc -> SUBSET [gen : 1 .. MaxGen, sv : Versions, raw : Versions, of : Content]]
        /\ life \in [Doc -> {"none", "active", "deleting"}] /\ pc \in [Op -> Pcs]
    BY DEF Typed, TypeOK
  <1>2. row' = row /\ renaming' = renaming
    BY DEF Delete, BeginDelete, FenceTree, CleanChunks, CleanMappings, CleanRaw, FenceBase,
           CleanBaseChunks, CleanBaseRaw, storeVars, sideVars
  <1>3. life'[x] = life[x]
    <2>1. life'[x] # "deleting"
      BY DEF Calm
    <2>2. CASE Upserts
      <3>1. CASE FenceTree(o)
        BY <1>1, <2>1, <3>1 DEF FenceTree
      <3>2. CASE FenceBase(o)
        BY <1>1, <2>1, <3>2 DEF FenceBase, BaseDeleting
      <3>3. CASE \/ BeginDelete(o) \/ CleanChunks(o) \/ CleanMappings(o) \/ CleanRaw(o)
                 \/ CleanBaseChunks(o) \/ CleanBaseRaw(o)
        BY <3>3 DEF BeginDelete, CleanChunks, CleanMappings, CleanRaw, CleanBaseChunks, CleanBaseRaw,
                    storeVars
      <3>4. QED
        BY <3>1, <3>2, <3>3 DEF Delete
    <2>3. Next
      BY DEF Next
    <2>4. QED
      BY <1>1, <2>1, <2>2, <2>3, LifeStep DEF Typed, FencesTree, FencesBase
  <1>4. chunks'[x] = chunks[x]
    <2>1. CASE CleanChunks(o) /\ job[o].todo # {}
      <3>1. chunks' = [chunks EXCEPT ![Current(o)] = {}]
        BY <2>1 DEF CleanChunks
      <3>2. CASE Current(o) = x
        <4>1. x \in job[o].todo
          BY <2>1, <3>2, CurrentTyped DEF Typed
        <4>2. /\ life[target(o)] = "deleting" /\ x \in Tree(target(o))
          BY <2>1, <4>1 DEF CleanersInv, Cleans, CleanPcs, CleanChunks
        <4>3. life[x] = "none"
          BY <1>1, <4>2 DEF LiveScope, Tree, Calm
        <4>4. chunks[x] = {}
          BY <4>3 DEF Right, Absent
        <4>5. QED
          BY <1>1, <3>1, <3>2, <4>4
      <3>3. CASE Current(o) # x
        BY <1>1, <3>1, <3>3
      <3>4. QED
        BY <3>2, <3>3
    <2>2. CASE CleanBaseChunks(o)
      <3>1. baseLife = "deleting"
        BY <2>2 DEF CleanBaseChunks, CleanInv, BaseInv, Typed, StepsTyped, StepTyped
      <3>2. life[x] = "none"
        BY <1>1, <3>1 DEF LiveScope, Calm
      <3>3. chunks[x] = {}
        BY <3>2 DEF Right, Absent
      <3>4. QED
        BY <2>2, <3>3 DEF CleanBaseChunks
    <2>3. QED
      BY <2>1, <2>2 DEF Delete, BeginDelete, FenceTree, CleanChunks, CleanMappings, CleanRaw,
           FenceBase, CleanBaseRaw, storeVars
  <1>5. mappings'[x] = mappings[x] \/ life[x] = "none"
    <2>1. CASE CleanMappings(o)
      <3>1. mappings' = [mappings EXCEPT ![Current(o)] = {}]
        BY <2>1 DEF CleanMappings
      <3>2. CASE Current(o) = x
        <4>1. x \in job[o].todo
          BY <2>1, <3>2, CurrentTyped DEF CleanMappings, Typed, StepsTyped, StepTyped
        <4>2. /\ life[target(o)] = "deleting" /\ x \in Tree(target(o))
          BY <2>1, <4>1 DEF CleanersInv, Cleans, CleanPcs, CleanMappings
        <4>3. QED
          BY <1>1, <4>2 DEF LiveScope, Tree, Calm
      <3>3. CASE Current(o) # x
        BY <1>1, <3>1, <3>3
      <3>4. QED
        BY <3>2, <3>3
    <2>2. QED
      BY <2>1 DEF Delete, BeginDelete, FenceTree, CleanChunks, CleanRaw, FenceBase,
           CleanBaseChunks, CleanBaseRaw, storeVars
  <1>6. ASSUME NEW p \in Op, target(p) = x
        PROVE  (pc'[p] = pc[p] /\ job'[p] = job[p]) \/ pc'[p] \notin IngestPcs
    <2>1. CASE p = o
      BY <1>1, <2>1 DEF Delete, BeginDelete, FenceTree, CleanChunks, CleanMappings, CleanRaw,
           FenceBase, CleanBaseChunks, CleanBaseRaw, Finish, Goto
    <2>2. CASE p # o
      BY <2>2, OtherWorker
    <2>3. QED
      BY <2>1, <2>2
  <1>7. QED
    BY <1>2, <1>3, <1>4, <1>5, <1>6

LEMMA DeleteRight ==
    ASSUME Typed, LiveScope, CleanInv, CleanersInv, NEW x \in Doc, NEW o \in Op, Delete(o),
           Right(x), Calm(x), Calm(x)'
    PROVE  Right(x)'
  <1>1. /\ row' = row /\ renaming' = renaming /\ life'[x] = life[x]
        /\ chunks'[x] = chunks[x]
        /\ mappings'[x] = mappings[x] \/ life[x] = "none"
        /\ \A p \in Op : target(p) = x =>
              (pc'[p] = pc[p] /\ job'[p] = job[p]) \/ pc'[p] \notin IngestPcs
    BY DeleteAway
  <1>2. RenameBehind(x)'
    BY <1>1 DEF Right, RenameBehind
  <1>3. [Next]_vars
    BY DEF Next
  <1>4. QED
    BY <1>1, <1>2, <1>3, UntouchedRight

\* A restart, a recovery, a rename and a scan leave it right.
LEMMA SideRight ==
    ASSUME Typed, SideStep, NEW x \in Doc, Right(x), Calm(x), Calm(x)'
    PROVE  Right(x)'
  <1>1. [Next]_vars /\ row \in [Doc -> Row]
    BY DEF SideStep, Next, Typed, TypeOK
  <1>2. chunks' = chunks /\ mappings' = mappings
    BY DEF SideStep, Retry, Crash, RecoverRead, RecoverWrite, RenameRead, RenamePut, ScanRead,
           ScanQuarantine, ScanDone, storeVars
  <1>3. \A o \in Op : (pc'[o] = pc[o] /\ job'[o] = job[o]) \/ pc'[o] \notin IngestPcs
    BY SideWorkers
  <1>4. ASSUME row'[x].active = row[x].active, life'[x] = life[x] \/ life'[x] = "active",
               RenameBehind(x)'
        PROVE  Right(x)'
    BY <1>1, <1>2, <1>3, <1>4, UntouchedRight
  <1>5. RenameBehind(x)
    BY DEF Right
  <1>6. CASE (\E o \in Op : Retry(o)) \/ RecoverRead \/ ScanRead \/ ScanDone
             \/ \E y \in Doc, v \in Versions : ScanQuarantine(y, v)
    <2>1. row' = row /\ life' = life /\ renaming' = renaming
      BY <1>6 DEF Retry, RecoverRead, ScanRead, ScanDone, ScanQuarantine, storeVars, sideVars
    <2>2. QED
      BY <1>4, <1>5, <2>1 DEF RenameBehind
  <1>7. CASE Crash
    BY <1>4, <1>7 DEF Crash, storeVars, RenameBehind
  <1>8. CASE RecoverWrite
    <2>1. row'[x].active = row[x].active
      <3>1. ASSUME NEW s PROVE [GiveUp(row[x]) EXCEPT !.status = s].active = row[x].active
        <4>1. GiveUp(row[x]) \in Row /\ GiveUp(row[x]).active = row[x].active
          BY <1>1, GiveUpTyped
        <4>2. QED
          BY <4>1 DEF Row
      <3>2. QED
        BY <1>8, <3>1 DEF RecoverWrite
    <2>2. life' = life /\ renaming' = renaming
      BY <1>8 DEF RecoverWrite
    <2>3. QED
      BY <1>4, <1>5, <2>1, <2>2 DEF RenameBehind
  <1>9. CASE \E y \in Doc : RenameRead(y)
    <2>1. row' = row /\ life' = life /\ \E y \in Doc : renaming' = [doc |-> y, copy |-> row[y]]
      BY <1>9 DEF RenameRead, storeVars
    <2>2. row[x].active \in Nat
      BY <1>1 DEF Row, Gens
    <2>3. QED
      BY <1>4, <2>1, <2>2 DEF RenameBehind
  <1>10. CASE RenamePut
    <2>1. renaming' = NoRename /\ renaming.copy \in Row
      BY <1>10 DEF RenamePut, Typed, TypeOK
    <2>2. CASE row' = row /\ life' = life
      BY <1>4, <2>1, <2>2 DEF RenameBehind
    <2>3. CASE upsert(renaming.doc, renaming.copy) /\ renaming.doc = x
      <3>1. renaming.copy.active <= row[x].active
        BY <1>5, <1>10, <2>3 DEF RenameBehind, RenamePut
      <3>2. x \notin rewound'
        BY DEF Calm
      <3>3. row'[x].active = row[x].active /\ life'[x] = "active"
        BY <2>1, <2>3, <3>1, <3>2, UpsertCalm
      <3>4. QED
        BY <1>4, <2>1, <3>3 DEF RenameBehind
    <2>4. CASE upsert(renaming.doc, renaming.copy) /\ renaming.doc # x
      <3>1. row'[x] = row[x] /\ life'[x] = life[x]
        BY <1>1, <2>4 DEF upsert, Typed, TypeOK
      <3>2. QED
        BY <1>4, <2>1, <3>1 DEF RenameBehind
    <2>5. QED
      BY <1>10, <2>2, <2>3, <2>4 DEF RenamePut
  <1>11. QED
    BY <1>6, <1>7, <1>8, <1>9, <1>10 DEF SideStep

\* Every step keeps the calm documents right.
LEMMA WholeStep ==
    ASSUME Typed, LiveScope, CleanInv, CleanersInv, WholeInv, [Next]_vars
    PROVE  WholeInv'
  <1>. SUFFICES ASSUME NEW x \in Doc, Calm(x)' PROVE Right(x)'
    BY DEF WholeInv
  <1>1. Calm(x) /\ Right(x)
    BY CalmBefore DEF WholeInv
  <1>2. ASSUME NEW o \in Op, Ingest(o) PROVE Right(x)'
    <2>1. CASE target(o) = x
      <3>1. Here(o, x)
        BY <1>1, <2>1 DEF Here
      <3>2. QED
        BY <1>2, <3>1, BeginIngestRight, StartIngestRight, WriteRawRight, StageBeginRight,
           ClearLeftoverRight, PutBatchRight, ClearStagedRight, EmbedRight, LastPutRight,
           ActivateRight, PruneRight DEF Ingest
    <2>2. CASE target(o) # x
      BY <1>1, <1>2, <2>2, IngestElsewhere
    <2>3. QED
      BY <2>1, <2>2
  <1>3. ASSUME NEW o \in Op, Delete(o) PROVE Right(x)'
    BY <1>1, <1>3, DeleteRight
  <1>4. CASE SideStep
    BY <1>1, <1>4, SideRight
  <1>5. CASE UNCHANGED vars
    BY <1>1, <1>5, UntouchedRight DEF vars, storeVars, sideVars, RenameBehind, Right
  <1>6. QED
    BY <1>2, <1>3, <1>4, <1>5 DEF Next, SideStep

\* The published documents of Init are whole.
LEMMA InitWhole == Init => WholeInv /\ CleanersInv
  <1>. SUFFICES ASSUME Init PROVE WholeInv /\ CleanersInv
    OBVIOUS
  <1>1. \A o \in Op : pc[o] = "idle"
    BY DEF Init
  <1>2. renaming = NoRename
    BY DEF Init
  <1>3. CleanersInv
    BY <1>1 DEF CleanersInv, Cleans, CleanPcs
  <1>4. ASSUME NEW x \in Doc PROVE Right(x)
    <2>1. RenameBehind(x)
      BY <1>2 DEF RenameBehind
    <2>2. \A o \in Op : ~Working(o) /\ CopyBehind(o, x) /\ StagedRight(o, x)
      BY <1>1 DEF Working, CopyBehind, StagedRight, OwnPcs, FullPcs, PrunePcs
    <2>3. PICK present \in SUBSET {y \in Doc : Leaf(y)} :
            /\ life = [y \in Doc |-> IF Leaf(y) /\ y \notin present THEN "none" ELSE "active"]
            /\ row = [y \in Doc |-> IF y \in present THEN PublishedRow
                        ELSE IF Leaf(y) THEN NewRow ELSE DirectoryRow]
            /\ chunks = [y \in Doc |-> IF y \in present THEN FirstChunks ELSE {}]
            /\ mappings = [y \in Doc |-> IF y \notin present THEN {}
                             ELSE {[gen |-> 1, sv |-> 1, raw |-> 1, of |-> FirstContent]}]
      BY DEF Init
    <2>4. CASE x \in present
      <3>. DEFINE m == [gen |-> 1, sv |-> 1, raw |-> 1, of |-> FirstContent]
      <3>1. row[x].active = 1 /\ life[x] = "active" /\ chunks[x] = FirstChunks /\ mappings[x] = {m}
        BY <2>3, <2>4 DEF PublishedRow
      <3>2. m.gen = 1 /\ m.of = FirstContent
        OBVIOUS
      <3>. HIDE DEF m
      <3>3. {c \in FirstChunks : c.gen = 1} = FirstChunks
        BY DEF FirstChunks
      <3>4. FirstChunks = {[gen |-> m.gen, batch |-> b, of |-> m.of] : b \in 1 .. Batches}
        BY <3>2 DEF FirstChunks
      <3>5. Whole(x)
        BY <3>1, <3>2, <3>3, <3>4 DEF Whole, ChunksOf
      <3>6. QED
        BY <2>1, <2>2, <3>1, <3>5 DEF Right, Absent
    <2>5. CASE x \notin present
      <3>1. row[x].active = 0 /\ chunks[x] = {}
        BY <2>3, <2>5 DEF NewRow, DirectoryRow
      <3>2. QED
        BY <2>1, <2>2, <3>1 DEF Right, Absent, Whole
    <2>6. QED
      BY <2>4, <2>5
  <1>5. QED
    BY <1>3, <1>4 DEF WholeInv

\* What readers see of a document that was not overlapped or set back is the
\* complete work of one ingest, at every moment of every ingest, crash, replay,
\* recovery, rename and delete: the staged generation is filled batch by batch
\* above the active one, and only a full one is activated.
THEOREM PublishedStaysWhole == Spec => []UndisturbedIsWhole
  <1>1. Init => Typed /\ CleanInv /\ LiveScope /\ WholeInv /\ CleanersInv
    <2>. SUFFICES ASSUME Init PROVE CleanInv
      BY InitTyped, InitScope, InitWhole
    <2>1. committed = {} /\ opState = [o \in Op |-> "queued"] /\ pc = [o \in Op |-> "idle"]
      BY DEF Init
    <2>2. QED
      BY <2>1 DEF CleanInv, DeleteInv, BaseInv, CleanPcs
  <1>2. (Typed /\ CleanInv /\ LiveScope /\ WholeInv /\ CleanersInv) /\ [Next]_vars
            => (Typed /\ CleanInv /\ LiveScope /\ WholeInv /\ CleanersInv)'
    <2>. SUFFICES ASSUME Typed, CleanInv, LiveScope, WholeInv, CleanersInv, [Next]_vars
                  PROVE  (Typed /\ CleanInv /\ LiveScope /\ WholeInv /\ CleanersInv)'
      OBVIOUS
    <2>1. Typed'
      BY StepTypedNext
    <2>2. CleanInv'
      BY DeleteInvStep, BaseInvStep DEF CleanInv
    <2>3. LiveScope'
      BY LiveScopeStep DEF Typed
    <2>4. WholeInv'
      BY WholeStep
    <2>5. CleanersInv'
      BY CleansStep DEF CleanersInv
    <2>6. QED
      BY <2>1, <2>2, <2>3, <2>4, <2>5
  <1>3. Typed /\ WholeInv => UndisturbedIsWhole
    BY DEF WholeInv, Calm, Right, UndisturbedIsWhole, Live
  <1>4. QED
    BY <1>1, <1>2, <1>3, PTL DEF Spec
----------------------------------------------------------------------------
\* A document that is ready has been published.

\* A row that says ready: there is a generation, or the provider had failed.
Settled(x, r) == r.status = "ready" => r.active > 0 \/ x \in degraded

\* Rows of files, the copy a rename is about to write back, and an ingest that
\* puts the previous row back after its provider failed.
ReadyInv ==
    /\ \A x \in Doc : Leaf(x) => Settled(x, row[x])
    /\ Leaf(renaming.doc) => Settled(renaming.doc, renaming.copy)
    /\ \A o \in Op : pc[o] = "restore" => target(o) \in degraded

\* The history only grows.
LEMMA HistoryGrows ==
    ASSUME [Next]_vars
    PROVE  degraded \subseteq degraded' /\ rewound \subseteq rewound'
  <1>1. ASSUME NEW o \in Op, Ingest(o) PROVE degraded \subseteq degraded' /\ rewound \subseteq rewound'
    BY <1>1
    DEF Ingest, BeginIngest, StartIngest, WriteRaw, StageBegin, ClearLeftover, PutBatch,
        ClearStagedData, ClearStagedFlag, EmbedPut, Embed, DegradePut, RestorePrevious, Activate,
        FailDocument, PruneMappings, PruneChunks, PruneRaw, PutRow, RowRest, upsert, ghostVars
  <1>2. ASSUME NEW o \in Op, Delete(o) PROVE UNCHANGED <<degraded, rewound>>
    BY <1>2
    DEF Delete, BeginDelete, FenceTree, CleanChunks, CleanMappings, CleanRaw, FenceBase,
        CleanBaseChunks, CleanBaseRaw, ghostVars
  <1>3. CASE SideStep
    BY <1>3
    DEF SideStep, Retry, Crash, RecoverRead, RecoverWrite, RenameRead, RenamePut, ScanRead,
        ScanQuarantine, ScanDone, upsert, ghostVars
  <1>4. CASE UNCHANGED vars
    BY <1>4 DEF vars, ghostVars
  <1>5. QED
    BY <1>1, <1>2, <1>3, <1>4 DEF Next, SideStep

\* A row that is left alone stays settled.
LEMMA SettledStays ==
    ASSUME [Next]_vars, NEW x, NEW r, Settled(x, r)
    PROVE  r.status = "ready" => r.active > 0 \/ x \in degraded'
  BY HistoryGrows DEF Settled

\* The rows of all files stay settled when one is written whole.
LEMMA UpsertSettled ==
    ASSUME Typed, ReadyInv, [Next]_vars, NEW y \in Doc, NEW r \in Row, upsert(y, r),
           r.status = "ready" => r.active > 0 \/ y \in degraded'
    PROVE  \A x \in Doc : Leaf(x) => Settled(x, row[x])'
  <1>. SUFFICES ASSUME NEW x \in Doc, Leaf(x) PROVE Settled(x, row[x])'
    OBVIOUS
  <1>1. row' = [row EXCEPT ![y] = Stored(r)] /\ row \in [Doc -> Row]
    BY DEF upsert, Typed, TypeOK
  <1>2. Stored(r).status = r.status /\ Stored(r).active = r.active
    BY DEF Stored, Row
  <1>3. CASE x = y
    BY <1>1, <1>2, <1>3 DEF Settled
  <1>4. CASE x # y
    <2>1. row'[x] = row[x] /\ Settled(x, row[x])
      BY <1>1, <1>4 DEF ReadyInv
    <2>2. QED
      BY <2>1, HistoryGrows DEF Settled
  <1>5. QED
    BY <1>3, <1>4

\* Nor does a write of the columns of a generation change what is ready.
LEMMA FlagSettled ==
    ASSUME Typed, ReadyInv, [Next]_vars, NEW y \in Doc, NEW r,
           row' = [row EXCEPT ![y] = r], r.status = row[y].status, r.active = row[y].active
    PROVE  \A x \in Doc : Leaf(x) => Settled(x, row[x])'
  <1>. SUFFICES ASSUME NEW x \in Doc, Leaf(x) PROVE Settled(x, row[x])'
    OBVIOUS
  <1>1. row \in [Doc -> Row] /\ Settled(x, row[x])
    BY DEF Typed, TypeOK, ReadyInv
  <1>2. row'[x].status = row[x].status /\ row'[x].active = row[x].active
    BY <1>1
  <1>3. QED
    BY <1>1, <1>2, HistoryGrows DEF Settled

\* The rows of files after a step that writes none.
LEMMA RowsKept ==
    ASSUME ReadyInv, [Next]_vars, row' = row
    PROVE  \A x \in Doc : Leaf(x) => Settled(x, row[x])'
  BY HistoryGrows DEF Settled, ReadyInv

\* A row with another status keeps the rest.
LEMMA StatusTyped ==
    ASSUME NEW r \in Row, NEW s \in {"pending", "processing", "ready", "failed"}
    PROVE  /\ [r EXCEPT !.status = s] \in Row
           /\ [r EXCEPT !.status = s].status = s /\ [r EXCEPT !.status = s].active = r.active
  BY DEF Row

\* The rows of files after a step of an ingest.
LEMMA IngestSettled ==
    ASSUME Typed, ReadyInv, NEW o \in Op, Ingest(o)
    PROVE  \A x \in Doc : Leaf(x) => Settled(x, row[x])'
  <1>. DEFINE y == target(o)
  <1>1. [Next]_vars
    BY DEF Next
  <1>2. /\ y \in Doc /\ job[o] \in Job /\ job[o].copy \in Row /\ job[o].prev \in Row
        /\ row \in [Doc -> Row] /\ row[y] \in Row /\ row[y].active \in Nat
    <2>1. y \in Doc /\ job[o] \in Job /\ row \in [Doc -> Row]
      BY TargetTyped DEF Typed, TypeOK
    <2>2. QED
      BY <2>1 DEF Job, Row, Gens
  <1>. HIDE DEF y
  <1>3. CASE StartIngest(o) \/ EmbedPut(o)
    <2>. DEFINE r == [job[o].copy EXCEPT !.status = "processing"]
    <2>1. r \in Row /\ r.status = "processing"
      BY <1>2, StatusTyped
    <2>2. row' = row \/ upsert(y, r)
      BY <1>3 DEF StartIngest, EmbedPut, PutRow, y
    <2>. HIDE DEF r
    <2>3. QED
      BY <1>1, <1>2, <2>1, <2>2, RowsKept, UpsertSettled
  <1>4. CASE StageBegin(o)
    <2>1. row' = row \/ (NextGen(y) <= MaxGen /\ row' = [row EXCEPT ![y] = Build(row[y], NextGen(y))])
      BY <1>4 DEF StageBegin, y
    <2>2. NextGen(y) <= MaxGen => NextGen(y) \in Gens
      BY <1>2, BoundsAreNumbers DEF NextGen, Gens
    <2>3. ASSUME NEW g \in Gens
          PROVE  Build(row[y], g).status = row[y].status /\ Build(row[y], g).active = row[y].active
      BY <1>2 DEF Build, Row
    <2>4. QED
      BY <1>1, <1>2, <2>1, <2>2, <2>3, RowsKept, FlagSettled
  <1>5. CASE ClearStagedFlag(o)
    <2>1. row' = row \/ row' = [row EXCEPT ![y] = GiveUp(row[y])]
      BY <1>5 DEF ClearStagedFlag, y
    <2>2. GiveUp(row[y]).status = row[y].status /\ GiveUp(row[y]).active = row[y].active
      BY <1>2 DEF GiveUp, Row
    <2>3. QED
      BY <1>1, <1>2, <2>1, <2>2, RowsKept, FlagSettled
  <1>6. CASE DegradePut(o)
    <2>. DEFINE r == [job[o].copy EXCEPT !.status = "ready"]
    <2>1. r \in Row
      BY <1>2, StatusTyped
    <2>2. (row' = row \/ upsert(y, r)) /\ y \in degraded'
      BY <1>6 DEF DegradePut, PutRow, y
    <2>. HIDE DEF r
    <2>3. QED
      BY <1>1, <1>2, <2>1, <2>2, RowsKept, UpsertSettled
  <1>7. CASE RestorePrevious(o)
    <2>1. Previous(job[o].prev) \in Row
      BY <1>2, StatusTyped DEF Previous
    <2>2. (row' = row \/ upsert(y, Previous(job[o].prev))) /\ y \in degraded'
      BY <1>1, <1>7, HistoryGrows DEF RestorePrevious, ReadyInv, y
    <2>3. QED
      BY <1>1, <1>2, <2>1, <2>2, RowsKept, UpsertSettled
  <1>8. CASE Activate(o)
    <2>1. row' = row \/ (upsert(y, Activated(o)) /\ job[o].gen = NextGen(y))
      BY <1>8 DEF Activate, y
    <2>2. job[o].copy.sv + 1 \in Gens
      <3>1. job[o].copy.sv + 1 <= MaxGen
        BY <1>8 DEF Activate, Typed, StepsTyped, StepTyped
      <3>2. QED
        BY <1>2, <3>1, BoundsAreNumbers DEF Row, Gens
    <2>3. Activated(o) \in Row /\ Activated(o).active = job[o].gen
      BY <1>2, <2>2, ActivatedTyped
    <2>4. job[o].gen = NextGen(y) => job[o].gen > 0
      BY <1>2 DEF NextGen
    <2>5. QED
      BY <1>1, <1>2, <2>1, <2>3, <2>4, RowsKept, UpsertSettled
  <1>9. CASE FailDocument(o)
    <2>1. Failed(job[o].copy) \in Row /\ Failed(job[o].copy).status = "failed"
      BY <1>2, StatusTyped DEF Failed
    <2>2. row' = row \/ upsert(y, Failed(job[o].copy))
      BY <1>9 DEF FailDocument, y
    <2>3. QED
      BY <1>1, <1>2, <2>1, <2>2, RowsKept, UpsertSettled
  <1>10. CASE \/ BeginIngest(o) \/ WriteRaw(o) \/ ClearLeftover(o) \/ PutBatch(o)
              \/ ClearStagedData(o) \/ Embed(o) \/ PruneMappings(o) \/ PruneChunks(o) \/ PruneRaw(o)
    <2>1. row' = row
      BY <1>10 DEF BeginIngest, WriteRaw, ClearLeftover, PutBatch, ClearStagedData, Embed,
                   PruneMappings, PruneChunks, PruneRaw, storeVars
    <2>2. QED
      BY <1>1, <2>1, RowsKept
  <1>11. QED
    BY <1>3, <1>4, <1>5, <1>6, <1>7, <1>8, <1>9, <1>10 DEF Ingest

\* The rows of files after a step beside the workers.
LEMMA SideSettled ==
    ASSUME Typed, ReadyInv, SideStep
    PROVE  \A x \in Doc : Leaf(x) => Settled(x, row[x])'
  <1>1. [Next]_vars /\ row \in [Doc -> Row]
    BY DEF Next, SideStep, Typed, TypeOK
  <1>2. CASE RecoverWrite
    <2>. SUFFICES ASSUME NEW x \in Doc, Leaf(x) PROVE Settled(x, row[x])'
      OBVIOUS
    <2>1. row'[x] = row[x] \/ \E s \in {"pending", "failed"} : row'[x] = [GiveUp(row[x]) EXCEPT !.status = s]
      BY <1>2 DEF RecoverWrite
    <2>2. ASSUME NEW s \in {"pending", "failed"} PROVE [GiveUp(row[x]) EXCEPT !.status = s].status = s
      <3>1. GiveUp(row[x]) \in Row
        BY <1>1, GiveUpTyped
      <3>2. QED
        BY <3>1, StatusTyped
    <2>3. CASE row'[x] = row[x]
      BY <1>1, <2>3, HistoryGrows DEF ReadyInv, Settled
    <2>4. CASE \E s \in {"pending", "failed"} : row'[x] = [GiveUp(row[x]) EXCEPT !.status = s]
      BY <2>2, <2>4 DEF Settled
    <2>5. QED
      BY <2>1, <2>3, <2>4
  <1>3. CASE RenamePut
    <2>1. row' = row \/ upsert(renaming.doc, renaming.copy)
      BY <1>3 DEF RenamePut
    <2>2. renaming.copy \in Row
      BY DEF Typed, TypeOK
    <2>3. CASE upsert(renaming.doc, renaming.copy)
      <3>. SUFFICES ASSUME NEW x \in Doc, Leaf(x) PROVE Settled(x, row[x])'
        OBVIOUS
      <3>1. row' = [row EXCEPT ![renaming.doc] = Stored(renaming.copy)]
        BY <2>3 DEF upsert
      <3>2. /\ Stored(renaming.copy).status = renaming.copy.status
            /\ Stored(renaming.copy).active = renaming.copy.active
        BY <2>2 DEF Stored, Row
      <3>3. CASE x = renaming.doc
        <4>1. Settled(x, renaming.copy) /\ row'[x] = Stored(renaming.copy)
          BY <1>1, <3>1, <3>3 DEF ReadyInv
        <4>2. QED
          BY <1>1, <3>2, <4>1, HistoryGrows DEF Settled
      <3>4. CASE x # renaming.doc
        <4>1. Settled(x, row[x]) /\ row'[x] = row[x]
          BY <1>1, <3>1, <3>4 DEF ReadyInv
        <4>2. QED
          BY <1>1, <4>1, HistoryGrows DEF Settled
      <3>5. QED
        BY <3>3, <3>4
    <2>4. QED
      BY <1>1, <2>1, <2>3, RowsKept
  <1>4. CASE ~RecoverWrite /\ ~RenamePut
    <2>1. row' = row
      BY <1>4
      DEF SideStep, Retry, Crash, RecoverRead, RenameRead, ScanRead, ScanQuarantine, ScanDone, storeVars
    <2>2. QED
      BY <1>1, <2>1, RowsKept
  <1>5. QED
    BY <1>2, <1>3, <1>4

\* Every step keeps the rows of files, the copy of a rename and a restoring
\* ingest settled.
LEMMA ReadyStep ==
    ASSUME Typed, ReadyInv, [Next]_vars
    PROVE  ReadyInv'
  <1>1. \A x \in Doc : Leaf(x) => Settled(x, row[x])'
    <2>1. ASSUME NEW o \in Op, Delete(o) PROVE row' = row
      BY <2>1 DEF Delete, BeginDelete, FenceTree, CleanChunks, CleanMappings, CleanRaw, FenceBase,
                  CleanBaseChunks, CleanBaseRaw, storeVars
    <2>2. UNCHANGED vars => row' = row
      BY DEF vars, storeVars
    <2>3. QED
      BY <2>1, <2>2, IngestSettled, SideSettled, RowsKept DEF Next, SideStep
  <1>2. (Leaf(renaming.doc) => Settled(renaming.doc, renaming.copy))'
    <2>1. CASE \E x \in Doc : RenameRead(x)
      <3>1. PICK x \in Doc : RenameRead(x)
        BY <2>1
      <3>2. renaming'.doc = x /\ renaming'.copy = row[x]
        BY <3>1 DEF RenameRead
      <3>3. QED
        BY <3>2, HistoryGrows DEF ReadyInv, Settled, Leaf, Tree
    <2>2. CASE RenamePut \/ Crash
      <3>1. renaming'.copy.status = "pending"
        BY <2>2 DEF RenamePut, Crash, NoRename, NewRow
      <3>2. QED
        BY <3>1 DEF Settled
    <2>3. CASE renaming' = renaming
      BY <2>3, HistoryGrows DEF ReadyInv, Settled, Leaf, Tree
    <2>4. ASSUME NEW o \in Op, Ingest(o) PROVE renaming' = renaming
      BY <2>4
      DEF Ingest, BeginIngest, StartIngest, WriteRaw, StageBegin, ClearLeftover, PutBatch,
          ClearStagedData, ClearStagedFlag, EmbedPut, Embed, DegradePut, RestorePrevious, Activate,
          FailDocument, PruneMappings, PruneChunks, PruneRaw, RowRest, sideVars
    <2>5. ASSUME NEW o \in Op, Delete(o) PROVE renaming' = renaming
      BY <2>5
      DEF Delete, BeginDelete, FenceTree, CleanChunks, CleanMappings, CleanRaw, FenceBase,
          CleanBaseChunks, CleanBaseRaw, sideVars
    <2>6. CASE \/ \E o \in Op : Retry(o)
               \/ RecoverRead \/ RecoverWrite \/ ScanRead \/ ScanDone
               \/ (\E y \in Doc, v \in Versions : ScanQuarantine(y, v)) \/ UNCHANGED vars
      BY <2>3, <2>6 DEF Retry, RecoverRead, RecoverWrite, ScanRead, ScanQuarantine, ScanDone, vars, sideVars
    <2>7. QED
      BY <2>1, <2>2, <2>3, <2>4, <2>5, <2>6 DEF Next
  <1>3. (\A o \in Op : pc[o] = "restore" => target(o) \in degraded)'
    <2>. SUFFICES ASSUME NEW o \in Op, pc'[o] = "restore" PROVE target(o) \in degraded'
      BY TargetKept DEF target
    <2>1. CASE pc[o] = "restore"
      BY <2>1, HistoryGrows DEF ReadyInv
    <2>2. CASE Ingest(o) /\ pc[o] # "restore"
      <3>1. CASE DegradePut(o)
        BY <3>1 DEF DegradePut
      <3>2. CASE ~DegradePut(o)
        <4>1. \E l : pc' = [pc EXCEPT ![o] = l] /\ l # "restore"
          <5>1. CASE pc' = pc
            <6>1. pc \in [Op -> Pcs] /\ pc[o] # "restore"
              BY <2>2 DEF Typed, TypeOK
            <6>2. pc' = [pc EXCEPT ![o] = pc[o]]
              BY <5>1, <6>1
            <6>3. QED
              BY <6>1, <6>2
          <5>2. CASE BeginIngest(o) \/ StartIngest(o) \/ WriteRaw(o) \/ StageBegin(o) \/ ClearLeftover(o)
            BY <5>2 DEF BeginIngest, StartIngest, WriteRaw, StageBegin, ClearLeftover, Goto, GotoFail, Finish
          <5>3. CASE PutBatch(o) \/ ClearStagedData(o) \/ ClearStagedFlag(o) \/ Embed(o)
            BY <5>1, <5>3 DEF PutBatch, ClearStagedData, ClearStagedFlag, Embed, Goto, GotoFail
          <5>4. CASE EmbedPut(o) \/ RestorePrevious(o) \/ FailDocument(o) \/ Activate(o)
            BY <5>4 DEF EmbedPut, Activate, RestorePrevious, FailDocument, PutRow, Goto, Finish
          <5>5. CASE PruneMappings(o) \/ PruneChunks(o) \/ PruneRaw(o)
            BY <5>5 DEF PruneMappings, PruneChunks, PruneRaw, Goto, Finish
          <5>6. QED
            BY <2>2, <3>2, <5>2, <5>3, <5>4, <5>5 DEF Ingest
        <4>2. QED
          BY <4>1 DEF Typed, TypeOK
      <3>3. QED
        BY <3>1, <3>2
    <2>3. CASE Delete(o)
      <3>1. \E l : pc' = [pc EXCEPT ![o] = l] /\ l # "restore"
        BY <2>3
        DEF Delete, BeginDelete, FenceTree, CleanChunks, CleanMappings, CleanRaw, FenceBase,
            CleanBaseChunks, CleanBaseRaw, Goto, Finish
      <3>2. QED
        BY <3>1 DEF Typed, TypeOK
    <2>4. CASE \E p \in Op : p # o /\ (Ingest(p) \/ Delete(p))
      BY <2>1, <2>4, OtherWorker
    <2>5. CASE SideStep
      BY <2>1, <2>5, SideWorkers
    <2>6. CASE UNCHANGED vars
      BY <2>1, <2>6 DEF vars
    <2>7. QED
      BY <2>1, <2>2, <2>3, <2>4, <2>5, <2>6 DEF Next, SideStep
  <1>4. QED
    BY <1>1, <1>2, <1>3 DEF ReadyInv

\* A document that is published, deleted, set back or without vectors.
Shown(x) ==
    life[x] = "deleting" \/ x \in rewound \cup degraded \/ row[x].active > 0

\* It stays one: only a write that is counted in rewound takes a generation back.
LEMMA ShownStays ==
    ASSUME Typed, [Next]_vars, NEW x \in Doc, Shown(x)
    PROVE  Shown(x)'
  <1>1. degraded \subseteq degraded' /\ rewound \subseteq rewound'
    BY HistoryGrows
  <1>2. CASE life[x] = "deleting"
    BY <1>2, DeletedStep DEF Shown
  <1>3. CASE x \in rewound \cup degraded
    BY <1>1, <1>3 DEF Shown
  <1>4. CASE row[x].active > 0
    <2>1. row \in [Doc -> Row] /\ row[x].active \in Nat
      <3>1. row \in [Doc -> Row] /\ row[x] \in Row
        BY DEF Typed, TypeOK
      <3>2. QED
        BY <3>1 DEF Row, Gens
    <2>2. CASE row'[x].active = row[x].active
      BY <1>4, <2>2 DEF Shown
    <2>3. CASE \E r : upsert(x, r)
      <3>1. PICK r : upsert(x, r)
        BY <2>3
      <3>2. row'[x] = Stored(r) /\ row'[x] \in Row
        <4>1. Typed'
          BY StepTypedNext
        <4>2. QED
          BY <2>1, <3>1, <4>1 DEF upsert, Typed, TypeOK
      <3>3. Stored(r).active = r.active
        <4>1. DOMAIN Stored(r) = DOMAIN r
          BY DEF Stored
        <4>2. "active" \in DOMAIN Stored(r)
          BY <3>2 DEF Row
        <4>3. QED
          BY <4>1, <4>2 DEF Stored
      <3>4. r.active \in Nat
        BY <3>2, <3>3 DEF Row, Gens
      <3>5. CASE r.active < row[x].active
        BY <3>1, <3>5 DEF upsert, Shown
      <3>6. CASE ~(r.active < row[x].active)
        BY <1>4, <2>1, <3>2, <3>3, <3>4, <3>6 DEF Shown
      <3>7. QED
        BY <3>5, <3>6
    <2>4. CASE UNCHANGED vars
      BY <2>2, <2>4 DEF vars, storeVars
    <2>5. QED
      BY <2>2, <2>3, <2>4, ActiveStep
  <1>5. QED
    BY <1>2, <1>3, <1>4 DEF Shown

\* An import of a file that is done, whose marker is committed or which only
\* prunes yet.
Published(o) == o \in committed \/ opState[o] = "succeeded" \/ pc[o] \in PrunePcs
ImportsFile(o) == command[o].kind = "import" /\ Leaf(target(o))
ShownInv == \A o \in Op : ImportsFile(o) /\ Published(o) => Shown(target(o))

\* An import becomes done with a document that is shown.
LEMMA ImportShows ==
    ASSUME Typed, ReadyInv, ShownInv, NEW o \in Op, Ingest(o), ImportsFile(o), Published(o)'
    PROVE  Shown(target(o))'
  <1>. DEFINE x == target(o)
  <1>1. /\ [Next]_vars /\ x \in Doc /\ Leaf(x) /\ row \in [Doc -> Row]
        /\ pc \in [Op -> Pcs] /\ opState \in [Op -> {"queued", "succeeded", "failed"}]
        /\ target(o)' = x
    BY TargetTyped, TargetKept DEF Next, Typed, TypeOK, target, ImportsFile
  <1>2. Published(o) => Shown(x)'
    BY <1>1, ShownStays DEF ShownInv
  <1>. HIDE DEF x
  <1>3. CASE BeginIngest(o)
    <2>1. committed' = committed /\ UNCHANGED <<life, row, degraded, rewound>>
      BY <1>3 DEF BeginIngest, storeVars, ghostVars
    <2>2. Resolved(o) \/ Imported(x) \/ pc'[o] = "start" \/ opState'[o] = "failed"
      BY <1>1, <1>3 DEF BeginIngest, Finish, Goto, x
    <2>3. CASE Imported(x)
      <3>1. Settled(x, row[x]) /\ row[x].status = "ready"
        BY <1>1, <2>3 DEF ReadyInv, Imported
      <3>2. QED
        BY <1>1, <2>1, <3>1 DEF Settled, Shown, x
    <2>4. CASE Resolved(o)
      BY <1>1, <1>2, <2>4 DEF Resolved, Published, x
    <2>5. CASE pc'[o] = "start"
      <3>1. opState' = opState \/ opState' = [opState EXCEPT ![o] = "failed"] \/ Imported(x) \/ Resolved(o)
        BY <1>3 DEF BeginIngest, Finish, x
      <3>2. QED
        BY <1>1, <1>2, <2>1, <2>3, <2>4, <2>5, <3>1 DEF Published, PrunePcs, x
    <2>6. CASE opState'[o] = "failed"
      <3>1. pc'[o] \notin PrunePcs
        BY <1>1, <1>3 DEF BeginIngest, Finish, Goto, PrunePcs
      <3>2. QED
        BY <1>1, <1>2, <2>1, <2>6, <3>1 DEF Published, x
    <2>7. QED
      BY <1>1, <2>2, <2>3, <2>4, <2>5, <2>6 DEF x
  <1>4. CASE RestorePrevious(o)
    <2>1. x \in degraded'
      BY <1>1, <1>4, HistoryGrows DEF RestorePrevious, ReadyInv, x
    <2>2. QED
      BY <1>1, <2>1 DEF Shown, x
  <1>5. CASE Activate(o)
    <2>1. \/ row'[x].active > 0
          \/ committed' = committed
      <3>1. committed' = committed \/ (upsert(x, Activated(o)) /\ job[o].gen = NextGen(x))
        BY <1>5 DEF Activate, x
      <3>2. job[o].copy.sv + 1 \in Gens /\ job[o] \in Job
        <4>1. job[o].copy.sv + 1 <= MaxGen /\ job[o] \in Job
          BY <1>5 DEF Activate, Typed, TypeOK, StepsTyped, StepTyped
        <4>2. QED
          BY <4>1, BoundsAreNumbers DEF Job, Row, Gens
      <3>3. Activated(o) \in Row /\ Activated(o).active = job[o].gen
        BY <3>2, ActivatedTyped
      <3>4. row[x].active \in Nat
        <4>1. row[x] \in Row
          BY <1>1
        <4>2. QED
          BY <4>1 DEF Row, Gens
      <3>5. CASE upsert(x, Activated(o)) /\ job[o].gen = NextGen(x)
        <4>1. row'[x] = Stored(Activated(o)) /\ Stored(Activated(o)).active = Activated(o).active
          BY <1>1, <3>3, <3>5 DEF upsert, Stored, Row
        <4>2. QED
          BY <3>3, <3>4, <3>5, <4>1 DEF NextGen
      <3>6. QED
        BY <3>1, <3>5
    <2>2. opState' = opState /\ (pc'[o] \in PrunePcs => row'[x].active > 0 \/ Shown(x)')
      <3>1. /\ opState' = opState
            /\ pc'[o] = "prune" => committed' = committed \cup {o}
            /\ pc'[o] \in {"fail", "prune"}
        BY <1>1, <1>5 DEF Activate, Goto, Marked, Answers, Commits, Unanswered
      <3>2. committed' = committed \cup {o} /\ committed' = committed => Published(o)
        BY DEF Published
      <3>3. QED
        BY <1>2, <2>1, <3>1, <3>2 DEF PrunePcs
    <2>3. QED
      BY <1>1, <1>2, <2>1, <2>2 DEF Published, Shown, x
  <1>6. CASE PruneMappings(o) \/ PruneChunks(o) \/ PruneRaw(o)
    <2>1. pc[o] \in PrunePcs
      BY <1>6 DEF PruneMappings, PruneChunks, PruneRaw, PrunePcs
    <2>2. QED
      BY <1>1, <1>2, <2>1 DEF Published, x
  <1>7. CASE \/ StartIngest(o) \/ WriteRaw(o) \/ StageBegin(o) \/ ClearLeftover(o) \/ PutBatch(o)
             \/ ClearStagedData(o) \/ ClearStagedFlag(o) \/ EmbedPut(o) \/ Embed(o) \/ DegradePut(o)
             \/ FailDocument(o)
    <2>1. committed' = committed
      BY <1>7 DEF StartIngest, WriteRaw, StageBegin, ClearLeftover, PutBatch, ClearStagedData,
                  ClearStagedFlag, EmbedPut, Embed, DegradePut, FailDocument, RowRest, storeVars
    <2>2. opState' = opState \/ \E s \in {"queued", "failed"} : opState' = [opState EXCEPT ![o] = s]
      BY <1>7 DEF StartIngest, WriteRaw, StageBegin, ClearLeftover, PutBatch, ClearStagedData,
                  ClearStagedFlag, EmbedPut, Embed, DegradePut, FailDocument, PutRow, Finish
    <2>3. pc'[o] \notin PrunePcs
      <3>1. CASE StartIngest(o) \/ WriteRaw(o) \/ StageBegin(o) \/ ClearLeftover(o)
        BY <1>1, <3>1 DEF StartIngest, WriteRaw, StageBegin, ClearLeftover, Goto, GotoFail, Finish, PrunePcs
      <3>2. CASE PutBatch(o) \/ ClearStagedData(o) \/ ClearStagedFlag(o) \/ Embed(o)
        BY <1>1, <3>2 DEF PutBatch, ClearStagedData, ClearStagedFlag, Embed, Goto, GotoFail, PrunePcs
      <3>3. CASE EmbedPut(o) \/ DegradePut(o) \/ FailDocument(o)
        BY <1>1, <3>3 DEF EmbedPut, DegradePut, FailDocument, PutRow, Goto, Finish, PrunePcs
      <3>4. QED
        BY <1>7, <3>1, <3>2, <3>3
    <2>4. QED
      BY <1>1, <1>2, <2>1, <2>2, <2>3 DEF Published, x
  <1>8. QED
    BY <1>3, <1>4, <1>5, <1>6, <1>7 DEF Ingest

\* Every step keeps the documents of done imports shown.
LEMMA ShownStep ==
    ASSUME Typed, ReadyInv, ShownInv, [Next]_vars
    PROVE  ShownInv'
  <1>. SUFFICES ASSUME NEW o \in Op, ImportsFile(o)', Published(o)'
                PROVE  Shown(target(o))'
    BY DEF ShownInv
  <1>1. target(o) \in Doc /\ target(o)' = target(o) /\ ImportsFile(o)
    BY TargetTyped, TargetKept DEF Typed, target, ImportsFile
  <1>2. Published(o) => Shown(target(o))'
    <2>1. ASSUME NEW x \in Doc, Shown(x) PROVE Shown(x)'
      BY <2>1, ShownStays
    <2>2. QED
      BY <1>1, <2>1 DEF ShownInv, Shown
  <1>3. CASE Ingest(o)
    BY <1>1, <1>3, ImportShows
  <1>4. CASE Delete(o)
    <2>1. command[o].kind # "import"
      BY <1>4
      DEF Delete, BeginDelete, FenceTree, CleanChunks, CleanMappings, CleanRaw, FenceBase,
          CleanBaseChunks, CleanBaseRaw, Typed, StepsTyped, StepTyped
    <2>2. QED
      BY <1>1, <2>1 DEF ImportsFile
  <1>5. CASE \E p \in Op : p # o /\ (Ingest(p) \/ Delete(p))
    <2>1. Published(o)
      BY <1>5, OtherWorker DEF Published
    <2>2. QED
      BY <1>2, <2>1
  <1>6. CASE SideStep
    <2>1. Published(o)
      BY <1>6, SideWorkers DEF Published, PrunePcs
    <2>2. QED
      BY <1>2, <2>1
  <1>7. CASE UNCHANGED vars
    <2>1. Published(o)
      BY <1>7 DEF Published, vars, storeVars
    <2>2. QED
      BY <1>2, <2>1
  <1>8. QED
    BY <1>3, <1>4, <1>5, <1>6, <1>7 DEF Next, SideStep

\* An import of a file that answers success has published it, whoever deleted
\* the directory, renamed the document or restarted the process meanwhile: the
\* answer follows the marker of its activation, or a document that it found
\* ready, and a row becomes ready only with a generation, or without one when
\* its provider failed.
THEOREM ImportsArePublished == Spec => []ImportIsPublished
  <1>1. Init => Typed /\ ReadyInv /\ ShownInv
    <2>. SUFFICES ASSUME Init PROVE ReadyInv /\ ShownInv
      BY InitTyped
    <2>1. committed = {} /\ opState = [o \in Op |-> "queued"] /\ pc = [o \in Op |-> "idle"]
      BY DEF Init
    <2>2. ShownInv
      BY <2>1 DEF ShownInv, Published, PrunePcs
    <2>3. renaming.copy.status = "pending"
      BY DEF Init, NoRename, NewRow
    <2>4. ASSUME NEW x \in Doc, Leaf(x) PROVE row[x].status = "ready" => row[x].active > 0
      <3>1. row[x] = PublishedRow \/ row[x] = NewRow
        BY <2>4 DEF Init
      <3>2. QED
        BY <3>1 DEF PublishedRow, NewRow
    <2>5. QED
      BY <2>1, <2>2, <2>3, <2>4 DEF ReadyInv, Settled
  <1>2. (Typed /\ ReadyInv /\ ShownInv) /\ [Next]_vars => (Typed /\ ReadyInv /\ ShownInv)'
    BY StepTypedNext, ReadyStep, ShownStep
  <1>3. ShownInv => ImportIsPublished
    BY DEF ShownInv, ImportsFile, Published, Shown, ImportIsPublished
  <1>4. QED
    BY <1>1, <1>2, <1>3, PTL DEF Spec

-----------------------------------------------------------------------------
(***************************************************************************)
(* The files behind what is published: the strengthening of SourceKept, the *)
(* proof that every step keeps it, and the theorem.                         *)
(***************************************************************************)
USE DEF BeforePcs
HIDE DEF GenPcs

----------------------------------------------------------------------------
\* What the files of a document depend on: its active generation, the mappings,
\* the files, and what a reconciliation read of it if no ingest or rename was
\* under way then.
View(x) == [gen |-> row[x].active, maps |-> mappings[x], files |-> raw[x],
            absent |-> life[x] = "none", unseen |-> x \notin scan.busy, refs |-> scan.refs[x]]

\* Row r can be written back: its path is known to the reconciliation, and if its
\* generation is the active one its path is a file and the next one is free.
FiledIn(d, r) ==
    /\ d.unseen => r.raw \in d.refs \cup {0}
    /\ r.active = d.gen => /\ \A m \in d.maps : m.raw <= r.raw /\ m.raw <= r.sv
                           /\ r.raw # 0 => d.files[r.raw] # NoFile

\* Later generations have later paths, and the active one has its own bytes.
MappedIn(d) ==
    /\ \A m \in d.maps : /\ m.gen <= d.gen
                         /\ m.gen = d.gen => d.files[m.raw] = m.of
                         /\ d.unseen => m.raw \in d.refs
    /\ \A m, n \in d.maps : m.gen < n.gen => m.raw < n.raw

\* An ingest at step l with job j: the rows it may write, the file it has
\* staged, and the paths it is about to remove.
HoldsIn(d, l, j) ==
    /\ l \in BeforePcs \cup {"fail"} => FiledIn(d, j.copy)
    /\ l \in BeforePcs => FiledIn(d, j.prev)
    /\ l \in {"raw"} \cup StagedPcs => j.copy.active = d.gen
    /\ l \in StagedPcs => j.copy.raw = j.copy.sv + 1 /\ d.files[j.copy.raw] = j.copy.of
    /\ l \in {"pruneChunks", "pruneRaw"} =>
           \A m \in d.maps : m.gen = d.gen => \A v \in j.paths : v < m.raw
    /\ l \in IngestPcs /\ d.unseen => l = "start"
    /\ l \in IngestPcs /\ d.absent => l = "start" /\ j.copy.raw = 0 /\ j.prev.raw = 0

RenameHolds(x) ==
    renaming.doc = x => FiledIn(View(x), renaming.copy) /\ life[x] # "none"

Kept(x) ==
    /\ FiledIn(View(x), row[x]) /\ MappedIn(View(x)) /\ RenameHolds(x)
    /\ life[x] = "none" => row[x].raw = 0 /\ mappings[x] = {}
    /\ \A o \in Op : target(o) = x => HoldsIn(View(x), pc[o], job[o])

\* What a reconciliation read.
ScanTyped == scan \in [refs : [Doc -> SUBSET Versions], busy : SUBSET Doc]

KeptInv == \A x \in Doc : Calm(x) /\ x \notin swept => Kept(x)

----------------------------------------------------------------------------
\* Changes that leave the files of a document in order.

\* Mappings may go, a reconciliation may end, and the files R, which nothing
\* that matters names.
Eases(d, e, R) ==
    /\ e.gen = d.gen /\ e.maps \subseteq d.maps
    /\ e.unseen => d.unseen /\ e.refs = d.refs
    /\ e.absent => d.absent
    /\ \A v \in Versions \ R : e.files[v] = d.files[v]
    /\ \A r : FiledIn(d, r) /\ r.active = d.gen /\ r.raw # 0 => r.raw \notin R
    /\ \A m \in d.maps : m.gen = d.gen => m.raw \notin R

LEMMA FiledEases ==
    ASSUME NEW d, NEW e, NEW R, Eases(d, e, R), NEW r \in Row, FiledIn(d, r)
    PROVE  FiledIn(e, r)
  <1>1. r.raw # 0 => r.raw \in Versions
    BY BoundsAreNumbers DEF Row, Gens, Versions
  <1>2. QED
    BY <1>1 DEF Eases, FiledIn

LEMMA MappedEases ==
    ASSUME NEW d, NEW e, NEW R, Eases(d, e, R), MappedIn(d), \A m \in d.maps : m.raw \in Versions
    PROVE  MappedIn(e)
  BY DEF Eases, MappedIn

LEMMA HoldsEases ==
    ASSUME NEW d, NEW e, NEW R, Eases(d, e, R), NEW l, NEW j \in Job, HoldsIn(d, l, j)
    PROVE  HoldsIn(e, l, j)
  <1>1. j.copy \in Row /\ j.prev \in Row /\ j.copy.sv \in Nat /\ j.copy.raw \in Gens
    BY DEF Job, Row, Gens
  <1>2. l \in BeforePcs \cup {"fail"} => FiledIn(e, j.copy)
    BY <1>1, FiledEases DEF HoldsIn
  <1>3. l \in BeforePcs => FiledIn(e, j.prev)
    BY <1>1, FiledEases DEF HoldsIn
  <1>4. l \in StagedPcs => e.files[j.copy.raw] = j.copy.of
    <2>. SUFFICES ASSUME l \in StagedPcs PROVE e.files[j.copy.raw] = j.copy.of
      OBVIOUS
    <2>1. FiledIn(d, j.copy) /\ j.copy.active = d.gen /\ j.copy.raw = j.copy.sv + 1
      BY DEF HoldsIn, BeforePcs
    <2>2. j.copy.raw \notin R
      BY <1>1, <2>1 DEF Eases
    <2>3. j.copy.raw \in Versions
      BY <1>1, <2>1, BoundsAreNumbers DEF Gens, Versions
    <2>4. QED
      BY <2>2, <2>3 DEF HoldsIn, Eases
  <1>5. l \in {"pruneChunks", "pruneRaw"} =>
           \A m \in e.maps : m.gen = e.gen => \A v \in j.paths : v < m.raw
    BY DEF HoldsIn, Eases
  <1>6. /\ l \in IngestPcs /\ e.unseen => l = "start"
        /\ l \in IngestPcs /\ e.absent => l = "start" /\ j.copy.raw = 0 /\ j.prev.raw = 0
        /\ l \in {"raw"} \cup StagedPcs => j.copy.active = e.gen
        /\ l \in StagedPcs => j.copy.raw = j.copy.sv + 1
    BY DEF HoldsIn, Eases
  <1>7. QED
    BY <1>2, <1>3, <1>4, <1>5, <1>6 DEF HoldsIn

----------------------------------------------------------------------------
\* Steps that leave the files of a document in order.

\* The same files, perhaps with fewer mappings, and a reconciliation that has
\* not begun.
LEMMA FilesStay ==
    ASSUME NEW x \in Doc, row'[x].active = row[x].active, mappings'[x] \subseteq mappings[x],
           raw'[x] = raw[x], life'[x] = "none" => life[x] = "none",
           scan' = scan \/ x \in scan'.busy
    PROVE  Eases(View(x), View(x)', {})
  BY DEF View, Eases

\* A rename goes on with its copy.
LEMMA RenameEases ==
    ASSUME TypeOK, NEW x, NEW R, Eases(View(x), View(x)', R), RenameHolds(x), renaming' = renaming
    PROVE  RenameHolds(x)'
  <1>1. life'[x] = "none" => life[x] = "none"
    BY DEF Eases, View
  <1>2. renaming.doc = x => FiledIn(View(x)', renaming.copy)
    BY FiledEases DEF RenameHolds, TypeOK
  <1>3. QED
    BY <1>1, <1>2 DEF RenameHolds

LEMMA KeptEases ==
    ASSUME Typed, [Next]_vars, NEW x \in Doc, NEW R, Kept(x), Eases(View(x), View(x)', R),
           FiledIn(View(x), row[x])', RenameHolds(x)',
           life'[x] = "none" => row'[x].raw = 0,
           \A o \in Op : target(o) = x => \/ pc'[o] = pc[o] /\ job'[o] = job[o]
                                          \/ HoldsIn(View(x), pc[o], job[o])'
    PROVE  Kept(x)'
  <1>1. MappedIn(View(x))'
    <2>1. \A m \in View(x).maps : m.raw \in Versions
      BY DEF View, Typed, TypeOK
    <2>2. QED
      BY <2>1, MappedEases DEF Kept
  <1>2. life'[x] = "none" => mappings'[x] = {}
    BY DEF Kept, Eases, View
  <1>3. ASSUME NEW o \in Op, target(o) = x PROVE HoldsIn(View(x), pc[o], job[o])'
    <2>1. HoldsIn(View(x), pc[o], job[o]) /\ job[o] \in Job
      BY <1>3 DEF Kept, Typed, TypeOK
    <2>2. HoldsIn(View(x)', pc[o], job[o])
      BY <2>1, HoldsEases
    <2>3. QED
      BY <1>3, <2>2
  <1>4. \A o \in Op : target(o)' = target(o)
    BY TargetKept DEF target
  <1>5. QED
    BY <1>1, <1>2, <1>3, <1>4 DEF Kept

\* A row that differs in nothing that the files depend on.
SameFile(r, s) == r.active = s.active /\ r.raw = s.raw /\ r.sv = s.sv /\ r.of = s.of

LEMMA FiledSame ==
    ASSUME NEW d, NEW r, NEW s, FiledIn(d, r), SameFile(s, r)
    PROVE  FiledIn(d, s)
  BY DEF FiledIn, SameFile

\* A whole-row write of a row that is filed.
LEMMA UpsertFiled ==
    ASSUME Typed, NEW x \in Doc, NEW r \in Row, upsert(x, r), FiledIn(View(x), r),
           r.active <= row[x].active, x \notin rewound'
    PROVE  /\ row'[x].active = row[x].active /\ r.active = row[x].active
           /\ life'[x] = "active" /\ FiledIn(View(x), row'[x])
  <1>1. row[x] \in Row /\ row[x].active \in Nat /\ r.active \in Nat /\ r.sv \in Nat
    <2>1. row[x] \in Row
      BY DEF Typed, TypeOK
    <2>2. QED
      BY <2>1 DEF Row, Gens
  <1>2. row'[x].active = row[x].active /\ life'[x] = "active"
    BY UpsertCalm
  <1>3. r.active = row[x].active
    BY <1>1 DEF upsert
  <1>4. row'[x] = Stored(r)
    BY DEF upsert, Typed, TypeOK
  <1>5. /\ Stored(r).active = r.active /\ Stored(r).raw = r.raw /\ Stored(r).sv >= r.sv
        /\ Stored(r).sv \in Nat
    BY <1>1 DEF Stored, Row
  <1>6. \A m \in mappings[x] : m.raw \in Nat
    BY DEF Typed, TypeOK, Versions
  <1>7. FiledIn(View(x), Stored(r))
    <2>1. View(x).maps = mappings[x]
      BY DEF View
    <2>2. QED
      BY <1>1, <1>5, <1>6, <2>1 DEF FiledIn
  <1>8. QED
    BY <1>2, <1>3, <1>4, <1>7

\* The worker of the document goes on.
LEMMA OwnKept ==
    ASSUME NEW o, NEW x, Here(o, x), Kept(x), Ingest(o), NEW R, Eases(View(x), View(x)', R),
           FiledIn(View(x), row[x])', life'[x] = "none" => row'[x].raw = 0,
           renaming' = renaming, HoldsIn(View(x), pc[o], job[o])'
    PROVE  Kept(x)'
  <1>1. o \in Op /\ x \in Doc /\ Typed /\ target(o) = x
    BY HereFacts
  <1>2. [Next]_vars
    BY <1>1 DEF Next
  <1>3. RenameHolds(x)'
    BY <1>1, RenameEases DEF Kept, Typed
  <1>4. \A p \in Op : target(p) = x => \/ pc'[p] = pc[p] /\ job'[p] = job[p]
                                       \/ HoldsIn(View(x), pc[p], job[p])'
    BY <1>1, OtherWorker
  <1>5. QED
    BY <1>1, <1>2, <1>3, <1>4, KeptEases

\* It leaves the row, or writes one that it may write.
Writes(x) ==
    \/ SameFile(row'[x], row[x]) /\ life'[x] = life[x]
    \/ \E r \in Row : upsert(x, r) /\ FiledIn(View(x), r) /\ r.active <= row[x].active

LEMMA WritesFiled ==
    ASSUME Typed, NEW x \in Doc, Kept(x), Writes(x), x \notin rewound'
    PROVE  /\ row'[x].active = row[x].active /\ FiledIn(View(x), row'[x])
           /\ life'[x] = "none" => life[x] = "none" /\ row'[x].raw = 0
  <1>1. CASE SameFile(row'[x], row[x]) /\ life'[x] = life[x]
    BY <1>1, FiledSame DEF Kept, SameFile
  <1>2. CASE \E r \in Row : upsert(x, r) /\ FiledIn(View(x), r) /\ r.active <= row[x].active
    BY <1>2, UpsertFiled
  <1>3. QED
    BY <1>1, <1>2 DEF Writes

LEMMA OwnStays ==
    ASSUME NEW o, NEW x, Here(o, x), Kept(x), Ingest(o), Writes(x), mappings'[x] \subseteq mappings[x],
           raw'[x] = raw[x], renaming' = renaming, scan' = scan \/ x \in scan'.busy,
           HoldsIn(View(x), pc'[o], job'[o])
    PROVE  Kept(x)'
  <1>1. o \in Op /\ x \in Doc /\ Typed /\ target(o) = x /\ x \notin rewound'
    BY HereFacts
  <1>2. /\ row'[x].active = row[x].active /\ FiledIn(View(x), row'[x])
        /\ life'[x] = "none" => life[x] = "none" /\ row'[x].raw = 0
    BY <1>1, WritesFiled
  <1>3. Eases(View(x), View(x)', {})
    BY <1>1, <1>2, FilesStay
  <1>4. job'[o] \in Job /\ row'[x] \in Row
    BY <1>1, StepTypedNext DEF Next, Typed, TypeOK
  <1>5. FiledIn(View(x), row[x])'
    BY <1>2, <1>3, <1>4, FiledEases
  <1>6. HoldsIn(View(x), pc[o], job[o])'
    BY <1>3, <1>4, HoldsEases
  <1>7. QED
    BY <1>2, <1>3, <1>5, <1>6, OwnKept

\* From a step that has a file to another, or to the write that records a failure.
LEMMA HoldsOn ==
    ASSUME NEW d, NEW l \in StagedPcs, NEW j, HoldsIn(d, l, j), NEW k \in StagedPcs \cup {"fail"},
           NEW i, SameFile(i.copy, j.copy), FiledIn(d, i.prev)
    PROVE  HoldsIn(d, k, i)
  <1>1. FiledIn(d, j.copy) /\ ~d.unseen /\ ~d.absent
    BY DEF HoldsIn, BeforePcs
  <1>2. FiledIn(d, i.copy)
    BY <1>1, FiledSame
  <1>3. QED
    BY <1>1, <1>2 DEF HoldsIn, SameFile

\* Nothing is held by a worker that is done, or that is about to prune.
LEMMA HoldsNothing ==
    ASSUME NEW d, NEW l, NEW j, l \notin IngestPcs
    PROVE  HoldsIn(d, l, j)
  BY DEF HoldsIn, BeforePcs

----------------------------------------------------------------------------
\* The steps of an ingest.

LEMMA BeginIngestKept ==
    ASSUME NEW o, NEW x, Here(o, x), Kept(x), BeginIngest(o)
    PROVE  Kept(x)'
  <1>1. /\ Ingest(o) /\ renaming' = renaming /\ scan' = scan /\ raw' = raw
        /\ mappings' = mappings /\ row' = row /\ life' = life
    BY DEF Ingest, BeginIngest, storeVars, sideVars
  <1>2. Writes(x)
    BY <1>1 DEF Writes, SameFile
  <1>3. HoldsIn(View(x), pc'[o], job'[o])
    <2>1. CASE pc'[o] = "idle"
      BY <2>1, HoldsNothing
    <2>2. ASSUME NEW r, NEW c, NEW v, pc'[o] = "start", job'[o] = IngestJob(r, c, v),
                 r = row[x] \/ (r = NewRow /\ life[x] # "active")
          PROVE  HoldsIn(View(x), pc'[o], job'[o])
      <3>1. /\ View(x).maps = mappings[x] /\ View(x).absent = (life[x] = "none")
            /\ NewRow.raw = 0
        BY DEF View, NewRow
      <3>2. life[x] # "active" => life[x] = "none"
        BY HereFacts DEF Here, Calm, TypeOK
      <3>3. FiledIn(View(x), r)
        BY <2>2, <3>1, <3>2 DEF Kept, FiledIn
      <3>4. life[x] = "none" => r.raw = 0
        BY <2>2, <3>1 DEF Kept
      <3>5. IngestJob(r, c, v).copy = r /\ IngestJob(r, c, v).prev = r
        BY DEF IngestJob
      <3>6. QED
        BY <2>2, <3>1, <3>3, <3>4, <3>5 DEF HoldsIn
    <2>3. \/ pc'[o] = "idle"
          \/ /\ pc'[o] = "start"
             /\ \E r, c, v : /\ job'[o] = IngestJob(r, c, v)
                             /\ r = row[x] \/ (r = NewRow /\ life[x] # "active")
      <3>. DEFINE copy == IF life[x] = "active" THEN row[x] ELSE NewRow
                  bytes == IF command[o].kind = "import" THEN SourceOf[o]
                           ELSE IF row[x].raw = 0 THEN NoFile ELSE raw[x][row[x].raw]
      <3>1. \/ Finish(o, "succeeded") \/ Finish(o, "failed")
            \/ Goto(o, "start") /\ SetJob(o, IngestJob(copy, bytes, copy.active \in vectors[x]))
        BY HereFacts DEF BeginIngest
      <3>2. QED
        BY <3>1, HereFacts DEF Finish, Goto, SetJob
    <2>4. QED
      BY <2>1, <2>2, <2>3
  <1>4. QED
    BY <1>1, <1>2, <1>3, OwnStays

LEMMA StartIngestKept ==
    ASSUME NEW o, NEW x, Here(o, x), Kept(x), ScanTyped, StartIngest(o)
    PROVE  Kept(x)'
  <1>. DEFINE copy == [job[o].copy EXCEPT !.status = "processing"]
              j == [job[o] EXCEPT !.copy = copy]
  <1>1. /\ Ingest(o) /\ renaming' = renaming /\ raw' = raw /\ mappings' = mappings /\ pc[o] = "start"
    BY DEF Ingest, StartIngest
  <1>2. x \in scan'.busy
    BY HereFacts DEF StartIngest, ScanTyped, NoScan
  <1>3. copy \in Row /\ SameFile(copy, job[o].copy)
    BY HereFacts DEF Row, SameFile
  <1>4. /\ FiledIn(View(x), job[o].copy) /\ FiledIn(View(x), job[o].prev)
        /\ copy.active <= row[x].active
    BY <1>1, <1>3, HereFacts DEF Kept, HoldsIn, CopyBehind, SameFile
  <1>5. FiledIn(View(x), copy)
    BY <1>3, <1>4, FiledSame
  <1>6. j.copy = copy /\ j.prev = job[o].prev
    BY HereFacts DEF Job
  <1>. HIDE DEF copy, j
  <1>7. CASE pc'[o] = "idle"
    <2>1. Writes(x)
      <3>1. (row' = row /\ life' = life) \/ upsert(x, copy)
        BY HereFacts DEF StartIngest, copy
      <3>2. QED
        BY <1>3, <1>4, <1>5, <3>1 DEF Writes, SameFile
    <2>2. HoldsIn(View(x), pc'[o], job'[o])
      BY <1>7, HoldsNothing
    <2>3. QED
      BY <1>1, <1>2, <2>1, <2>2, OwnStays
  <1>8. CASE upsert(x, copy) /\ pc'[o] = "raw" /\ job'[o] = j
    <2>1. Writes(x)
      BY <1>3, <1>4, <1>5, <1>8 DEF Writes
    <2>2. /\ row'[x].active = row[x].active /\ copy.active = row[x].active
          /\ life'[x] = "active" /\ FiledIn(View(x), row'[x])
      BY <1>3, <1>4, <1>5, <1>8, HereFacts, UpsertFiled
    <2>3. Eases(View(x), View(x)', {})
      BY <1>1, <1>2, <2>2, HereFacts, FilesStay
    <2>4. /\ FiledIn(View(x)', copy) /\ FiledIn(View(x)', job[o].prev) /\ FiledIn(View(x), row[x])'
      <3>1. row'[x] \in Row
        BY <1>1, HereFacts, StepTypedNext DEF Next, Typed, TypeOK
      <3>2. QED
        BY <1>3, <1>4, <1>5, <2>2, <2>3, <3>1, HereFacts, FiledEases
    <2>5. View(x)'.gen = copy.active /\ ~View(x)'.unseen /\ ~View(x)'.absent
      BY <1>2, <2>2 DEF View
    <2>6. HoldsIn(View(x), pc[o], job[o])'
      BY <1>6, <1>8, <2>4, <2>5 DEF HoldsIn
    <2>7. QED
      BY <1>1, <2>2, <2>3, <2>4, <2>6, OwnKept
  <1>9. QED
    <2>1. \A a \in Answers : ~Unanswered(a) => Commits(a)
      BY DEF Commits, Unanswered
    <2>2. pc'[o] = "idle" \/ (Goto(o, "raw") /\ SetJob(o, j) /\ upsert(x, copy))
      BY <2>1, HereFacts DEF StartIngest, Finish, Goto, copy, j
    <2>3. QED
      BY <1>7, <1>8, <2>2, HereFacts DEF Goto, SetJob

\* The file is written beside everything that is published: its path is above
\* those of all mappings.
LEMMA WriteRawKept ==
    ASSUME NEW o, NEW x, Here(o, x), Kept(x), WriteRaw(o)
    PROVE  Kept(x)'
  <1>. DEFINE v == NextVersion(job[o].copy)
              c == Sourced(job[o].copy, v, job[o].of)
              j == [job[o] EXCEPT !.copy = c]
              d == View(x)
              e == View(x)'
  <1>1. /\ Ingest(o) /\ renaming' = renaming /\ scan' = scan /\ mappings' = mappings
        /\ row' = row /\ life' = life /\ pc[o] = "raw" /\ Working(o) /\ v <= MaxGen
    BY DEF Ingest, WriteRaw, storeVars, sideVars, Working
  <1>2. /\ v = job[o].copy.sv + 1 /\ v \in Versions /\ job[o].of \in Content /\ NoFile \notin Content
        /\ job[o].copy.sv \in Nat
    BY <1>1, HereFacts, GenerationsAssumption, BoundsAreNumbers
    DEF NextVersion, Versions, Row, Gens, StepTyped
  <1>3. c.active = job[o].copy.active /\ c.raw = v /\ c.sv = job[o].copy.sv /\ c.of = job[o].of
    <2>. DEFINE b == [job[o].copy EXCEPT !.raw = v]
    <2>1. /\ b.active = job[o].copy.active /\ b.raw = v /\ b.sv = job[o].copy.sv
          /\ DOMAIN b = {"active", "desired", "building", "sv", "raw", "of", "status"}
      BY HereFacts DEF Row
    <2>2. c = [b EXCEPT !.of = job[o].of]
      BY DEF Sourced
    <2>. HIDE DEF b
    <2>3. QED
      BY <2>1, <2>2
  <1>. HIDE DEF c
  <1>4. j.copy = c /\ j.prev = job[o].prev
    BY HereFacts DEF Job
  <1>5. pc'[o] \in {"stage", "fail"} /\ job'[o] = j
    BY HereFacts DEF WriteRaw, Goto, SetJob, c
  <1>. HIDE DEF j
  <1>6. raw'[x] = [raw[x] EXCEPT ![v] = job[o].of] /\ raw[x] \in [Versions -> Content \cup {NoFile}]
    BY HereFacts DEF WriteRaw, TypeOK
  <1>. HIDE DEF v
  <1>7. /\ d.gen = row[x].active /\ d.maps = mappings[x] /\ d.files = raw[x]
        /\ d.absent = (life[x] = "none") /\ d.unseen = (x \notin scan.busy) /\ d.refs = scan.refs[x]
        /\ e.gen = d.gen /\ e.maps = d.maps /\ e.absent = d.absent /\ e.unseen = d.unseen
        /\ e.refs = d.refs /\ e.files = [d.files EXCEPT ![v] = job[o].of]
        /\ d.files \in [Versions -> Content \cup {NoFile}]
    BY <1>1, <1>6 DEF View
  <1>8. HoldsIn(d, "raw", job[o])
    BY <1>1, HereFacts DEF Kept
  <1>9. \A m \in d.maps : m.raw \in Versions
    BY <1>7, HereFacts DEF TypeOK
  <1>. HIDE DEF d, e
  <1>10. \A m \in d.maps : m.raw <= job[o].copy.sv /\ m.raw # v /\ m.raw <= v
    <2>1. \A m \in d.maps : m.raw <= job[o].copy.sv
      BY <1>8 DEF HoldsIn, FiledIn
    <2>2. QED
      BY <1>2, <1>9, <2>1 DEF Versions
  <1>11. ASSUME NEW r \in Row, FiledIn(d, r) PROVE FiledIn(e, r)
    <2>1. r.raw # 0 => r.raw \in Versions
      BY BoundsAreNumbers DEF Row, Gens, Versions
    <2>2. QED
      BY <1>2, <1>7, <1>11, <2>1 DEF FiledIn
  <1>12. MappedIn(e)
    BY <1>7, <1>9, <1>10, HereFacts DEF Kept, MappedIn, d
  <1>13. FiledIn(e, c) /\ e.files[c.raw] = c.of
    <2>1. e.files[v] = job[o].of
      BY <1>2, <1>7
    <2>2. ~d.unseen
      BY <1>8 DEF HoldsIn
    <2>3. QED
      BY <1>2, <1>3, <1>7, <1>10, <2>1, <2>2 DEF FiledIn
  <1>14. HoldsIn(e, pc'[o], job'[o])
    <2>1. FiledIn(e, job[o].prev)
      BY <1>8, <1>11, HereFacts DEF HoldsIn
    <2>2. c.active = e.gen /\ c.raw = c.sv + 1 /\ ~e.unseen /\ ~e.absent
      BY <1>2, <1>3, <1>7, <1>8 DEF HoldsIn
    <2>3. QED
      BY <1>4, <1>5, <1>13, <2>1, <2>2 DEF HoldsIn
  <1>15. ASSUME NEW p \in Op, p # o, target(p) = x PROVE HoldsIn(e, pc'[p], job'[p])
    <2>1. HoldsIn(d, pc[p], job[p]) /\ pc'[p] = pc[p] /\ job'[p] = job[p]
      BY <1>1, <1>15, HereFacts, OtherWorker DEF Kept, d
    <2>2. ~Working(p)
      BY <1>1, <1>15, HereFacts DEF Here, Right
    <2>3. job[p].copy \in Row /\ job[p].prev \in Row
      BY HereFacts DEF Job
    <2>4. pc[p] \notin {"raw", "fail"} \cup StagedPcs
      BY <2>2 DEF Working
    <2>5. QED
      BY <1>7, <1>11, <2>1, <2>3, <2>4 DEF HoldsIn
  <1>16. RenameHolds(x)'
    <2>1. renaming.doc = x => FiledIn(d, renaming.copy) /\ life[x] # "none"
      BY DEF Kept, RenameHolds, d
    <2>2. renaming.copy \in Row
      BY HereFacts DEF TypeOK
    <2>3. QED
      BY <1>1, <1>11, <2>1, <2>2 DEF RenameHolds, e
  <1>17. FiledIn(e, row'[x])
    BY <1>1, <1>11, HereFacts DEF Kept, d
  <1>18. life'[x] = "none" => row'[x].raw = 0 /\ mappings'[x] = {}
    BY <1>1 DEF Kept
  <1>19. \A p \in Op : target(p)' = target(p)
    BY <1>1, TargetKept, HereFacts DEF Next, target
  <1>20. QED
    BY <1>12, <1>14, <1>15, <1>16, <1>17, <1>18, <1>19, HereFacts DEF Kept, e

\* What does not change the file of a row.
LEMMA SameFiles ==
    ASSUME NEW r \in Row
    PROVE  /\ \A g \in Gens : SameFile(Build(r, g), r)
           /\ \A s : SameFile([r EXCEPT !.status = s], r)
           /\ SameFile(GiveUp(r), r)
           /\ \A s : SameFile([GiveUp(r) EXCEPT !.status = s], r)
  <1>1. \A g \in Gens : SameFile(Build(r, g), r)
    BY BuildTyped DEF SameFile
  <1>2. \A s : SameFile([r EXCEPT !.status = s], r)
    BY DEF SameFile, Row
  <1>3. SameFile(GiveUp(r), r) /\ GiveUp(r) \in Row
    <2>. DEFINE r1 == [r EXCEPT !.desired = 0]
                r2 == [r1 EXCEPT !.building = FALSE]
    <2>1. r1 \in Row /\ SameFile(r1, r)
      BY BoundsAreNumbers DEF Row, Gens, SameFile
    <2>2. r2 \in Row /\ SameFile(r2, r1)
      <3>. HIDE DEF r1
      <3>. QED
        BY <2>1 DEF Row, SameFile
    <2>3. GiveUp(r) = r2
      BY DEF GiveUp
    <2>. HIDE DEF r1, r2
    <2>4. QED
      BY <2>1, <2>2, <2>3 DEF SameFile
  <1>4. ASSUME NEW s PROVE SameFile([GiveUp(r) EXCEPT !.status = s], r)
    <2>1. SameFile([GiveUp(r) EXCEPT !.status = s], GiveUp(r))
      BY <1>3 DEF SameFile, Row
    <2>2. QED
      BY <1>3, <2>1 DEF SameFile
  <1>5. QED
    BY <1>1, <1>2, <1>3, <1>4

\* A worker that has its file goes on, or on to the write that records a failure.
LEMMA StagedKept ==
    ASSUME NEW o, NEW x, Here(o, x), Kept(x), Ingest(o), pc[o] \in StagedPcs,
           pc'[o] \in StagedPcs \cup {"fail"}, SameFile(job'[o].copy, job[o].copy),
           job'[o].prev = job[o].prev, Writes(x), mappings' = mappings, raw' = raw,
           renaming' = renaming, scan' = scan
    PROVE  Kept(x)'
  <1>1. HoldsIn(View(x), pc[o], job[o])
    BY HereFacts DEF Kept
  <1>2. FiledIn(View(x), job[o].prev)
    BY <1>1 DEF HoldsIn
  <1>3. HoldsIn(View(x), pc'[o], job'[o])
    BY <1>1, <1>2, HoldsOn
  <1>4. QED
    BY <1>3, OwnStays

\* The steps that fill the generation do not write the row, or only the name of
\* the generation in it.
LEMMA FillsKept ==
    ASSUME NEW o, NEW x, Here(o, x), Kept(x),
           \/ StageBegin(o) \/ ClearLeftover(o) \/ PutBatch(o) \/ ClearStagedData(o)
           \/ ClearStagedFlag(o) \/ Embed(o)
    PROVE  Kept(x)'
  <1>1. /\ Ingest(o) /\ pc[o] \in StagedPcs /\ life' = life /\ mappings' = mappings /\ raw' = raw
        /\ renaming' = renaming /\ scan' = scan
    BY DEF Ingest, StageBegin, ClearLeftover, PutBatch, ClearStagedData, ClearStagedFlag, Embed,
           sideVars
  <1>2. pc'[o] \in StagedPcs \cup {"fail"}
    BY <1>1, HereFacts
    DEF StageBegin, ClearLeftover, PutBatch, ClearStagedData, ClearStagedFlag, Embed, GotoFail, Goto
  <1>3. Writes(x)
    <2>1. row' = row \/ \E r : SameFile(r, row[x]) /\ row' = [row EXCEPT ![x] = r]
      <3>1. StageBegin(o) => NextGen(x) \in Gens
        BY HereFacts, BoundsAreNumbers DEF StageBegin, NextGen, Gens
      <3>2. QED
        BY <3>1, SameFiles, HereFacts
        DEF StageBegin, ClearLeftover, PutBatch, ClearStagedData, ClearStagedFlag, Embed
    <2>2. SameFile(row'[x], row[x])
      BY <2>1, HereFacts DEF SameFile, TypeOK
    <2>3. QED
      BY <1>1, <2>2 DEF Writes
  <1>4. SameFile(job'[o].copy, job[o].copy) /\ job'[o].prev = job[o].prev
    <2>1. \/ job' = job \/ \E u : job' = [job EXCEPT ![o].unknown = u]
          \/ \E g : job' = [job EXCEPT ![o] = [job[o] EXCEPT !.gen = g]]
          \/ \E b : job' = [job EXCEPT ![o] = [job[o] EXCEPT !.next = b]]
          \/ job' = [job EXCEPT ![o] = [job[o] EXCEPT !.copy = Build(job[o].copy, job[o].gen)]]
      BY DEF StageBegin, ClearLeftover, PutBatch, ClearStagedData, ClearStagedFlag, Embed,
             GotoFail, SetJob
    <2>2. \/ job'[o].copy = job[o].copy \/ job'[o].copy = Build(job[o].copy, job[o].gen)
      BY <2>1, HereFacts DEF Job
    <2>3. job'[o].prev = job[o].prev
      BY <2>1, HereFacts DEF Job
    <2>4. job[o].gen \in Gens
      BY HereFacts DEF Job
    <2>5. QED
      BY <2>2, <2>3, <2>4, SameFiles, HereFacts DEF SameFile
  <1>5. QED
    BY <1>1, <1>2, <1>3, <1>4, StagedKept

\* The whole-row writes on the way put the worker's copy into the row,
LEMMA PutRowKept ==
    ASSUME NEW o, NEW x, Here(o, x), Kept(x), Ingest(o), pc[o] \in FullPcs, NEW s, NEW next,
           s \in {"processing", "ready"}, next \in FullPcs,
           PutRow(o, [job[o].copy EXCEPT !.status = s], next),
           mappings' = mappings, raw' = raw, renaming' = renaming, scan' = scan
    PROVE  Kept(x)'
  <1>. DEFINE r == [job[o].copy EXCEPT !.status = s]
              j == [job[o] EXCEPT !.copy = r]
  <1>1. r \in Row /\ SameFile(r, job[o].copy)
    BY HereFacts DEF Row, SameFile
  <1>2. pc[o] \in StagedPcs /\ HoldsIn(View(x), pc[o], job[o])
    BY HereFacts DEF Kept, FullPcs
  <1>3. FiledIn(View(x), r) /\ r.active <= row[x].active
    <2>1. FiledIn(View(x), job[o].copy) /\ job[o].copy.active <= row[x].active
      BY <1>2, HereFacts DEF HoldsIn, CopyBehind
    <2>2. QED
      BY <1>1, <2>1, FiledSame DEF SameFile
  <1>4. j.copy = r /\ j.prev = job[o].prev
    BY HereFacts DEF Job
  <1>. HIDE DEF r, j
  <1>5. CASE Writable(x)
    <2>1. upsert(x, r) /\ job'[o] = j /\ pc'[o] = next
      BY <1>5, HereFacts DEF PutRow, SetJob, Goto, r, j
    <2>2. Writes(x)
      BY <1>1, <1>3, <2>1 DEF Writes
    <2>3. QED
      BY <1>1, <1>2, <1>4, <2>1, <2>2, StagedKept DEF FullPcs
  <1>6. CASE ~Writable(x)
    <2>1. row' = row /\ life' = life /\ pc'[o] = "idle"
      BY <1>6, HereFacts DEF PutRow, Finish, Goto
    <2>2. Writes(x) /\ HoldsIn(View(x), pc'[o], job'[o])
      BY <2>1, HoldsNothing DEF Writes, SameFile
    <2>3. QED
      BY <2>2, OwnStays
  <1>7. QED
    BY <1>5, <1>6

\* and those at its end the copy, or the one taken before the ingest.
LEMMA PutsKept ==
    ASSUME NEW o, NEW x, Here(o, x), Kept(x),
           EmbedPut(o) \/ DegradePut(o) \/ RestorePrevious(o) \/ FailDocument(o)
    PROVE  Kept(x)'
  <1>1. /\ Ingest(o) /\ mappings' = mappings /\ raw' = raw /\ renaming' = renaming /\ scan' = scan
    BY DEF Ingest, EmbedPut, DegradePut, RestorePrevious, FailDocument, RowRest, sideVars
  <1>2. CASE EmbedPut(o)
    BY <1>1, <1>2, PutRowKept DEF EmbedPut, FullPcs
  <1>3. CASE DegradePut(o)
    <2>1. PICK next \in FullPcs : PutRow(o, [job[o].copy EXCEPT !.status = "ready"], next)
      BY <1>3 DEF DegradePut, FullPcs
    <2>2. QED
      BY <1>1, <1>3, <2>1, PutRowKept DEF DegradePut, FullPcs
  <1>4. CASE RestorePrevious(o) \/ FailDocument(o)
    <2>1. pc'[o] = "idle" /\ pc[o] \in {"restore", "fail"} /\ HoldsIn(View(x), pc[o], job[o])
      BY <1>4, HereFacts DEF Kept, RestorePrevious, FailDocument, Finish, Goto
    <2>2. \/ row' = row /\ life' = life
          \/ pc[o] = "restore" /\ upsert(x, Previous(job[o].prev))
          \/ upsert(x, Failed(job[o].copy))
      BY <1>4, HereFacts DEF RestorePrevious, FailDocument
    <2>3. /\ Previous(job[o].prev) \in Row /\ SameFile(Previous(job[o].prev), job[o].prev)
          /\ Failed(job[o].copy) \in Row /\ SameFile(Failed(job[o].copy), job[o].copy)
      BY HereFacts DEF Previous, Failed, Row, SameFile
    <2>4. /\ FiledIn(View(x), job[o].copy)
          /\ pc[o] = "restore" => FiledIn(View(x), job[o].prev)
          /\ job[o].copy.active <= row[x].active /\ job[o].prev.active <= row[x].active
      BY <2>1, HereFacts DEF HoldsIn, CopyBehind
    <2>5. /\ FiledIn(View(x), Failed(job[o].copy))
          /\ pc[o] = "restore" => FiledIn(View(x), Previous(job[o].prev))
      BY <2>3, <2>4, FiledSame
    <2>6. /\ Previous(job[o].prev).active <= row[x].active
          /\ Failed(job[o].copy).active <= row[x].active
      BY <2>3, <2>4 DEF SameFile
    <2>7. Writes(x) /\ HoldsIn(View(x), pc'[o], job'[o])
      BY <2>1, <2>2, <2>3, <2>5, <2>6, HoldsNothing DEF Writes, SameFile
    <2>8. QED
      BY <1>1, <2>7, OwnStays
  <1>5. QED
    BY <1>2, <1>3, <1>4

\* An active generation has a mapping, whose file retirement does not reach.
LEMMA ActiveMapping ==
    ASSUME NEW o, NEW x, Here(o, x), NEW p \in Op, target(p) = x, pc[p] \in PrunePcs
    PROVE  \E m \in mappings[x] : m.gen = row[x].active
  <1>1. StagedRight(p, x) /\ Whole(x)
    BY DEF Here, Right
  <1>2. job[p].gen \in 1 .. MaxGen
    BY HereFacts DEF Typed, StepsTyped, StepTyped, GenPcs, PrunePcs
  <1>3. row[x].active > 0
    BY <1>1, <1>2, HereFacts, BoundsAreNumbers DEF StagedRight, PrunePcs
  <1>4. QED
    BY <1>1, <1>3 DEF Whole

LEMMA PruneKept ==
    ASSUME NEW o, NEW x, Here(o, x), Kept(x), PruneMappings(o) \/ PruneChunks(o) \/ PruneRaw(o)
    PROVE  Kept(x)'
  <1>. DEFINE g == job[o].gen
  <1>1. /\ Ingest(o) /\ row' = row /\ life' = life /\ renaming' = renaming /\ scan' = scan
        /\ pc[o] \in PrunePcs
    BY DEF Ingest, PruneMappings, PruneChunks, PruneRaw, storeVars, sideVars, PrunePcs
  <1>2. /\ HoldsIn(View(x), pc[o], job[o]) /\ ~View(x).unseen /\ ~View(x).absent
        /\ g <= row[x].active /\ g \in Nat
    <2>1. HoldsIn(View(x), pc[o], job[o])
      BY HereFacts DEF Kept
    <2>2. ~View(x).unseen /\ ~View(x).absent
      BY <1>1, <2>1 DEF HoldsIn, PrunePcs
    <2>3. g <= row[x].active /\ g \in Nat
      BY <1>1, HereFacts DEF StagedRight, PrunePcs, Job, Gens
    <2>4. QED
      BY <2>1, <2>2, <2>3
  <1>3. Writes(x)
    BY <1>1 DEF Writes, SameFile
  <1>4. CASE PruneMappings(o)
    <2>. DEFINE old == {m \in mappings[x] : m.gen \in Retired(g)}
                j == [job[o] EXCEPT !.paths = {m.raw : m \in old}]
    <2>1. raw' = raw /\ mappings'[x] \subseteq mappings[x]
      BY <1>4, HereFacts DEF PruneMappings, TypeOK
    <2>2. HoldsIn(View(x), pc'[o], job'[o])
      <3>1. CASE pc'[o] = "idle"
        BY <3>1, HoldsNothing
      <3>2. CASE pc'[o] = "pruneChunks" /\ job'[o] = j
        <4>1. j.paths = {m.raw : m \in old}
          BY HereFacts DEF Job
        <4>2. \A n \in old : n.gen < row[x].active
          BY <1>2, HereFacts DEF Retired
        <4>3. ASSUME NEW m \in mappings[x], m.gen = row[x].active, NEW v \in j.paths
              PROVE  v < m.raw
          <5>1. PICK n \in old : v = n.raw
            BY <4>1, <4>3
          <5>2. n \in mappings[x] /\ n.gen < m.gen
            BY <4>2, <4>3
          <5>3. QED
            BY <4>3, <5>1, <5>2 DEF Kept, MappedIn, View
        <4>4. View(x).gen = row[x].active /\ View(x).maps = mappings[x]
          BY DEF View
        <4>. HIDE DEF j
        <4>5. QED
          BY <1>2, <3>2, <4>3, <4>4 DEF HoldsIn
      <3>3. Finish(o, "succeeded") \/ (Goto(o, "pruneChunks") /\ SetJob(o, j))
        <4>1. target(o) = x
          BY HereFacts
        <4>2. QED
          BY <1>4, <4>1, Zenon DEF PruneMappings
      <3>. HIDE DEF j
      <3>4. QED
        BY <3>1, <3>2, <3>3, HereFacts DEF Finish, Goto, SetJob
    <2>3. QED
      BY <1>1, <1>3, <2>1, <2>2, OwnStays
  <1>5. CASE PruneChunks(o)
    <2>1. /\ pc[o] = "pruneChunks" /\ pc'[o] = "pruneRaw" /\ job' = job
          /\ raw' = raw /\ mappings' = mappings
      BY <1>5, HereFacts DEF PruneChunks, Goto
    <2>2. HoldsIn(View(x), pc'[o], job'[o])
      BY <1>2, <2>1 DEF HoldsIn
    <2>3. QED
      BY <1>1, <1>3, <2>1, <2>2, OwnStays
  <1>6. CASE PruneRaw(o)
    <2>. DEFINE R == job[o].paths
    <2>1. /\ pc[o] = "pruneRaw" /\ pc'[o] = "idle" /\ mappings' = mappings
          /\ raw' = Without(x, R)
      BY <1>6, HereFacts DEF PruneRaw, Finish, Goto, storeVars
    <2>2. raw'[x] = [v \in Versions |-> IF v \in R THEN NoFile ELSE raw[x][v]]
      BY <2>1, HereFacts DEF Without, TypeOK
    <2>3. raw[x] \in [Versions -> Content \cup {NoFile}] /\ R \subseteq Versions
      BY HereFacts DEF TypeOK, Job
    <2>4. PICK m \in mappings[x] : m.gen = row[x].active
      BY <1>1, HereFacts, ActiveMapping
    <2>5. \A v \in R : v < m.raw
      BY <1>2, <2>1, <2>4 DEF HoldsIn, View
    <2>6. m.raw \in Nat /\ \A v \in R : v \in Nat
      BY <2>3, HereFacts DEF TypeOK, Versions
    <2>7. \A r : FiledIn(View(x), r) /\ r.active = row[x].active /\ r.raw # 0 => r.raw \notin R
      BY <2>5, <2>6 DEF FiledIn, View
    <2>8. \A n \in mappings[x] : n.gen = row[x].active => n.raw \notin R
      <3>1. ASSUME NEW n \in mappings[x], n.gen = row[x].active, n.raw \in R PROVE FALSE
        <4>1. n.raw < n.raw
          BY <1>2, <2>1, <3>1 DEF HoldsIn, View
        <4>2. QED
          BY <2>6, <3>1, <4>1
      <3>2. QED
        BY <3>1
    <2>9. \A v \in Versions \ R : raw'[x][v] = raw[x][v]
      BY <2>2
    <2>10. Eases(View(x), View(x)', R)
      BY <1>1, <2>1, <2>7, <2>8, <2>9 DEF Eases, View
    <2>11. FiledIn(View(x), row[x])'
      BY <1>1, <2>10, HereFacts, FiledEases DEF Kept
    <2>12. HoldsIn(View(x), pc[o], job[o])'
      BY <2>1, HoldsNothing
    <2>13. QED
      BY <1>1, <2>10, <2>11, <2>12, OwnKept DEF Kept
  <1>7. QED
    BY <1>4, <1>5, <1>6

\* What is done to the copy by an activation that is refused or not answered,
LEMMA RaisedFile ==
    ASSUME NEW r \in Row, r.sv + 1 \in Gens
    PROVE  Raised(r).sv = r.sv + 1
  <1>. DEFINE r1 == [r EXCEPT !.sv = r.sv + 1]
              r2 == [r1 EXCEPT !.status = "ready"]
  <1>1. r1 \in Row /\ r1.sv = r.sv + 1
    BY DEF Row
  <1>2. r2.sv = r1.sv
    <2>. HIDE DEF r1
    <2>. QED
      BY <1>1 DEF Row
  <1>3. Raised(r) = r2
    BY DEF Raised
  <1>4. QED
    BY <1>1, <1>2, <1>3

\* and what one that commits writes.
LEMMA ActivatedFile ==
    ASSUME NEW o, job[o] \in Job, job[o].copy.sv + 1 \in Gens
    PROVE  /\ Activated(o) \in Row /\ Activated(o).active = job[o].gen
           /\ Activated(o).raw = job[o].copy.raw /\ Activated(o).sv = job[o].copy.sv + 1
  <1>. DEFINE j == job[o]
              r1 == [j.copy EXCEPT !.active = j.gen]
              r2 == [r1 EXCEPT !.desired = j.gen]
              r3 == [r2 EXCEPT !.building = FALSE]
              r4 == [r3 EXCEPT !.status = "ready"]
              r5 == [r4 EXCEPT !.sv = j.copy.sv + 1]
  <1>1. j.copy \in Row /\ j.gen \in Gens
    BY DEF Job
  <1>2. r1 \in Row /\ r1.raw = j.copy.raw
    BY <1>1 DEF Row
  <1>3. r2 \in Row /\ r2.raw = j.copy.raw
    <2>. HIDE DEF r1
    <2>. QED BY <1>1, <1>2 DEF Row
  <1>4. r3 \in Row /\ r3.raw = j.copy.raw
    <2>. HIDE DEF r2
    <2>. QED BY <1>3 DEF Row
  <1>5. r4 \in Row /\ r4.raw = j.copy.raw
    <2>. HIDE DEF r3
    <2>. QED BY <1>4 DEF Row
  <1>6. r5.raw = j.copy.raw /\ r5.sv = j.copy.sv + 1
    <2>. HIDE DEF r4
    <2>. QED BY <1>5 DEF Row
  <1>7. Activated(o) = r5
    BY Zenon DEF Activated
  <1>8. QED
    BY <1>6, <1>7, ActivatedTyped

\* The activation: the staged file becomes the one of the active generation,
\* above those of all older ones, and whoever holds an older row cannot write it
\* without setting the document back.
LEMMA ActivateCommitsKept ==
    ASSUME NEW o, NEW x, Here(o, x), Kept(x), Activate(o), upsert(x, Activated(o)),
           mappings' = [mappings EXCEPT ![x] = {m \in @ : m.gen # job[o].gen} \cup {Mapping(o)}],
           pc'[o] = "prune" \/ (pc'[o] = "fail" /\ job'[o].copy.active = row[x].active)
    PROVE  Kept(x)'
  <1>. DEFINE g == job[o].gen
              c == job[o].copy
              n == Mapping(o)
              e == View(x)'
  <1>1. /\ pc[o] = "activate" /\ raw' = raw /\ renaming' = renaming /\ scan' = scan /\ Ingest(o)
        /\ Working(o)
    BY DEF Activate, Ingest, sideVars, Working
  <1>2. HoldsIn(View(x), "activate", job[o])
    BY <1>1, HereFacts DEF Kept
  <1>3. /\ g = row[x].active + 1 /\ c.active = row[x].active /\ c.raw = c.sv + 1
        /\ raw[x][c.raw] = c.of /\ x \in scan.busy /\ c.raw # 0
        /\ \A m \in mappings[x] : m.raw <= c.sv
    <2>1. g = row[x].active + 1 /\ c.sv \in Nat
      BY <1>1, HereFacts DEF StagedRight, OwnPcs, Row, Gens
    <2>2. /\ View(x).gen = row[x].active /\ View(x).maps = mappings[x] /\ View(x).files = raw[x]
          /\ View(x).unseen = (x \notin scan.busy)
      BY DEF View
    <2>3. /\ FiledIn(View(x), c) /\ c.active = View(x).gen /\ c.raw = c.sv + 1
          /\ View(x).files[c.raw] = c.of /\ ~View(x).unseen
      BY <1>2 DEF HoldsIn
    <2>. HIDE DEF c, g
    <2>4. c.raw # 0
      BY <2>1, <2>3
    <2>5. \A m \in View(x).maps : m.raw <= c.sv
      BY <2>3 DEF FiledIn
    <2>6. QED
      BY <2>1, <2>2, <2>3, <2>4, <2>5
  <1>4. raw[x][c.raw] # NoFile
    <2>1. c.of \in Content
      BY <1>1, HereFacts DEF StepTyped
    <2>2. NoFile \notin Content
      BY GenerationsAssumption
    <2>3. QED
      BY <1>3, <2>1, <2>2, Zenon
  <1>5. c.sv + 1 \in Gens
    BY <1>1, HereFacts, BoundsAreNumbers DEF StepTyped, Row, Gens
  <1>6. /\ row'[x].active = g /\ row'[x].raw = c.raw /\ row'[x].sv = c.raw
        /\ life'[x] = "active"
    <2>1. /\ Activated(o) \in Row /\ Activated(o).active = g
          /\ Activated(o).raw = c.raw /\ Activated(o).sv = c.raw
      BY <1>3, <1>5, HereFacts, ActivatedFile
    <2>. HIDE DEF c
    <2>2. /\ Stored(Activated(o)).active = g /\ Stored(Activated(o)).raw = c.raw
          /\ Stored(Activated(o)).sv = c.raw
      BY <1>3, <2>1 DEF Stored, Row
    <2>3. QED
      BY <2>2, HereFacts DEF upsert, TypeOK
  <1>7. n.gen = g /\ n.raw = c.raw /\ n.of = c.of
    BY DEF Mapping
  <1>8. mappings'[x] = {m \in mappings[x] : m.gen # g} \cup {n}
    BY HereFacts DEF TypeOK
  <1>9. \A m \in mappings[x] : /\ m.gen <= row[x].active /\ m.raw < c.raw
                               /\ m.gen \in Nat /\ m.raw \in Nat
    <2>1. \A m \in mappings[x] : m.gen <= row[x].active
      BY DEF Kept, MappedIn, View
    <2>2. \A m \in mappings[x] : m.gen \in Nat /\ m.raw \in Nat
      BY HereFacts DEF TypeOK, Versions
    <2>3. c.sv \in Nat
      BY HereFacts DEF Row, Gens
    <2>. HIDE DEF c
    <2>4. QED
      BY <1>3, <2>1, <2>2, <2>3
  <1>10. /\ e.gen = g /\ e.maps = mappings'[x] /\ e.files = raw[x] /\ ~e.absent /\ ~e.unseen
    BY <1>1, <1>3, <1>6 DEF View
  <1>11. c.raw \in Nat /\ row[x].active \in Nat
    BY HereFacts DEF Row, Gens
  <1>. HIDE DEF e, n, c, g
  <1>12. FiledIn(e, row'[x])
    BY <1>4, <1>6, <1>7, <1>8, <1>9, <1>10, <1>11 DEF FiledIn
  <1>13. MappedIn(e)
    <2>1. \A m \in e.maps : m.gen \in Nat /\ m.gen <= g /\ (m.gen = g => m = n)
      BY <1>3, <1>7, <1>8, <1>9, <1>10, <1>11
    <2>2. ASSUME NEW m \in e.maps, NEW k \in e.maps, m.gen < k.gen PROVE m.raw < k.raw
      <3>1. m # n
        <4>1. g \in Nat /\ m.gen \in Nat /\ k.gen \in Nat /\ k.gen <= g
          BY <1>3, <1>11, <2>1
        <4>2. QED
          BY <1>7, <2>2, <4>1
      <3>2. m \in mappings[x]
        BY <1>8, <1>10, <3>1
      <3>3. CASE k = n
        BY <1>7, <1>9, <3>2, <3>3
      <3>4. CASE k # n
        <4>1. k \in mappings[x]
          BY <1>8, <1>10, <3>4
        <4>2. QED
          BY <2>2, <3>2, <4>1 DEF Kept, MappedIn, View
      <3>5. QED
        BY <3>3, <3>4
    <2>3. QED
      BY <1>3, <1>7, <1>10, <2>1, <2>2 DEF MappedIn
  <1>14. ASSUME NEW r, r.active <= row[x].active, r.active \in Nat PROVE FiledIn(e, r)
    BY <1>3, <1>10, <1>11, <1>14 DEF FiledIn
  <1>15. HoldsIn(e, pc'[o], job'[o])
    BY <1>10, <1>11, <1>14 DEF HoldsIn
  <1>16. ASSUME NEW p \in Op, p # o, target(p) = x PROVE HoldsIn(e, pc'[p], job'[p])
    <2>1. HoldsIn(View(x), pc[p], job[p]) /\ pc'[p] = pc[p] /\ job'[p] = job[p]
      BY <1>1, <1>16, HereFacts, OtherWorker DEF Kept
    <2>2. ~Working(p) /\ CopyBehind(p, x)
      BY <1>1, <1>16, HereFacts DEF Here, Right
    <2>3. pc[p] \notin {"raw", "fail"} \cup StagedPcs
      BY <2>2 DEF Working
    <2>4. job[p].copy.active \in Nat /\ job[p].prev.active \in Nat /\ job[p].paths \subseteq Versions
      BY HereFacts DEF Job, Row, Gens
    <2>5. pc[p] = "start" => FiledIn(e, job[p].copy) /\ FiledIn(e, job[p].prev)
      BY <1>14, <2>2, <2>4 DEF CopyBehind
    <2>6. ASSUME pc[p] \in {"pruneChunks", "pruneRaw"}, NEW m \in e.maps, m.gen = e.gen,
                 NEW v \in job[p].paths
          PROVE  v < m.raw
      <3>1. PICK k \in mappings[x] : k.gen = row[x].active
        BY <1>16, <2>6, ActiveMapping DEF PrunePcs
      <3>2. v < k.raw /\ k.raw < c.raw /\ v \in Nat /\ k.raw \in Nat
        BY <1>9, <2>1, <2>4, <2>6, <3>1 DEF HoldsIn, View, Versions
      <3>3. m = n
        BY <1>8, <1>10, <2>6
      <3>4. QED
        BY <1>7, <1>11, <3>2, <3>3
    <2>7. QED
      BY <1>10, <2>1, <2>3, <2>5, <2>6 DEF HoldsIn
  <1>17. RenameHolds(x)'
    <2>1. renaming.doc = x => renaming.copy.active <= row[x].active
      <3>1. renaming.doc = x => renaming # NoRename
        BY HereFacts, GenerationsAssumption DEF NoRename
      <3>2. QED
        BY <3>1 DEF Here, Right, RenameBehind
    <2>2. renaming.copy.active \in Nat
      BY HereFacts DEF TypeOK, Row, Gens
    <2>3. QED
      BY <1>1, <1>6, <1>14, <2>1, <2>2 DEF RenameHolds, e
  <1>18. \A p \in Op : target(p)' = target(p)
    BY <1>1, TargetKept, HereFacts DEF Next, target
  <1>19. QED
    BY <1>6, <1>12, <1>13, <1>15, <1>16, <1>17, <1>18, HereFacts DEF Kept, e

LEMMA ActivateKept ==
    ASSUME NEW o, NEW x, Here(o, x), Kept(x), Activate(o)
    PROVE  Kept(x)'
  <1>. DEFINE raised == Raised(job[o].copy)
              failed == [job[o] EXCEPT !.copy = raised]
              unknown == [job[o] EXCEPT !.copy = raised, !.unknown = TRUE]
              maps == mappings' = [mappings EXCEPT ![x] =
                          {m \in @ : m.gen # job[o].gen} \cup {Mapping(o)}]
  <1>1. /\ pc[o] = "activate" /\ raw' = raw /\ renaming' = renaming /\ scan' = scan /\ Ingest(o)
    BY DEF Activate, Ingest, sideVars
  <1>2. HoldsIn(View(x), "activate", job[o]) /\ View(x).gen = row[x].active
    BY <1>1, HereFacts DEF Kept, View
  <1>3. /\ raised \in Row /\ raised.raw = job[o].copy.raw /\ raised.active = job[o].copy.active
        /\ raised.sv = job[o].copy.sv + 1
    <2>1. job[o].copy.sv + 1 \in Gens
      BY <1>1, HereFacts, BoundsAreNumbers DEF StepTyped, Row, Gens
    <2>2. QED
      BY <2>1, HereFacts, RaisedTyped, RaisedFile
  <1>. HIDE DEF raised
  <1>4. failed.copy = raised /\ unknown.copy = raised
    BY <1>3, HereFacts, JobRaised DEF Job
  <1>. HIDE DEF failed, unknown
  <1>5. raised.active = row[x].active /\ FiledIn(View(x), raised)
    <2>1. /\ FiledIn(View(x), job[o].copy) /\ job[o].copy.active = View(x).gen
      BY <1>2 DEF HoldsIn
    <2>2. job[o].copy.sv \in Nat /\ \A m \in View(x).maps : m.raw \in Nat
      BY HereFacts DEF Row, Gens, View, TypeOK, Versions
    <2>3. QED
      BY <1>2, <1>3, <2>1, <2>2 DEF FiledIn
  <1>6. ASSUME job'[o] = failed \/ job'[o] = unknown
        PROVE  HoldsIn(View(x), "fail", job'[o])
    BY <1>2, <1>4, <1>5, <1>6 DEF HoldsIn
  <1>7. CASE row' = row /\ life' = life /\ mappings' = mappings /\ pc'[o] = "fail"
             /\ (job'[o] = failed \/ job'[o] = unknown)
    <2>1. Writes(x)
      BY <1>7 DEF Writes, SameFile
    <2>2. QED
      BY <1>1, <1>6, <1>7, <2>1, OwnStays
  <1>8. CASE upsert(x, Activated(o)) /\ maps /\ (\/ pc'[o] = "fail" /\ job'[o] = unknown
                                                 \/ pc'[o] = "prune")
    BY <1>4, <1>5, <1>8, ActivateCommitsKept
  <1>9. QED
    <2>0. target(o) = x /\ pc \in [Op -> Pcs] /\ job \in [Op -> Job] /\ o \in Op
      BY HereFacts
    <2>1. CASE ~(Fenced(x) /\ job[o].gen = NextGen(x))
      <3>1. /\ Goto(o, "fail") /\ SetJob(o, failed)
            /\ UNCHANGED <<life, row, mappings, committed, published, rewound, events>>
        BY <2>0, <2>1, Zenon DEF Activate, failed, raised
      <3>2. QED
        BY <1>7, <2>0, <3>1 DEF Goto, SetJob
    <2>2. CASE Fenced(x) /\ job[o].gen = NextGen(x)
      <3>1. PICK a \in Answers :
            /\ IF Commits(a)
               THEN /\ upsert(x, Activated(o)) /\ maps
                    /\ committed' = Marked(o)
                    /\ published' = [published EXCEPT ![o] = @ + 1]
               ELSE UNCHANGED <<life, row, mappings, committed, published, rewound>>
            /\ IF Unanswered(a)
               THEN Goto(o, "fail") /\ SetJob(o, unknown)
               ELSE Goto(o, "prune") /\ UNCHANGED job
        BY <2>0, <2>2, Zenon DEF Activate, unknown, raised
      <3>2. /\ Unanswered(a) => pc'[o] = "fail" /\ job'[o] = unknown
            /\ ~Unanswered(a) => pc'[o] = "prune" /\ Commits(a)
        BY <2>0, <3>1 DEF Goto, SetJob, Unanswered, Commits
      <3>3. CASE Commits(a)
        BY <1>8, <3>1, <3>2, <3>3
      <3>4. CASE ~Commits(a)
        BY <1>7, <3>1, <3>2, <3>4
      <3>5. QED
        BY <3>3, <3>4
    <2>3. QED
      BY <2>1, <2>2

----------------------------------------------------------------------------
\* The steps of others.

\* The ingest of another document: it takes no file of this one, and joins the
\* workers that a reconciliation has to look out for.
LEMMA ElsewhereKept ==
    ASSUME Typed, ScanTyped, NEW x \in Doc, NEW p \in Op, Ingest(p), target(p) # x, Kept(x)
    PROVE  Kept(x)'
  <1>. DEFINE y == target(p)
  <1>1. /\ mappings'[x] = mappings[x] /\ row'[x] = row[x] /\ life'[x] = life[x]
        /\ renaming' = renaming
    BY IngestAway
  <1>2. \A o \in Op : target(o) = x => pc'[o] = pc[o] /\ job'[o] = job[o]
    BY OtherWorker
  <1>3. y \in Doc /\ raw \in [Doc -> [Versions -> Content \cup {NoFile}]]
    BY TargetTyped DEF Typed, TypeOK
  <1>4. raw'[x] = raw[x]
    <2>1. CASE WriteRaw(p)
      BY <1>3, <2>1 DEF WriteRaw
    <2>2. CASE PruneRaw(p)
      BY <1>3, <2>2 DEF PruneRaw, Without
    <2>3. CASE EmbedPut(p) \/ DegradePut(p) \/ RestorePrevious(p) \/ FailDocument(p)
      BY <2>3 DEF EmbedPut, DegradePut, RestorePrevious, FailDocument, RowRest
    <2>4. CASE \/ BeginIngest(p) \/ StartIngest(p) \/ StageBegin(p) \/ ClearStagedFlag(p)
               \/ Embed(p) \/ Activate(p) \/ PruneMappings(p) \/ ClearLeftover(p) \/ PutBatch(p)
               \/ ClearStagedData(p) \/ PruneChunks(p)
      BY <2>4 DEF BeginIngest, StartIngest, StageBegin, ClearStagedFlag, Embed, Activate,
                  PruneMappings, ClearLeftover, PutBatch, ClearStagedData, PruneChunks
    <2>5. QED
      BY <2>1, <2>2, <2>3, <2>4 DEF Ingest
  <1>5. scan'.refs = scan.refs /\ (x \in scan'.busy <=> x \in scan.busy)
    <2>1. scan' = scan \/ scan' = [scan EXCEPT !.busy = @ \cup {y}]
      <3>1. CASE StartIngest(p)
        BY <3>1 DEF StartIngest
      <3>2. CASE EmbedPut(p) \/ DegradePut(p) \/ RestorePrevious(p) \/ FailDocument(p)
        BY <3>2 DEF EmbedPut, DegradePut, RestorePrevious, FailDocument, RowRest, sideVars
      <3>3. CASE \/ BeginIngest(p) \/ WriteRaw(p) \/ StageBegin(p) \/ ClearStagedFlag(p)
                 \/ Embed(p) \/ Activate(p) \/ PruneMappings(p) \/ ClearLeftover(p) \/ PutBatch(p)
                 \/ ClearStagedData(p) \/ PruneChunks(p) \/ PruneRaw(p)
        BY <3>3 DEF BeginIngest, WriteRaw, StageBegin, ClearStagedFlag, Embed, Activate,
                    PruneMappings, ClearLeftover, PutBatch, ClearStagedData, PruneChunks, PruneRaw,
                    sideVars
      <3>4. QED
        BY <3>1, <3>2, <3>3 DEF Ingest
    <2>2. QED
      BY <2>1 DEF ScanTyped
  <1>6. Eases(View(x), View(x)', {})
    BY <1>1, <1>4, <1>5 DEF Eases, View
  <1>7. FiledIn(View(x), row[x])'
    <2>1. row[x] \in Row
      BY DEF Typed, TypeOK
    <2>2. QED
      BY <1>1, <1>6, <2>1, FiledEases DEF Kept
  <1>8. RenameHolds(x)'
    BY <1>1, <1>6, RenameEases DEF Kept, Typed
  <1>9. [Next]_vars
    BY DEF Next
  <1>10. QED
    BY <1>1, <1>2, <1>6, <1>7, <1>8, <1>9, KeptEases DEF Kept

\* A clean-up: what it empties was fenced before, or never was there.
LEMMA DeleteKeeps ==
    ASSUME Typed, LiveScope, CleanInv, CleanersInv, NEW x \in Doc, NEW o \in Op, Delete(o),
           Right(x), Calm(x), Calm(x)', Kept(x)
    PROVE  Kept(x)'
  <1>1. /\ row' = row /\ renaming' = renaming /\ life'[x] = life[x]
        /\ mappings'[x] = mappings[x] \/ life[x] = "none"
        /\ \A p \in Op : target(p) = x =>
              (pc'[p] = pc[p] /\ job'[p] = job[p]) \/ pc'[p] \notin IngestPcs
    BY DeleteAway
  <1>2. scan' = scan
    BY DEF Delete, BeginDelete, FenceTree, CleanChunks, CleanMappings, CleanRaw, FenceBase,
           CleanBaseChunks, CleanBaseRaw, sideVars
  <1>3. /\ raw \in [Doc -> [Versions -> Content \cup {NoFile}]] /\ row[x] \in Row
        /\ mappings \in [Doc -> SUBSET [gen : 1 .. MaxGen, sv : Versions, raw : Versions, of : Content]]
    BY DEF Typed, TypeOK
  <1>4. [Next]_vars /\ \A p \in Op : target(p)' = target(p)
    BY TargetKept DEF Next, target
  <1>5. CASE life[x] = "none"
    <2>1. row[x].raw = 0 /\ mappings[x] = {} /\ renaming.doc # x
      BY <1>5 DEF Kept, RenameHolds
    <2>2. mappings'[x] = {}
      <3>1. mappings' = mappings \/ mappings' = [mappings EXCEPT ![Current(o)] = {}]
        BY DEF Delete, BeginDelete, FenceTree, CleanChunks, CleanMappings, CleanRaw, FenceBase,
               CleanBaseChunks, CleanBaseRaw, storeVars
      <3>2. QED
        BY <1>3, <2>1, <3>1
    <2>. DEFINE e == View(x)'
    <2>3. e.maps = {} /\ e.absent /\ e.unseen = View(x).unseen
      BY <1>1, <1>2, <1>5, <2>2 DEF View
    <2>. HIDE DEF e
    <2>4. \A r : r.raw = 0 => FiledIn(e, r)
      BY <2>3 DEF FiledIn
    <2>5. ASSUME NEW p \in Op, target(p) = x PROVE HoldsIn(e, pc'[p], job'[p])
      <3>1. CASE pc'[p] \notin IngestPcs
        BY <3>1, HoldsNothing
      <3>2. CASE pc'[p] \in IngestPcs
        <4>1. pc'[p] = pc[p] /\ job'[p] = job[p] /\ HoldsIn(View(x), pc[p], job[p])
          BY <1>1, <2>5, <3>2 DEF Kept
        <4>2. View(x).absent
          BY <1>5 DEF View
        <4>3. pc[p] = "start" /\ job[p].copy.raw = 0 /\ job[p].prev.raw = 0
          BY <3>2, <4>1, <4>2 DEF HoldsIn
        <4>4. QED
          BY <2>4, <4>1, <4>3 DEF HoldsIn
      <3>3. QED
        BY <3>1, <3>2
    <2>6. FiledIn(e, row'[x]) /\ MappedIn(e)
      BY <1>1, <2>1, <2>3, <2>4 DEF MappedIn
    <2>7. RenameHolds(x)'
      BY <1>1, <2>1 DEF RenameHolds
    <2>8. QED
      BY <1>1, <1>4, <2>1, <2>2, <2>5, <2>6, <2>7 DEF Kept, e
  <1>6. CASE life[x] # "none"
    <2>1. raw'[x] = raw[x]
      <3>1. CASE CleanRaw(o)
        <4>1. Current(o) # x
          <5>1. job[o].todo # {} /\ pc[o] \in CleanPcs
            BY <3>1 DEF CleanRaw, CleanPcs, Typed, StepsTyped, StepTyped
          <5>2. Current(o) \in job[o].todo
            BY <5>1, CurrentTyped DEF Typed
          <5>3. life[target(o)] = "deleting" /\ Current(o) \in Tree(target(o))
            BY <5>1, <5>2 DEF CleanersInv, Cleans
          <5>4. ~(life[x] = "active" /\ x \in Tree(target(o)))
            BY <5>3 DEF LiveScope, Tree
          <5>5. QED
            BY <1>6, <5>3, <5>4 DEF Calm, Typed, TypeOK
        <4>2. QED
          BY <1>3, <3>1, <4>1 DEF CleanRaw, Without
      <3>2. CASE CleanBaseRaw(o)
        <4>1. baseLife = "deleting"
          BY <3>2 DEF CleanBaseRaw, CleanInv, BaseInv, Typed, StepsTyped, StepTyped
        <4>2. QED
          BY <1>6, <4>1 DEF LiveScope, Calm, Typed, TypeOK
      <3>3. CASE \/ BeginDelete(o) \/ FenceTree(o) \/ CleanChunks(o) \/ CleanMappings(o)
                 \/ FenceBase(o) \/ CleanBaseChunks(o)
        BY <3>3 DEF BeginDelete, FenceTree, CleanChunks, CleanMappings, FenceBase, CleanBaseChunks
      <3>4. QED
        BY <3>1, <3>2, <3>3 DEF Delete
    <2>2. Eases(View(x), View(x)', {})
      BY <1>1, <1>2, <1>6, <2>1, FilesStay
    <2>3. FiledIn(View(x), row[x])'
      BY <1>1, <1>3, <2>2, FiledEases DEF Kept
    <2>4. RenameHolds(x)'
      BY <1>1, <2>2, RenameEases DEF Kept, Typed
    <2>5. \A p \in Op : target(p) = x => \/ pc'[p] = pc[p] /\ job'[p] = job[p]
                                         \/ HoldsIn(View(x), pc[p], job[p])'
      BY <1>1, HoldsNothing
    <2>6. QED
      BY <1>1, <1>4, <1>6, <2>2, <2>3, <2>4, <2>5, KeptEases
  <1>7. QED
    BY <1>5, <1>6

\* A step beside the workers, which it leaves alone or stops, at the files R,
LEMMA BesideKept ==
    ASSUME Typed, SideStep, NEW x \in Doc, Kept(x), NEW R, Eases(View(x), View(x)', R),
           FiledIn(View(x), row[x])', RenameHolds(x)', life'[x] = "none" => row'[x].raw = 0
    PROVE  Kept(x)'
  <1>1. [Next]_vars
    BY DEF SideStep, Next
  <1>2. \A o \in Op : target(o) = x => \/ pc'[o] = pc[o] /\ job'[o] = job[o]
                                       \/ HoldsIn(View(x), pc[o], job[o])'
    <2>1. ASSUME NEW o \in Op, pc'[o] = "idle" PROVE HoldsIn(View(x), pc[o], job[o])'
      BY <2>1, HoldsNothing
    <2>2. QED
      BY <2>1, SideWorkers
  <1>3. QED
    BY <1>1, <1>2, KeptEases

\* or at none.
LEMMA SideStays ==
    ASSUME Typed, SideStep, NEW x \in Doc, Kept(x), Writes(x), x \notin rewound', raw'[x] = raw[x],
           mappings' = mappings, scan' = scan \/ x \in scan'.busy,
           renaming'.doc = x => /\ FiledIn(View(x), renaming'.copy) /\ renaming'.copy \in Row
                                /\ life[x] # "none"
    PROVE  Kept(x)'
  <1>1. /\ row'[x].active = row[x].active /\ FiledIn(View(x), row'[x])
        /\ life'[x] = "none" => life[x] = "none" /\ row'[x].raw = 0
    BY WritesFiled
  <1>2. Eases(View(x), View(x)', {})
    BY <1>1, FilesStay
  <1>3. row'[x] \in Row
    BY StepTypedNext DEF SideStep, Next, Typed, TypeOK
  <1>4. FiledIn(View(x), row[x])'
    BY <1>1, <1>2, <1>3, FiledEases
  <1>5. renaming'.doc = x => FiledIn(View(x)', renaming'.copy)
    BY <1>2, FiledEases
  <1>6. RenameHolds(x)'
    BY <1>1, <1>5 DEF RenameHolds
  <1>7. QED
    BY <1>1, <1>2, <1>4, <1>6, BesideKept

\* A retry, a restart and the recovery change no column that names a file.
LEMMA RecoveryKept ==
    ASSUME Typed, SideStep, NEW x \in Doc, Kept(x), Calm(x)',
           (\E o \in Op : Retry(o)) \/ Crash \/ RecoverRead \/ RecoverWrite
    PROVE  Kept(x)'
  <1>1. /\ raw' = raw /\ mappings' = mappings /\ life' = life /\ x \notin rewound'
        /\ scan' = scan \/ scan' = NoScan
        /\ renaming' = renaming \/ renaming' = NoRename
    BY DEF Retry, Crash, RecoverRead, RecoverWrite, storeVars, sideVars, Calm
  <1>2. SameFile(row'[x], row[x])
    <2>1. CASE row' = row
      BY <2>1 DEF SameFile
    <2>2. CASE RecoverWrite
      <3>1. row[x] \in Row
        BY DEF Typed, TypeOK
      <3>2. SameFile(GiveUp(row[x]), row[x]) /\ GiveUp(row[x]) \in Row
        BY <3>1, GiveUpTyped DEF GiveUp, SameFile, Row
      <3>3. ASSUME NEW s PROVE SameFile([GiveUp(row[x]) EXCEPT !.status = s], GiveUp(row[x]))
        BY <3>2 DEF SameFile, Row
      <3>4. row'[x] = row[x] \/ \E s : row'[x] = [GiveUp(row[x]) EXCEPT !.status = s]
        BY <2>2 DEF RecoverWrite
      <3>5. CASE row'[x] = row[x]
        BY <3>5 DEF SameFile
      <3>6. CASE \E s : row'[x] = [GiveUp(row[x]) EXCEPT !.status = s]
        <4>1. SameFile(row'[x], GiveUp(row[x]))
          BY <3>3, <3>6
        <4>2. QED
          BY <3>2, <4>1 DEF SameFile
      <3>7. QED
        BY <3>4, <3>5, <3>6
    <2>3. QED
      BY <2>1, <2>2 DEF Retry, Crash, RecoverRead, storeVars
  <1>3. scan' = scan \/ x \in scan'.busy
    BY <1>1 DEF NoScan
  <1>4. renaming'.doc = x => /\ FiledIn(View(x), renaming'.copy) /\ renaming'.copy \in Row
                             /\ life[x] # "none"
    BY <1>1, GenerationsAssumption DEF NoRename, Kept, RenameHolds, Typed, TypeOK
  <1>5. QED
    BY <1>1, <1>2, <1>3, <1>4, SideStays DEF Writes

\* A rename writes back the row that it read.
LEMMA RenameKept ==
    ASSUME Typed, SideStep, NEW x \in Doc, Kept(x), Right(x), Calm(x)',
           (\E y \in Doc : RenameRead(y)) \/ RenamePut
    PROVE  Kept(x)'
  <1>1. /\ raw' = raw /\ mappings' = mappings /\ x \notin rewound' /\ scan' = scan /\ row[x] \in Row
        /\ row \in [Doc -> Row] /\ renaming.copy \in Row
        /\ life \in [Doc -> {"none", "active", "deleting"}]
    BY DEF RenameRead, RenamePut, storeVars, Calm, Typed, TypeOK
  <1>2. CASE \E y \in Doc : RenameRead(y)
    <2>1. PICK y \in Doc : RenameRead(y)
      BY <1>2
    <2>2. row' = row /\ life' = life /\ life[y] = "active" /\ renaming' = [doc |-> y, copy |-> row[y]]
      BY <2>1 DEF RenameRead, storeVars
    <2>3. renaming'.doc = x => /\ FiledIn(View(x), renaming'.copy) /\ renaming'.copy \in Row
                               /\ life[x] # "none"
      BY <1>1, <2>2 DEF Kept
    <2>4. Writes(x)
      BY <2>2 DEF Writes, SameFile
    <2>5. QED
      BY <1>1, <2>3, <2>4, SideStays
  <1>3. CASE RenamePut
    <2>1. renaming'.doc # x
      BY <1>3, GenerationsAssumption DEF RenamePut, NoRename
    <2>2. Writes(x)
      <3>1. CASE row'[x] = row[x] /\ life'[x] = life[x]
        BY <3>1 DEF Writes, SameFile
      <3>2. CASE upsert(renaming.doc, renaming.copy) /\ renaming.doc = x
        <4>1. FiledIn(View(x), renaming.copy) /\ renaming.copy.active <= row[x].active
          BY <1>3, <3>2 DEF Kept, RenameHolds, Right, RenameBehind, RenamePut
        <4>2. QED
          BY <1>1, <3>2, <4>1 DEF Writes
      <3>3. CASE upsert(renaming.doc, renaming.copy) /\ renaming.doc # x
        BY <1>1, <3>1, <3>3 DEF upsert
      <3>4. QED
        BY <1>3, <3>1, <3>2, <3>3 DEF RenamePut
    <2>3. QED
      BY <1>1, <2>1, <2>2, SideStays
  <1>4. QED
    BY <1>2, <1>3

\* A reconciliation begins: a document without an ingest or a rename has no
\* file that matters but those its row and its mappings name.
LEMMA ScanReadKept ==
    ASSUME Typed, SideStep, NEW x \in Doc, Kept(x), Calm(x)', ScanRead
    PROVE  Kept(x)'
  <1>1. /\ raw' = raw /\ mappings' = mappings /\ row' = row /\ life' = life /\ renaming' = renaming
        /\ pc' = pc /\ job' = job /\ x \notin rewound'
        /\ scan'.refs = [y \in Doc |-> References(y)]
        /\ x \in scan'.busy <=> renaming.doc = x \/ \E o \in Op : Running(o) /\ target(o) = x
    BY DEF ScanRead, storeVars, Calm
  <1>2. CASE x \in scan'.busy
    <2>1. renaming'.doc = x => /\ FiledIn(View(x), renaming'.copy) /\ renaming'.copy \in Row
                               /\ life[x] # "none"
      BY <1>1 DEF Kept, RenameHolds, Typed, TypeOK
    <2>2. Writes(x)
      BY <1>1 DEF Writes, SameFile
    <2>3. QED
      BY <1>1, <1>2, <2>1, <2>2, SideStays
  <1>3. CASE x \notin scan'.busy
    <2>1. renaming.doc # x /\ \A o \in Op : target(o) = x => pc[o] = "idle"
      BY <1>1, <1>3 DEF Running
    <2>2. /\ row[x].raw \in scan'.refs[x] \cup {0}
          /\ \A m \in mappings[x] : m.raw \in scan'.refs[x]
      BY <1>1 DEF References
    <2>3. FiledIn(View(x), row[x])' /\ MappedIn(View(x))'
      BY <1>1, <2>2 DEF Kept, FiledIn, MappedIn, View
    <2>4. \A o \in Op : target(o)' = target(o)
      BY TargetKept DEF SideStep, Next, target
    <2>5. \A o \in Op : target(o) = x => HoldsIn(View(x), pc[o], job[o])'
      BY <1>1, <2>1, HoldsNothing
    <2>6. QED
      BY <1>1, <2>1, <2>3, <2>4, <2>5 DEF Kept, RenameHolds
  <1>4. QED
    BY <1>2, <1>3

\* It goes on: a file that nothing named at its begin is named by nothing now.
LEMMA ScanQuarantineKept ==
    ASSUME Typed, SideStep, NEW x \in Doc, Kept(x), Calm(x)', x \notin swept',
           NEW y \in Doc, NEW v \in Versions, ScanQuarantine(y, v)
    PROVE  Kept(x)'
  <1>. DEFINE R == IF y = x THEN {v} ELSE {}
  <1>1. /\ mappings' = mappings /\ row' = row /\ life' = life /\ renaming' = renaming /\ scan' = scan
        /\ raw' = [raw EXCEPT ![y][v] = NoFile]
    BY DEF ScanQuarantine, storeVars, sideVars
  <1>2. y = x => View(x).unseen /\ v \notin View(x).refs
    BY DEF ScanQuarantine, Orphans, View
  <1>3. \A w \in Versions \ R : raw'[x][w] = raw[x][w]
    BY <1>1 DEF Typed, TypeOK
  <1>4. \A r : FiledIn(View(x), r) /\ r.raw # 0 => r.raw \notin R
    BY <1>2 DEF FiledIn
  <1>5. \A m \in mappings[x] : m.raw \notin R
    BY <1>2 DEF Kept, MappedIn, View
  <1>. HIDE DEF R
  <1>6. Eases(View(x), View(x)', R)
    BY <1>1, <1>3, <1>4, <1>5 DEF Eases, View
  <1>7. FiledIn(View(x), row[x])'
    BY <1>1, <1>6, FiledEases DEF Kept, Typed, TypeOK
  <1>8. RenameHolds(x)'
    BY <1>1, <1>6, RenameEases DEF Kept, Typed
  <1>9. QED
    BY <1>1, <1>6, <1>7, <1>8, BesideKept DEF Kept

\* It ends.
LEMMA ScanDoneKept ==
    ASSUME Typed, SideStep, NEW x \in Doc, Kept(x), Calm(x)', ScanDone
    PROVE  Kept(x)'
  <1>1. /\ raw' = raw /\ mappings' = mappings /\ row' = row /\ life' = life /\ renaming' = renaming
        /\ x \in scan'.busy /\ x \notin rewound'
    BY DEF ScanDone, storeVars, NoScan, Calm
  <1>2. renaming'.doc = x => /\ FiledIn(View(x), renaming'.copy) /\ renaming'.copy \in Row
                             /\ life[x] # "none"
    BY <1>1 DEF Kept, RenameHolds, Typed, TypeOK
  <1>3. QED
    BY <1>1, <1>2, SideStays DEF Writes, SameFile

----------------------------------------------------------------------------
\* Every step keeps the files of the calm documents.

LEMMA ScanTypedStep ==
    ASSUME Typed, ScanTyped, [Next]_vars
    PROVE  ScanTyped'
  <1>1. NoScan \in [refs : [Doc -> SUBSET Versions], busy : SUBSET Doc]
    BY DEF NoScan
  <1>2. ASSUME scan' = scan \/ scan' = NoScan PROVE ScanTyped'
    BY <1>1, <1>2 DEF ScanTyped
  <1>3. ASSUME NEW o \in Op, Ingest(o) PROVE ScanTyped'
    <2>1. CASE StartIngest(o)
      <3>1. target(o) \in Doc
        BY TargetTyped DEF Typed
      <3>2. scan' = scan \/ scan' = [scan EXCEPT !.busy = @ \cup {target(o)}]
        BY <2>1 DEF StartIngest
      <3>3. QED
        BY <3>1, <3>2 DEF ScanTyped
    <2>2. CASE EmbedPut(o) \/ DegradePut(o) \/ RestorePrevious(o) \/ FailDocument(o)
      BY <1>2, <2>2 DEF EmbedPut, DegradePut, RestorePrevious, FailDocument, RowRest, sideVars
    <2>3. CASE \/ BeginIngest(o) \/ WriteRaw(o) \/ StageBegin(o) \/ ClearStagedFlag(o)
               \/ Embed(o) \/ Activate(o) \/ PruneMappings(o) \/ ClearLeftover(o) \/ PutBatch(o)
               \/ ClearStagedData(o) \/ PruneChunks(o) \/ PruneRaw(o)
      BY <1>2, <2>3 DEF BeginIngest, WriteRaw, StageBegin, ClearStagedFlag, Embed, Activate,
                  PruneMappings, ClearLeftover, PutBatch, ClearStagedData, PruneChunks, PruneRaw,
                  sideVars
    <2>4. QED
      BY <1>3, <2>1, <2>2, <2>3 DEF Ingest
  <1>4. ASSUME NEW o \in Op, Delete(o) PROVE ScanTyped'
    BY <1>2, <1>4 DEF Delete, BeginDelete, FenceTree, CleanChunks, CleanMappings, CleanRaw, FenceBase,
           CleanBaseChunks, CleanBaseRaw, sideVars
  <1>5. CASE ScanRead
    <2>1. \A x \in Doc : References(x) \subseteq Versions
      <3>1. ASSUME NEW x \in Doc PROVE References(x) \subseteq Versions
        <4>1. row[x].raw \in Gens /\ \A m \in mappings[x] : m.raw \in Versions
          BY DEF Typed, TypeOK, Row
        <4>2. row[x].raw # 0 => row[x].raw \in Versions
          BY <4>1, BoundsAreNumbers DEF Gens, Versions
        <4>3. QED
          BY <4>1, <4>2 DEF References
      <3>2. QED
        BY <3>1
    <2>2. QED
      BY <1>5, <2>1 DEF ScanRead, ScanTyped
  <1>6. CASE SideStep /\ ~ScanRead
    BY <1>2, <1>6 DEF SideStep, Retry, Crash, RecoverRead, RecoverWrite, RenameRead, RenamePut,
           ScanQuarantine, ScanDone, sideVars
  <1>7. CASE UNCHANGED vars
    BY <1>2, <1>7 DEF vars, sideVars
  <1>8. QED
    BY <1>3, <1>4, <1>5, <1>6, <1>7 DEF Next, SideStep

\* What has not been swept never was.
LEMMA SweptGrows ==
    ASSUME [Next]_vars
    PROVE  swept \subseteq swept'
  <1>1. ASSUME NEW o \in Op, Ingest(o) PROVE swept' = swept
    BY <1>1
    DEF Ingest, BeginIngest, StartIngest, WriteRaw, StageBegin, ClearLeftover, PutBatch,
        ClearStagedData, ClearStagedFlag, EmbedPut, Embed, DegradePut, RestorePrevious, Activate,
        FailDocument, PruneMappings, PruneChunks, PruneRaw, RowRest, ghostVars
  <1>2. ASSUME NEW o \in Op, Delete(o) PROVE swept' = swept
    BY <1>2
    DEF Delete, BeginDelete, FenceTree, CleanChunks, CleanMappings, CleanRaw, FenceBase,
        CleanBaseChunks, CleanBaseRaw, ghostVars
  <1>3. CASE SideStep
    BY <1>3
    DEF SideStep, Retry, Crash, RecoverRead, RecoverWrite, RenameRead, RenamePut, ScanRead,
        ScanQuarantine, ScanDone, ghostVars
  <1>4. CASE UNCHANGED vars
    BY <1>4 DEF vars, ghostVars
  <1>5. QED
    BY <1>1, <1>2, <1>3, <1>4 DEF Next, SideStep

LEMMA KeptStep ==
    ASSUME Typed, LiveScope, CleanInv, CleanersInv, WholeInv, ScanTyped, KeptInv, [Next]_vars
    PROVE  KeptInv'
  <1>. SUFFICES ASSUME NEW x \in Doc, Calm(x)', x \notin swept' PROVE Kept(x)'
    BY DEF KeptInv
  <1>1. Calm(x) /\ Right(x) /\ Kept(x)
    BY CalmBefore, SweptGrows DEF WholeInv, KeptInv
  <1>2. ASSUME NEW o \in Op, Ingest(o) PROVE Kept(x)'
    <2>1. CASE target(o) = x
      <3>1. Here(o, x)
        BY <1>1, <2>1 DEF Here
      <3>2. QED
        BY <1>1, <1>2, <3>1, BeginIngestKept, StartIngestKept, WriteRawKept, FillsKept, PutsKept,
           ActivateKept, PruneKept DEF Ingest
    <2>2. CASE target(o) # x
      BY <1>1, <1>2, <2>2, ElsewhereKept
    <2>3. QED
      BY <2>1, <2>2
  <1>3. ASSUME NEW o \in Op, Delete(o) PROVE Kept(x)'
    BY <1>1, <1>3, DeleteKeeps
  <1>4. CASE SideStep
    <2>1. CASE \E y \in Doc, v \in Versions : ScanQuarantine(y, v)
      BY <1>1, <1>4, <2>1, ScanQuarantineKept
    <2>2. QED
      BY <1>1, <1>4, <2>1, RecoveryKept, RenameKept, ScanReadKept, ScanDoneKept DEF SideStep
  <1>5. CASE UNCHANGED vars
    <2>1. /\ Eases(View(x), View(x)', {}) /\ FiledIn(View(x), row[x])' /\ RenameHolds(x)'
          /\ life'[x] = "none" => row'[x].raw = 0
          /\ pc' = pc /\ job' = job
      BY <1>1, <1>5 DEF vars, storeVars, sideVars, Eases, View, Kept, RenameHolds
    <2>2. QED
      BY <1>1, <2>1, KeptEases
  <1>6. QED
    BY <1>2, <1>3, <1>4, <1>5 DEF Next, SideStep

\* The published documents of Init have their files.
LEMMA InitKept == Init => KeptInv /\ ScanTyped
  <1>. SUFFICES ASSUME Init PROVE KeptInv /\ ScanTyped
    OBVIOUS
  <1>1. scan = NoScan /\ renaming = NoRename /\ pc = [o \in Op |-> "idle"]
    BY DEF Init
  <1>2. ScanTyped
    BY <1>1 DEF ScanTyped, NoScan
  <1>3. ASSUME NEW x \in Doc PROVE Kept(x)
    <2>. DEFINE m == [gen |-> 1, sv |-> 1, raw |-> 1, of |-> FirstContent]
    <2>1. PICK present \in Existing[command] \cap SUBSET {y \in Doc : Leaf(y)} :
            /\ life = [y \in Doc |-> IF Leaf(y) /\ y \notin present THEN "none" ELSE "active"]
            /\ row = [y \in Doc |-> IF y \in present THEN PublishedRow
                        ELSE IF Leaf(y) THEN NewRow ELSE DirectoryRow]
            /\ mappings = [y \in Doc |-> IF y \notin present THEN {} ELSE {m}]
            /\ raw = [y \in Doc |-> [v \in Versions |->
                         IF y \in present /\ v = 1 THEN FirstContent ELSE NoFile]]
      BY DEF Init
    <2>2. x \in scan.busy /\ renaming.doc # x
      BY <1>1, GenerationsAssumption DEF NoScan, NoRename
    <2>3. RenameHolds(x) /\ \A o \in Op : target(o) = x => HoldsIn(View(x), pc[o], job[o])
      BY <1>1, <2>2, HoldsNothing DEF RenameHolds
    <2>4. ~View(x).unseen
      BY <2>2 DEF View
    <2>5. 1 \in Versions /\ FirstContent # NoFile
      BY FirstContentTyped, GenerationsAssumption, BoundsAreNumbers DEF Versions
    <2>6. m.gen = 1 /\ m.raw = 1 /\ m.of = FirstContent
      OBVIOUS
    <2>. HIDE DEF m
    <2>7. CASE x \in present
      <3>1. /\ row[x].active = 1 /\ row[x].raw = 1 /\ row[x].sv = 1 /\ life[x] = "active"
            /\ mappings[x] = {m} /\ raw[x][1] = FirstContent
        BY <2>1, <2>5, <2>7 DEF PublishedRow
      <3>2. FiledIn(View(x), row[x])
        BY <2>4, <2>5, <2>6, <3>1 DEF FiledIn, View
      <3>3. MappedIn(View(x))
        BY <2>4, <2>6, <3>1 DEF MappedIn, View
      <3>4. QED
        BY <2>3, <3>1, <3>2, <3>3 DEF Kept
    <2>8. CASE x \notin present
      <3>1. row[x].raw = 0 /\ mappings[x] = {}
        BY <2>1, <2>8 DEF NewRow, DirectoryRow
      <3>2. FiledIn(View(x), row[x]) /\ MappedIn(View(x))
        BY <2>4, <3>1 DEF FiledIn, MappedIn, View
      <3>3. QED
        BY <2>3, <3>1, <3>2 DEF Kept
    <2>9. QED
      BY <2>7, <2>8
  <1>4. QED
    BY <1>2, <1>3 DEF KeptInv

\* The bytes a published generation was made from stay at their path, and the
\* path of the row stays a file, for every document that no second ingest, no
\* write of an older row and no reconciliation beside a writer came in between:
\* whatever is retired, deleted, refused, replayed or recovered. A new path is
\* above all those that were published, and retirement goes below the active one.
THEOREM SourcesAreKept == Spec => []SourceKept
  <1>. DEFINE Inv == /\ Typed /\ CleanInv /\ LiveScope /\ WholeInv /\ CleanersInv
                     /\ ScanTyped /\ KeptInv
  <1>1. Init => Inv
    <2>. SUFFICES ASSUME Init PROVE CleanInv
      BY InitTyped, InitScope, InitWhole, InitKept
    <2>1. committed = {} /\ opState = [o \in Op |-> "queued"] /\ pc = [o \in Op |-> "idle"]
      BY DEF Init
    <2>2. QED
      BY <2>1 DEF CleanInv, DeleteInv, BaseInv, CleanPcs
  <1>2. Inv /\ [Next]_vars => Inv'
    <2>. SUFFICES ASSUME Inv, [Next]_vars PROVE Inv'
      OBVIOUS
    <2>1. Typed'
      BY StepTypedNext
    <2>2. CleanInv'
      BY DeleteInvStep, BaseInvStep DEF CleanInv
    <2>3. LiveScope'
      BY LiveScopeStep DEF Typed
    <2>4. WholeInv'
      BY WholeStep
    <2>5. CleanersInv'
      BY CleansStep DEF CleanersInv
    <2>6. ScanTyped'
      BY ScanTypedStep
    <2>7. KeptInv'
      BY KeptStep
    <2>8. QED
      BY <2>1, <2>2, <2>3, <2>4, <2>5, <2>6, <2>7
  <1>3. Inv => SourceKept
    <2>. SUFFICES ASSUME Inv, NEW x \in Live \ (overlapped \cup rewound \cup swept)
                  PROVE  /\ \A m \in mappings[x] : m.gen = row[x].active => raw[x][m.raw] = m.of
                         /\ row[x].raw # 0 => raw[x][row[x].raw] # NoFile
      BY DEF SourceKept
    <2>1. FiledIn(View(x), row[x]) /\ MappedIn(View(x))
      BY DEF KeptInv, Calm, Live, Kept
    <2>2. QED
      BY <2>1 DEF FiledIn, MappedIn, View
  <1>4. QED
    BY <1>1, <1>2, <1>3, PTL DEF Spec
=============================================================================
