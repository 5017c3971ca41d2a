------------------------- MODULE DocumentGenerations -------------------------
(***************************************************************************)
(* How internal/knowledge publishes documents. An ingest writes the raw     *)
(* bytes, stages the chunks of generation active + 1 batch by batch, and    *)
(* activates the generation together with the item marker of its command.   *)
(* A delete first turns the lifecycle of a tree, then removes the data.     *)
(* The documents table, the chunks and the raw files are three stores; the  *)
(* row of a document is written whole, from a copy the handler read before. *)
(*                                                                          *)
(* Commands come from OperationQueue, of which only this is kept: a command *)
(* runs on one worker, a crash or an unanswered write queues it again, and  *)
(* every other error fails it. mutation_epoch is left out: only a delete    *)
(* raises it, together with the lifecycle that the same fence tests.        *)
(***************************************************************************)
EXTENDS Integers, FiniteSets

CONSTANTS
    Op,             \* commands
    Doc,            \* documents of one base, directory containers included
    Parent,         \* [Doc -> Doc \cup {NoDoc}]
    Lineage,        \* [Doc -> SUBSET Doc]: the directories above a document, and itself
    NoDoc, NoOp,
    Commands,       \* the assignments of commands to operations to start from
    Existing,       \* the files that may have been published before, for each of Commands
    Content,        \* what a source file may hold
    NoFile,         \* no file at a path
    SourceOf,       \* [Op -> Content]: the bytes an import brings
    Batches,        \* chunk batches of a generation
    Embeds,         \* whether the base has an embedding provider
    MaxGen,         \* bound: index generations and source versions of a document
    MaxEvents       \* bound: crashes, unanswered writes, parse and provider
                    \* failures, renames and maintenance scans, all together

ASSUME GenerationsAssumption ==
    /\ NoDoc \notin Doc /\ NoOp \notin Op /\ NoFile \notin Content
    /\ Parent \in [Doc -> Doc \cup {NoDoc}] /\ Lineage \in [Doc -> SUBSET Doc]
    /\ \A x \in Doc :
        Lineage[x] = {x} \cup (IF Parent[x] = NoDoc THEN {} ELSE Lineage[Parent[x]])
    /\ \A x \in Doc : \A y \in Lineage[x] : Lineage[y] \subseteq Lineage[x]
    /\ Commands \subseteq [Op -> [kind : {"import", "reindex", "delete", "batchDelete", "deleteBase"},
                               doc : Doc]]
    /\ \A c \in Commands : Existing[c] \subseteq SUBSET Doc
    /\ Content # {} /\ SourceOf \in [Op -> Content]
    /\ Batches \in Nat \ {0} /\ Embeds \in BOOLEAN
    /\ MaxGen \in Nat \ {0} /\ MaxEvents \in Nat

VARIABLES
    \* the database
    baseLife,       \* lifecycle_state of the base
    life,           \* lifecycle_state of each document, "none" without a row
    row,            \* the columns of a document that publication depends on
    chunks,         \* chunks of a document: generation, batch and their source
    vectors,        \* generations whose chunks have vectors
    mappings,       \* document_generations of a document
    committed,      \* operations whose item marker is committed
    opState,        \* state of the command; a running one has a worker
    \* the raw store
    raw,            \* bytes at the path of each source version
    \* the process
    pc, job,        \* the worker of each operation
    stageMu,        \* store.stageMu
    recovery,       \* the startup pass over interrupted documents
    renaming,       \* a rename between its read and its write
    scan,           \* references a reconciliation read, or none
    \* history
    command,        \* what each operation is for
    published,      \* generations each operation activated
    overlapped,     \* documents two ingests worked on at the same time
    rewound,        \* documents a whole-row write gave an older generation
    degraded,       \* documents made ready without vectors
    swept,          \* documents a reconciliation took a raw file from
    events

storeVars == <<baseLife, life, row, chunks, vectors, mappings, committed>>
ghostVars == <<command, published, overlapped, rewound, degraded, swept>>
sideVars  == <<recovery, renaming, scan>>
vars == <<storeVars, opState, raw, pc, job, stageMu, sideVars, ghostVars, events>>

Gens     == 0 .. MaxGen
Versions == 1 .. MaxGen
Ingests  == {"import", "reindex"}
Kinds    == Ingests \cup {"delete", "batchDelete", "deleteBase"}
Row == [active : Gens, desired : Gens, building : BOOLEAN, sv : Gens, raw : Gens,
        of : Content \cup {NoFile}, status : {"pending", "processing", "ready", "failed"}]
NewRow == [active |-> 0, desired |-> 0, building |-> FALSE, sv |-> 0, raw |-> 0,
           of |-> NoFile, status |-> "pending"]
Job == [copy : Row, prev : Row, vectored : BOOLEAN, gen : Gens, of : Content \cup {NoFile},
        next : 1 .. Batches, unknown : BOOLEAN, todo : SUBSET Doc, paths : SUBSET Versions]
NoRename == [doc |-> NoDoc, copy |-> NewRow]
NoScan == [refs |-> [x \in Doc |-> {}], busy |-> Doc]
IngestJob(r, bytes, vectored) ==
    [copy |-> r, prev |-> r, vectored |-> vectored, gen |-> 0, of |-> bytes, next |-> 1,
     unknown |-> FALSE, todo |-> {}, paths |-> {}]
NoJob == IngestJob(NewRow, NoFile, FALSE)

\* A writer transaction commits or not; an unanswered one may have done either.
Answers == {"ok"} \cup (IF events < MaxEvents THEN {"committed", "lost"} ELSE {})
Unanswered(a) == a # "ok"
Commits(a) == a # "lost"
Count(a) == events' = IF a = "ok" THEN events ELSE events + 1
Event == events < MaxEvents /\ events' = events + 1

----------------------------------------------------------------------------
\* Rows, their scope and their generations.

\* A document and what is below it.
Tree(x) == {y \in Doc : x \in Lineage[y]}

target(o) == command[o].doc

\* fenceDocumentScope: the base and the whole parent chain are active.
ScopeActiveBase(x) == baseLife = "active" \* mutant
ScopeActive(x) == baseLife = "active" /\ \A y \in Lineage[x] \ {x} : life[y] = "active"

\* The predicate of the upsert: a new row, or one that is still active.
WritableAnyRow(x) == ScopeActive(x) \* mutant
Writable(x) == ScopeActive(x) /\ life[x] \in {"none", "active"}

\* documentFenceTx
Fenced(x) == baseLife = "active" /\ \A y \in Lineage[x] : life[y] = "active"

\* upsertDocument writes source version 1 for a row that has none.
Stored(r) == [r EXCEPT !.sv = IF r.sv = 0 THEN 1 ELSE r.sv]

upsert(x, r) ==
    /\ Writable(x)
    /\ life' = [life EXCEPT ![x] = "active"]
    /\ row' = [row EXCEPT ![x] = Stored(r)]
    /\ rewound' = IF r.active < row[x].active THEN rewound \cup {x} ELSE rewound

\* The row while generation g is built, and when that was given up.
Build(r, g) == [r EXCEPT !.desired = g, !.building = TRUE]
GiveUp(r) == [r EXCEPT !.desired = 0, !.building = FALSE]

ChunksOf(x, g) == {c \in chunks[x] : c.gen = g}
Building(x, g) == row[x].desired = g /\ row[x].building

\* Generations the retention no longer protects once g is active.
RetiredThrough(g) == 0 .. g \* mutant
Retired(g) == 0 .. g - 1

----------------------------------------------------------------------------
\* The worker of a command.

Running(o) == pc[o] # "idle"
Goto(o, l) == pc' = [pc EXCEPT ![o] = l]
SetJob(o, j) == job' = [job EXCEPT ![o] = j]

\* The executor returns: the row of the command is final, or queued again.
Finish(o, s) ==
    /\ Goto(o, "idle") /\ SetJob(o, NoJob)
    /\ opState' = [opState EXCEPT ![o] = s]

\* Another ingest of the document that has begun and not yet activated.
Working(o) == pc[o] \in {"raw", "stage", "clear", "batch", "clearData", "clearFlag",
                         "embedPut", "embed", "degrade", "restore", "activate", "fail"}

\* operationItemResolved
ResolvedNever(o) == FALSE \* mutant
Resolved(o) == o \in committed

\* The marker commits in the transaction of its effect.
Marked(o) == committed \cup {o}

\* An import that finds its document ready has nothing to do.
ImportedAnyStatus(x) == life[x] = "active" \* mutant
Imported(x) == life[x] = "active" /\ row[x].status = "ready"

\* import_file and reindex_document read the marker, the row and the source.
\* Nobody but the command itself writes its marker.
BeginIngest(o) ==
    LET x == target(o)
        found == life[x] = "active"
        copy == IF found THEN row[x] ELSE NewRow
        bytes == IF command[o].kind = "import" THEN SourceOf[o]
                 ELSE IF row[x].raw = 0 THEN NoFile ELSE raw[x][row[x].raw]
    IN
    /\ command[o].kind \in Ingests
    /\ opState[o] = "queued" /\ ~Running(o)
    /\ \/ /\ Resolved(o) \/ (command[o].kind = "import" /\ Imported(x))
          /\ Finish(o, "succeeded")
       \/ /\ ~Resolved(o)
          /\ IF command[o].kind = "import" THEN baseLife # "active"
                                           ELSE ~found \/ bytes = NoFile
          /\ Finish(o, "failed")
       \/ /\ ~Resolved(o)
          /\ IF command[o].kind = "import"
             THEN baseLife = "active" /\ ~Imported(x)
             ELSE found /\ bytes # NoFile
          /\ Goto(o, "start")
          /\ SetJob(o, IngestJob(copy, bytes, copy.active \in vectors[x]))
          /\ UNCHANGED opState
    /\ UNCHANGED <<storeVars, raw, stageMu, sideVars, ghostVars, events>>

\* startDocumentIngestContext
StartIngest(o) ==
    LET x == target(o)
        copy == [job[o].copy EXCEPT !.status = "processing"]
    IN
    /\ pc[o] = "start"
    /\ IF ~Writable(x)
       THEN Finish(o, "failed") /\ UNCHANGED <<life, row, rewound, overlapped, events>>
       ELSE \E a \in Answers :
            /\ Count(a)
            /\ IF Commits(a) THEN upsert(x, copy) ELSE UNCHANGED <<life, row, rewound>>
            /\ IF Unanswered(a)
               THEN Finish(o, "queued") /\ UNCHANGED overlapped
               ELSE /\ Goto(o, "raw") /\ UNCHANGED opState
                    /\ SetJob(o, [job[o] EXCEPT !.copy = copy])
                    /\ overlapped' = IF \E p \in Op \ {o} : Working(p) /\ target(p) = x
                                     THEN overlapped \cup {x} ELSE overlapped
    /\ scan' = IF scan = NoScan THEN scan ELSE [scan EXCEPT !.busy = @ \cup {x}]
    /\ UNCHANGED <<baseLife, chunks, vectors, mappings, committed, raw, stageMu, recovery,
                   renaming, command, published, degraded, swept>>

\* The version whose path the raw bytes are written to.
NextVersionShared(r) == IF r.sv = 0 THEN 1 ELSE r.sv \* mutant
NextVersion(r) == r.sv + 1

Sourced(r, v, bytes) == [r EXCEPT !.raw = v, !.of = bytes]

\* RawFileStore.WriteVersion publishes the bytes by a rename; no row knows yet.
WriteRaw(o) ==
    LET x == target(o)
        v == NextVersion(job[o].copy)
    IN
    /\ pc[o] = "raw" /\ v <= MaxGen
    /\ raw' = [raw EXCEPT ![x][v] = job[o].of]
    /\ \/ Goto(o, "stage") /\ UNCHANGED events
       \/ Goto(o, "fail") /\ Event                 \* the parser finds no text
    /\ SetJob(o, [job[o] EXCEPT !.copy = Sourced(@, v, job[o].of)])
    /\ UNCHANGED <<storeVars, opState, stageMu, sideVars, ghostVars>>

----------------------------------------------------------------------------
\* putChunksReplace, under stageMu.

\* A failure that failDocument still has to record in the row.
GotoFail(o, unknown) ==
    /\ Goto(o, "fail")
    /\ job' = [job EXCEPT ![o].unknown = unknown]

NextGen(x) == row[x].active + 1

\* The row names the generation that is being built.
StageBegin(o) ==
    LET x == target(o)
        refused == \/ ~Fenced(x)
                   \/ row[x].building /\ row[x].desired <= row[x].active
        gen == NextGen(x)
    IN
    /\ pc[o] = "stage" /\ stageMu = NoOp /\ gen <= MaxGen
    /\ IF refused
       THEN GotoFail(o, FALSE) /\ UNCHANGED <<row, stageMu, events>>
       ELSE \E a \in Answers :
            /\ Count(a)
            /\ row' = IF Commits(a) THEN [row EXCEPT ![x] = Build(row[x], gen)] ELSE row
            /\ IF Unanswered(a)
               THEN GotoFail(o, TRUE) /\ UNCHANGED stageMu
               ELSE /\ Goto(o, "clear") /\ stageMu' = o
                    /\ SetJob(o, [job[o] EXCEPT !.gen = gen])
    /\ UNCHANGED <<baseLife, life, chunks, vectors, mappings, committed, opState, raw,
                   sideVars, ghostVars>>

\* What an earlier attempt left behind: every generation above the active one.
Leftover(x, g) == {c \in chunks[x] : c.gen >= g}

\* clearStagedGenerationsAfter, unfenced
ClearLeftover(o) ==
    LET x == target(o) IN
    /\ pc[o] = "clear"
    /\ chunks' = [chunks EXCEPT ![x] = @ \ Leftover(x, job[o].gen)]
    /\ vectors' = [vectors EXCEPT ![x] = {g \in @ : g < job[o].gen}]
    /\ Goto(o, "batch")
    /\ UNCHANGED <<baseLife, life, row, mappings, committed, opState, raw, job, stageMu,
                   sideVars, ghostVars, events>>

\* A batch goes in while the row is building this generation and is not fenced.
Accepts(x, g, b) ==
    /\ Fenced(x) /\ Building(x, g)
    /\ ~\E c \in chunks[x] : c.gen = g /\ c.batch = b

PutBatch(o) ==
    LET x == target(o)
        b == job[o].next
    IN
    /\ pc[o] = "batch"
    /\ IF ~Accepts(x, job[o].gen, b)
       THEN Goto(o, "clearData") /\ UNCHANGED <<chunks, job, stageMu, events>>
       ELSE \E a \in Answers :
            /\ Count(a)
            /\ chunks' = IF Commits(a)
                         THEN [chunks EXCEPT ![x] = @ \cup
                                  {[gen |-> job[o].gen, batch |-> b, of |-> job[o].of]}]
                         ELSE chunks
            /\ IF Unanswered(a)
               THEN GotoFail(o, TRUE) /\ stageMu' = NoOp
               ELSE IF b < Batches
                    THEN SetJob(o, [job[o] EXCEPT !.next = b + 1]) /\ UNCHANGED <<pc, stageMu>>
                    ELSE /\ SetJob(o, [job[o] EXCEPT !.copy = Build(@, job[o].gen)])
                         /\ Goto(o, IF Embeds THEN "embedPut" ELSE "activate")
                         /\ stageMu' = NoOp
    /\ UNCHANGED <<baseLife, life, row, vectors, mappings, committed, opState, raw,
                   sideVars, ghostVars>>

\* clearStagedGeneration: the data first, without any fence, then the row.
ClearStagedData(o) ==
    LET x == target(o) IN
    /\ pc[o] = "clearData"
    /\ chunks' = [chunks EXCEPT ![x] = @ \ ChunksOf(x, job[o].gen)]
    /\ vectors' = [vectors EXCEPT ![x] = @ \ {job[o].gen}]
    /\ Goto(o, "clearFlag")
    /\ UNCHANGED <<baseLife, life, row, mappings, committed, opState, raw, job, stageMu,
                   sideVars, ghostVars, events>>

ClearStagedFlag(o) ==
    LET x == target(o) IN
    /\ pc[o] = "clearFlag"
    /\ row' = IF life[x] = "active" /\ row[x].desired = job[o].gen
              THEN [row EXCEPT ![x] = GiveUp(row[x])] ELSE row
    /\ stageMu' = NoOp
    /\ GotoFail(o, FALSE)
    /\ UNCHANGED <<baseLife, life, chunks, vectors, mappings, committed, opState, raw,
                   sideVars, ghostVars, events>>

----------------------------------------------------------------------------
\* Vectors, activation and the end of an ingest.

\* A whole-row write on the way: a refused one ends the ingest.
PutRow(o, r, next) ==
    LET x == target(o) IN
    IF Writable(x)
    THEN upsert(x, r) /\ SetJob(o, [job[o] EXCEPT !.copy = r]) /\ Goto(o, next)
         /\ UNCHANGED opState
    ELSE Finish(o, "failed") /\ UNCHANGED <<life, row, rewound>>

RowRest == <<baseLife, chunks, vectors, mappings, committed, raw, stageMu, sideVars,
             command, published, overlapped, swept, events>>

EmbedPut(o) ==
    /\ pc[o] = "embedPut"
    /\ PutRow(o, [job[o].copy EXCEPT !.status = "processing"], "embed")
    /\ UNCHANGED <<RowRest, degraded>>

\* embedChunks: the vectors are written by chunk id, whatever the row says.
Embed(o) ==
    LET x == target(o) IN
    /\ pc[o] = "embed"
    /\ \/ /\ vectors' = IF ChunksOf(x, job[o].gen) = {} THEN vectors
                        ELSE [vectors EXCEPT ![x] = @ \cup {job[o].gen}]
          /\ Goto(o, "activate") /\ UNCHANGED events
       \/ Goto(o, "degrade") /\ Event /\ UNCHANGED vectors
    /\ UNCHANGED <<baseLife, life, row, chunks, mappings, committed, opState, raw, job,
                   stageMu, sideVars, ghostVars>>

\* Without vectors the document stays lexical, unless vectors were published.
DegradePut(o) ==
    /\ pc[o] = "degrade"
    /\ PutRow(o, [job[o].copy EXCEPT !.status = "ready"],
              IF job[o].vectored THEN "restore" ELSE "activate")
    /\ degraded' = degraded \cup {target(o)}
    /\ UNCHANGED RowRest

\* The copy taken before the ingest is put back; nothing is activated.
Previous(r) == [r EXCEPT !.status = "ready"]
RestorePrevious(o) ==
    LET x == target(o) IN
    /\ pc[o] = "restore"
    /\ IF Writable(x)
       THEN upsert(x, Previous(job[o].prev)) /\ Finish(o, "succeeded")
       ELSE Finish(o, "failed") /\ UNCHANGED <<life, row, rewound>>
    /\ UNCHANGED <<RowRest, degraded>>

Raised(r) == [r EXCEPT !.sv = r.sv + 1, !.status = "ready"]

\* What activation writes over the row, from the worker's copy.
Activated(o) == [job[o].copy EXCEPT !.active = job[o].gen, !.desired = job[o].gen,
                                    !.building = FALSE, !.status = "ready",
                                    !.sv = job[o].copy.sv + 1]
MappingOfPrevious(o) == [gen |-> job[o].gen, sv |-> job[o].copy.sv + 1, raw |-> job[o].prev.raw,
                         of |-> job[o].copy.of] \* mutant
Mapping(o) == [gen |-> job[o].gen, sv |-> job[o].copy.sv + 1, raw |-> job[o].copy.raw,
               of |-> job[o].copy.of]

\* activateDocumentGeneration: the fence, the row, the mapping and the marker
\* in one transaction. SourceVersion is raised in the copy whatever it answers.
Activate(o) ==
    LET x == target(o)
        raised == Raised(job[o].copy)
    IN
    /\ pc[o] = "activate"
    /\ IF ~(Fenced(x) /\ job[o].gen = NextGen(x))
       THEN /\ Goto(o, "fail") /\ SetJob(o, [job[o] EXCEPT !.copy = raised])
            /\ UNCHANGED <<life, row, mappings, committed, published, rewound, events>>
       ELSE \E a \in Answers :
            /\ Count(a)
            /\ IF Commits(a)
               THEN /\ upsert(x, Activated(o))
                    /\ mappings' = [mappings EXCEPT ![x] =
                           {m \in @ : m.gen # job[o].gen} \cup {Mapping(o)}]
                    /\ committed' = Marked(o)
                    /\ published' = [published EXCEPT ![o] = @ + 1]
               ELSE UNCHANGED <<life, row, mappings, committed, published, rewound>>
            /\ IF Unanswered(a)
               THEN Goto(o, "fail") /\ SetJob(o, [job[o] EXCEPT !.copy = raised, !.unknown = TRUE])
               ELSE Goto(o, "prune") /\ UNCHANGED job
    /\ UNCHANGED <<baseLife, chunks, vectors, opState, raw, stageMu, sideVars, command,
                   overlapped, degraded, swept>>

\* failDocument writes the worker's copy, which may be older than the row.
\* Only an unanswered write is worth another attempt of the command.
Failed(r) == [r EXCEPT !.status = "failed"]
FailDocument(o) ==
    LET x == target(o) IN
    /\ pc[o] = "fail"
    /\ IF Writable(x) THEN upsert(x, Failed(job[o].copy)) ELSE UNCHANGED <<life, row, rewound>>
    /\ Finish(o, IF job[o].unknown /\ Writable(x) THEN "queued" ELSE "failed")
    /\ UNCHANGED <<RowRest, degraded>>

\* pruneRetiredGenerations: the mappings that are past the retention go first,
\* then the chunks, then the raw files. The retention counts from the
\* publication of a generation, so a retired one may be past it at once.
PruneMappings(o) ==
    LET x == target(o)
        old == {m \in mappings[x] : m.gen \in Retired(job[o].gen)}
    IN
    /\ pc[o] = "prune"
    /\ \/ /\ old # {}
          /\ mappings' = [mappings EXCEPT ![x] = @ \ old]
          /\ SetJob(o, [job[o] EXCEPT !.paths = {m.raw : m \in old}])
          /\ Goto(o, "pruneChunks") /\ UNCHANGED opState
       \/ Finish(o, "succeeded") /\ UNCHANGED mappings      \* still retained
    /\ UNCHANGED <<baseLife, life, row, chunks, vectors, committed, raw, stageMu,
                   sideVars, ghostVars, events>>

PruneChunks(o) ==
    LET x == target(o) IN
    /\ pc[o] = "pruneChunks"
    /\ chunks' = [chunks EXCEPT ![x] = {c \in @ : c.gen \notin Retired(job[o].gen)}]
    /\ vectors' = [vectors EXCEPT ![x] = @ \ Retired(job[o].gen)]
    /\ Goto(o, "pruneRaw")
    /\ UNCHANGED <<baseLife, life, row, mappings, committed, opState, raw, job, stageMu,
                   sideVars, ghostVars, events>>

Without(x, paths) == [raw EXCEPT ![x] = [v \in Versions |->
                                            IF v \in paths THEN NoFile ELSE raw[x][v]]]

PruneRaw(o) ==
    /\ pc[o] = "pruneRaw"
    /\ raw' = Without(target(o), job[o].paths)
    /\ Finish(o, "succeeded")
    /\ UNCHANGED <<storeVars, stageMu, sideVars, ghostVars, events>>

----------------------------------------------------------------------------
\* Deletes: the fence first, then the data of every document below it.

\* A committed marker stands for the fence only, so the replay of delete_document
\* and delete_base goes on with the cleanup; that of delete_documents does not.
ReplaysNever(o) == FALSE \* mutant
Replays(o) == command[o].kind # "batchDelete"

BeginDelete(o) ==
    LET x == target(o) IN
    /\ command[o].kind \in {"delete", "batchDelete"}
    /\ opState[o] = "queued" /\ ~Running(o)
    /\ IF Resolved(o)
       THEN IF Replays(o) /\ life[x] = "deleting"
            THEN /\ Goto(o, "cleanChunks") /\ SetJob(o, [NoJob EXCEPT !.todo = Tree(x)])
                 /\ UNCHANGED opState
            ELSE Finish(o, "succeeded")
       ELSE \/ life[x] = "active" /\ Goto(o, "fence") /\ UNCHANGED <<opState, job>>
            \/ /\ life[x] = "deleting"
               /\ Goto(o, "cleanChunks") /\ SetJob(o, [NoJob EXCEPT !.todo = Tree(x)])
               /\ UNCHANGED opState
            \/ /\ life[x] = "none"
               /\ Finish(o, IF command[o].kind = "delete" THEN "failed" ELSE "succeeded")
    /\ UNCHANGED <<storeVars, raw, stageMu, sideVars, ghostVars, events>>

\* markDocumentTreeDeleting, with the marker of the command
FenceTree(o) ==
    LET x == target(o) IN
    /\ pc[o] = "fence" /\ command[o].kind \in {"delete", "batchDelete"}
    /\ IF life[x] # "active"
       THEN Finish(o, "failed") /\ UNCHANGED <<life, committed, events>>
       ELSE \E a \in Answers :
            /\ Count(a)
            /\ life' = IF Commits(a)
                       THEN [y \in Doc |-> IF y \in Tree(x) /\ life[y] # "none"
                                           THEN "deleting" ELSE life[y]]
                       ELSE life
            /\ committed' = IF Commits(a) THEN Marked(o) ELSE committed
            /\ IF Unanswered(a)
               THEN Finish(o, IF command[o].kind = "delete" THEN "queued" ELSE "failed")
               ELSE /\ Goto(o, "cleanChunks") /\ SetJob(o, [NoJob EXCEPT !.todo = Tree(x)])
                    /\ UNCHANGED opState
    /\ UNCHANGED <<baseLife, row, chunks, vectors, mappings, raw, stageMu, sideVars,
                   ghostVars>>

Current(o) == CHOOSE x \in job[o].todo : TRUE

\* deleteDocumentGenerations: all chunks of a document, then its mappings.
CleanChunks(o) ==
    /\ pc[o] = "cleanChunks"
    /\ IF job[o].todo = {}
       THEN /\ Finish(o, "succeeded") /\ UNCHANGED <<chunks, vectors>>
            /\ committed' = IF command[o].kind = "batchDelete" THEN Marked(o) ELSE committed
       ELSE LET x == Current(o) IN
            /\ chunks' = [chunks EXCEPT ![x] = {}]
            /\ vectors' = [vectors EXCEPT ![x] = {}]
            /\ Goto(o, "cleanMappings")
            /\ UNCHANGED <<opState, job, committed>>
    /\ UNCHANGED <<baseLife, life, row, mappings, raw, stageMu, sideVars, ghostVars, events>>

CleanMappings(o) ==
    LET x == Current(o) IN
    /\ pc[o] = "cleanMappings"
    /\ SetJob(o, [job[o] EXCEPT !.paths = {m.raw : m \in mappings[x]} \cup ({row[x].raw} \ {0})])
    /\ mappings' = [mappings EXCEPT ![x] = {}]
    /\ Goto(o, "cleanRaw")
    /\ UNCHANGED <<baseLife, life, row, chunks, vectors, committed, opState, raw, stageMu,
                   sideVars, ghostVars, events>>

CleanRaw(o) ==
    LET x == Current(o) IN
    /\ pc[o] = "cleanRaw"
    /\ raw' = Without(x, job[o].paths)
    /\ SetJob(o, [job[o] EXCEPT !.todo = @ \ {x}, !.paths = {}])
    /\ Goto(o, "cleanChunks")
    /\ UNCHANGED <<storeVars, opState, stageMu, sideVars, ghostVars, events>>

BaseDeleting(s) == [x \in Doc |-> IF life[x] = "active" THEN s ELSE life[x]]

\* delete_base: markBaseDeleting with the marker, or a cleanup that is resumed.
FenceBase(o) ==
    /\ command[o].kind = "deleteBase"
    /\ opState[o] = "queued" /\ ~Running(o)
    /\ IF baseLife = "deleting"
       THEN Goto(o, "cleanBase") /\ UNCHANGED <<baseLife, life, committed, opState, job, events>>
       ELSE \E a \in Answers :
            /\ Count(a)
            /\ IF Commits(a)
               THEN /\ baseLife' = "deleting"
                    /\ life' = BaseDeleting("deleting")
                    /\ committed' = Marked(o)
               ELSE UNCHANGED <<baseLife, life, committed>>
            /\ IF Unanswered(a) THEN Finish(o, "queued")
               ELSE Goto(o, "cleanBase") /\ UNCHANGED <<opState, job>>
    /\ UNCHANGED <<row, chunks, vectors, mappings, raw, stageMu, sideVars, ghostVars>>

\* The active generation of every document, then every chunk of the base. The
\* mappings stay; reconciliation goes on counting their files as referenced.
CleanBaseChunks(o) ==
    /\ pc[o] = "cleanBase"
    /\ chunks' = [x \in Doc |-> {}]
    /\ vectors' = [x \in Doc |-> {}]
    /\ Goto(o, "cleanBaseRaw")
    /\ UNCHANGED <<baseLife, life, row, mappings, committed, opState, raw, job, stageMu,
                   sideVars, ghostVars, events>>

\* RawFileStore.DeleteBase, then the marker once more
CleanBaseRaw(o) ==
    /\ pc[o] = "cleanBaseRaw"
    /\ raw' = [x \in Doc |-> [v \in Versions |-> NoFile]]
    /\ committed' = Marked(o)
    /\ Finish(o, "succeeded")
    /\ UNCHANGED <<baseLife, life, row, chunks, vectors, mappings, stageMu, sideVars,
                   ghostVars, events>>

----------------------------------------------------------------------------
\* Commands that run again, a restart, and what runs beside the workers.

\* The command of a failed operation is queued by hand.
Retry(o) ==
    /\ opState[o] = "failed" /\ Event
    /\ opState' = [opState EXCEPT ![o] = "queued"]
    /\ UNCHANGED <<storeVars, raw, pc, job, stageMu, sideVars, ghostVars>>

\* The process dies; the next one starts its workers and only then the pass
\* over the documents that were being ingested.
Crash ==
    /\ Event
    /\ pc' = [o \in Op |-> "idle"] /\ job' = [o \in Op |-> NoJob]
    /\ stageMu' = NoOp /\ renaming' = NoRename /\ scan' = NoScan
    /\ recovery' = [step |-> "resumeRead", ids |-> {}]
    /\ UNCHANGED <<storeVars, opState, raw, ghostVars>>

RecoverySteps == {"resumeRead", "resumeWrite", "failRead", "failWrite", "off"}
AfterStep == [resumeRead |-> "resumeWrite", resumeWrite |-> "failRead",
              failRead |-> "failWrite", failWrite |-> "off"]

Interrupted(x, withSource) ==
    /\ life[x] # "none" /\ row[x].status \in {"pending", "processing"}
    /\ withSource = (row[x].raw # 0)

\* recoverDocumentRows selects ids and updates them in a later transaction;
\* the update has no condition but the id. Without an id there is no update.
RecoverRead ==
    LET ids == {x \in Doc : Interrupted(x, recovery.step = "resumeRead")}
        write == AfterStep[recovery.step]
    IN
    /\ recovery.step \in {"resumeRead", "failRead"}
    /\ recovery' = [step |-> IF ids = {} THEN AfterStep[write] ELSE write, ids |-> ids]
    /\ UNCHANGED <<storeVars, opState, raw, pc, job, stageMu, renaming, scan, ghostVars, events>>

RecoverWrite ==
    /\ recovery.step \in {"resumeWrite", "failWrite"}
    /\ row' = [x \in Doc |-> IF x \notin recovery.ids THEN row[x]
                 ELSE [GiveUp(row[x]) EXCEPT
                         !.status = IF recovery.step = "resumeWrite" THEN "pending" ELSE "failed"]]
    /\ recovery' = [step |-> AfterStep[recovery.step], ids |-> {}]
    /\ UNCHANGED <<baseLife, life, chunks, vectors, mappings, committed, opState, raw, pc, job,
                   stageMu, renaming, scan, ghostVars, events>>

\* RenameDocument: the whole row again, with another title.
RenameRead(x) ==
    /\ renaming = NoRename /\ life[x] = "active" /\ Event
    /\ renaming' = [doc |-> x, copy |-> row[x]]
    /\ UNCHANGED <<storeVars, opState, raw, pc, job, stageMu, recovery, scan, ghostVars>>

RenamePut ==
    /\ renaming # NoRename
    /\ IF Writable(renaming.doc) THEN upsert(renaming.doc, renaming.copy)
       ELSE UNCHANGED <<life, row, rewound>>
    /\ renaming' = NoRename
    /\ UNCHANGED <<baseLife, chunks, vectors, mappings, committed, opState, raw, pc, job, stageMu,
                   recovery, scan, command, published, overlapped, degraded, swept, events>>

\* reconcileStorage: the paths that rows and mappings name, then the files.
References(x) == ({row[x].raw} \ {0}) \cup {m.raw : m \in mappings[x]}

ScanRead ==
    /\ scan = NoScan /\ Event
    /\ scan' = [refs |-> [x \in Doc |-> References(x)],
                busy |-> {x \in Doc : \/ renaming.doc = x
                                      \/ \E o \in Op : Running(o) /\ target(o) = x}]
    /\ UNCHANGED <<storeVars, opState, raw, pc, job, stageMu, recovery, renaming, ghostVars>>

Orphans(x) == {v \in Versions : raw[x][v] # NoFile /\ v \notin scan.refs[x]}

\* A file that nothing named at the time is moved away, or deleted.
ScanQuarantine(x, v) ==
    /\ scan # NoScan /\ v \in Orphans(x)
    /\ raw' = [raw EXCEPT ![x][v] = NoFile]
    /\ swept' = IF x \in scan.busy THEN swept \cup {x} ELSE swept
    /\ UNCHANGED <<storeVars, opState, pc, job, stageMu, sideVars, command, published,
                   overlapped, rewound, degraded, events>>

ScanDone ==
    /\ scan # NoScan /\ \A x \in Doc : Orphans(x) = {}
    /\ scan' = NoScan
    /\ UNCHANGED <<storeVars, opState, raw, pc, job, stageMu, recovery, renaming, ghostVars, events>>

----------------------------------------------------------------------------
Leaf(x) == Tree(x) = {x}

\* The file of a published document, and the generation that shows it.
FirstContent == CHOOSE c \in Content : TRUE
PublishedRow == [active |-> 1, desired |-> 1, building |-> FALSE, sv |-> 1, raw |-> 1,
                 of |-> FirstContent, status |-> "ready"]
DirectoryRow == [active |-> 0, desired |-> 0, building |-> FALSE, sv |-> 1, raw |-> 0,
                 of |-> NoFile, status |-> "ready"]
FirstChunks == {[gen |-> 1, batch |-> b, of |-> FirstContent] : b \in 1 .. Batches}

Init ==
    /\ command \in Commands
    /\ baseLife = "active"
    /\ \E present \in Existing[command] \cap SUBSET {x \in Doc : Leaf(x)} :
        /\ life = [x \in Doc |-> IF Leaf(x) /\ x \notin present THEN "none" ELSE "active"]
        /\ row = [x \in Doc |-> IF x \in present THEN PublishedRow
                    ELSE IF Leaf(x) THEN NewRow ELSE DirectoryRow]
        /\ chunks = [x \in Doc |-> IF x \in present THEN FirstChunks ELSE {}]
        /\ vectors = [x \in Doc |-> IF x \in present /\ Embeds THEN {1} ELSE {}]
        /\ mappings = [x \in Doc |-> IF x \notin present THEN {}
                         ELSE {[gen |-> 1, sv |-> 1, raw |-> 1, of |-> FirstContent]}]
        /\ raw = [x \in Doc |-> [v \in Versions |->
                     IF x \in present /\ v = 1 THEN FirstContent ELSE NoFile]]
    /\ committed = {} /\ opState = [o \in Op |-> "queued"]
    /\ pc = [o \in Op |-> "idle"] /\ job = [o \in Op |-> NoJob] /\ stageMu = NoOp
    /\ recovery = [step |-> "off", ids |-> {}] /\ renaming = NoRename /\ scan = NoScan
    /\ published = [o \in Op |-> 0]
    /\ overlapped = {} /\ rewound = {} /\ degraded = {} /\ swept = {} /\ events = 0

Ingest(o) ==
    \/ BeginIngest(o) \/ StartIngest(o) \/ WriteRaw(o) \/ StageBegin(o) \/ ClearLeftover(o)
    \/ PutBatch(o) \/ ClearStagedData(o) \/ ClearStagedFlag(o) \/ EmbedPut(o) \/ Embed(o)
    \/ DegradePut(o) \/ RestorePrevious(o) \/ Activate(o) \/ FailDocument(o)
    \/ PruneMappings(o) \/ PruneChunks(o) \/ PruneRaw(o)

Delete(o) ==
    \/ BeginDelete(o) \/ FenceTree(o) \/ CleanChunks(o) \/ CleanMappings(o) \/ CleanRaw(o)
    \/ FenceBase(o) \/ CleanBaseChunks(o) \/ CleanBaseRaw(o)

Next ==
    \/ \E o \in Op : Ingest(o) \/ Delete(o) \/ Retry(o)
    \/ Crash \/ RecoverRead \/ RecoverWrite
    \/ (\E x \in Doc : RenameRead(x)) \/ RenamePut
    \/ ScanRead \/ (\E x \in Doc, v \in Versions : ScanQuarantine(x, v)) \/ ScanDone

Spec == Init /\ [][Next]_vars

----------------------------------------------------------------------------
IngestPcs == {"start", "raw", "stage", "clear", "batch", "clearData", "clearFlag", "embedPut",
              "embed", "degrade", "restore", "activate", "fail", "prune", "pruneChunks",
              "pruneRaw"}
TreePcs == {"fence", "cleanChunks", "cleanMappings", "cleanRaw"}
BasePcs == {"cleanBase", "cleanBaseRaw"}
Pcs == {"idle"} \cup IngestPcs \cup TreePcs \cup BasePcs

\* Every variable stays in its range.
TypeOK ==
    /\ command \in Commands
    /\ baseLife \in {"active", "deleting"}
    /\ life \in [Doc -> {"none", "active", "deleting"}]
    /\ row \in [Doc -> Row]
    /\ chunks \in [Doc -> SUBSET [gen : 1 .. MaxGen, batch : 1 .. Batches, of : Content]]
    /\ vectors \in [Doc -> SUBSET (1 .. MaxGen)]
    /\ mappings \in [Doc -> SUBSET [gen : 1 .. MaxGen, sv : Versions, raw : Versions, of : Content]]
    /\ committed \subseteq Op
    /\ opState \in [Op -> {"queued", "succeeded", "failed"}]
    /\ raw \in [Doc -> [Versions -> Content \cup {NoFile}]]
    /\ pc \in [Op -> Pcs] /\ job \in [Op -> Job] /\ stageMu \in Op \cup {NoOp}
    /\ renaming \in [doc : Doc \cup {NoDoc}, copy : Row]
    /\ recovery.step \in RecoverySteps /\ recovery.ids \subseteq Doc
    /\ published \in [Op -> Nat] /\ events \in 0 .. MaxEvents

\* A document is active only below directories that are active, in a base
\* that is active: an import that was on its way when its directory or its base
\* was deleted leaves no document behind (fenceDocumentScope).
LiveScope ==
    \A x \in Doc : life[x] = "active" =>
        baseLife = "active" /\ \A y \in Lineage[x] : life[y] = "active"

\* From its fence on, a document only loses data: no ingest, rename or restart
\* brings it back, gives it a chunk or publishes a generation of it.
DeletedOnlyLoses ==
    [][\A x \in Doc : life[x] = "deleting" =>
          /\ life'[x] = "deleting"
          /\ chunks'[x] \subseteq chunks[x] /\ mappings'[x] \subseteq mappings[x]
          /\ row'[x].active = row[x].active]_vars

\* A command publishes one generation at most, however often it is replayed:
\* its marker commits with the activation.
PublishedOnce == \A o \in Op : published[o] <= 1

\* What readers get of a document, the chunks of its active generation, is
\* complete and made from one source.
Whole(x) ==
    row[x].active > 0 =>
        \E m \in mappings[x] :
            /\ m.gen = row[x].active
            /\ ChunksOf(x, m.gen) = {[gen |-> m.gen, batch |-> b, of |-> m.of] : b \in 1 .. Batches}
Live == {x \in Doc : life[x] = "active"}
PublishedIsWhole == \A x \in Live : Whole(x)

\* It holds for a document no two ingests worked on at once and no whole-row
\* write set back, whatever crashes, refusals and unanswered writes do.
UndisturbedIsWhole == \A x \in Live \ (overlapped \cup rewound) : Whole(x)

\* The bytes behind the published generation of such a document are there and
\* are the ones it was made from, and the path its row names is a file, unless
\* a reconciliation ran beside an ingest or a rename of it.
SourceKept ==
    \A x \in Live \ (overlapped \cup rewound \cup swept) :
        /\ \A m \in mappings[x] : m.gen = row[x].active => raw[x][m.raw] = m.of
        /\ row[x].raw # 0 => raw[x][row[x].raw] # NoFile

\* A delete that answers success has left no chunk of its scope behind,
\* however often it was interrupted, and none is added later.
CleanAfterDelete ==
    \A o \in Op : opState[o] = "succeeded" =>
        /\ command[o].kind = "delete" =>
               \A x \in Tree(target(o)) : chunks[x] = {} /\ mappings[x] = {}
        /\ command[o].kind = "deleteBase" => \A x \in Doc : chunks[x] = {}

\* An import of a file that answers success has published it, unless the
\* document was deleted or set back since, or the provider failed: the write
\* that makes a document ready without vectors comes before its activation, and
\* a replay after a crash between the two finds it ready.
ImportIsPublished ==
    \A o \in Op :
        LET x == target(o) IN
        opState[o] = "succeeded" /\ command[o].kind = "import" /\ Leaf(x) =>
            life[x] = "deleting" \/ x \in rewound \cup degraded \/ row[x].active > 0

=============================================================================
