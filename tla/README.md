# A TLA+ development for Shutu-Knowledge

Shutu-Knowledge is a local knowledge base service: one process over one SQLite
database (a single writer goroutine) and a raw file store. Clients (web UI, MCP,
agent extension) upload files, submit *durable operations* (import, index,
rebuild, delete, download a model, ...), search, ask questions and explore.
Workers of several resource classes claim operations from the database and
execute them; the process may stop or die at any point and recovers at its next
start.

This directory models the parts where steps of several actors interleave, where a
crash may fall between two steps, or where a rule is applied in so many steps that
its outcome is not evident; checks them with TLC; and proves the central safety
results with TLAPS.

## 1. The system: inventory

Paths are relative to `src/internal`. "M": every operation that changes state is an
action; "P": partly, the rest with its reason in `PROJECT.json`; "-": not modelled.

| Component | Sources | State | Module | |
|---|---|---|---|---|
| Durable operation queue | `operations/service.go`, `query.go`, `state.go`, `util.go` | `operations` table; wake channels; reservations; active runs | `OperationQueue` | P |
| Upload staging | `operations/upload.go`, part of `service.go` | `upload_sessions`; staged and temporary files; reserved bytes | `UploadStaging` | M |
| Single SQLite writer | `storage/writer.go`, `store.go` | three bounded channels, result channels, stop channel | `SqliteWriter` | P |
| Operation items, batches | `operations/items.go`, `app/operations.go` | `operation_items` commit markers | `BatchCommands`, `DocumentGenerations` | M |
| URL captures | `operations/url.go`, `knowledge/service_url.go` | captures and their leases | `UrlCapture` | M |
| Intake of commands, credentials | `operations/credential.go`, `Submit`, `web`, `extension` | idempotency keys, signing keys, expiry | `CommandIntake` | P |
| Document generations | `knowledge/service_doc.go`, `store.go`, `commit_hook.go`, `service_base.go` | documents, generations, chunks, raw versions, tombstones | `DocumentGenerations` | P |
| Maintenance, raw files | `knowledge/service_maintenance.go`, `storage/rawstore.go` | retired generations, quarantine | `DocumentGenerations` | P |
| Directory import and rescan | `knowledge/service_dir.go` | container rows and their children | `DirectorySync` | P |
| Bases, groups, scope | `knowledge/service_base.go`, `web/api.go` | base rows, lists of groups, enabled scope | `Catalog` | P |
| Parsers, chunking, document model | `parser`, `chunk`, `documentir`, `knowledge/quality.go`, `ocr.go` | none | `Extraction`, `Chunking` | P |
| Search and retrieval | `knowledge/search.go`, `retrieval`, `rerank`, `evidence` | a read snapshot | `Retrieval`, `Ranking`, `EvidenceWindow` | P |
| Semantic compiler | `semantic/compiler.go`, `incremental.go`, `storage.go` | compilations, pending changes | `SemanticCompile`, `TemporalStatus` | P |
| Routing, time, context | `semantic/router.go`, `temporal.go`, `history*.go`, `context.go` | none | `VersionOrder`, `KnowledgeContext` | P |
| Agent queries | `agentquery` | none | `AgentQuery` | P |
| Schema models | `schemamodel`, `knowledge/schema.go` | stored models, a cache | `SchemaModel` | P |
| Runtime helpers | `runtime/manager.go` | processes, two kinds of mutex | `RuntimeHelper` | P |
| Model manager | `models` | the model cache, its root in the configuration | `ModelCache` | P |
| Application, instance lock, migrations | `app/app.go`, `storage/instance_lock.go`, `migrate.go`, `cmd` | lock, schema version, configuration, wired helpers | `AppLifecycle` | P |
| Admission gate, resource sampling, legacy job manager, configuration, logging, evaluation, scripts, web assets | | | | - |

How they interact. Every change of the database goes through the writer as a
callback (`WriteTx`, `ExecPriority`), so a transaction is atomic, but a handler
that reads first and writes later is not. The writer may answer that it refused
a write, or that the outcome is unknown. Submit writes an operation row (and
binds an upload in the same transaction) and then sends a wake-up token. A
worker takes a token, claims rows until it finds none, executes each
synchronously, records the verdict, closes the lease on the upload, and hands
its reservation back. An executor reads or captures its source, extracts its text,
cuts it into pieces, stages a generation of chunks and activates it together with
the item marker of its command; publication marks the document for the semantic
compiler. Searches read one snapshot; questions about versions combine search with
the active compilation. Start recovers the tables before workers and clients exist.

What is hard, and what correctness means here:

* *Queue.* Claims, repeated finishes, retries, cancels and restarts interleave over
  one row: one executor at most, only the attempt that holds a row finishes it, final
  states stay final, a committed cancel reaches the run, every accepted command
  settles, reservations are neither lost nor handed back twice.
* *Uploads, captures.* Files and rows are changed one after the other. Quotas hold;
  what a client completed, or an operation fetched first, is what is imported; a lease
  ends when, and only when, the command cannot run again.
* *Intake.* A retry after a lost answer gets the one command that was made.
* *Writer.* An answer says the truth about what was committed, every caller is
  answered, a stopped writer commits nothing, no class starves.
* *Publication.* Readers see the complete work of one ingest; a replay publishes once;
  a delete is final and complete; no raw file in use is taken away.
* *Batches, directories, catalog.* Each item once and all of them; the base mirrors the
  disk; a change touches what it names.
* *Text.* A text is never lost to a worse one, its pieces hold all of it under their
  headings, and its quality is told.
* *Answers.* One view per answer; weak evidence stays out; windows keep their budget;
  graphs and contexts stay in scope and cite what they tell.
* *Memory.* A chain of increments equals a compilation from nothing; what is current
  follows from the versions; schema models are those of one sheet.
* *Processes.* One owner of a data directory, helpers of the configuration in force, no
  process left behind, every call returns; the configured model cache is complete.

The full list of hazards, each at its line, is `PROJECT.json` "hazards".

## 2. Modules

| Module | What it is |
|---|---|
| `OperationQueue`, `OperationQueueMC` | the durable queue: rows, workers, requests, reservations, process |
| `OperationLifecycle` | the abstract specification: what the queue promises about one command |
| `OperationQueueProofs` | proofs about the queue, and that it implements `OperationLifecycle` |
| `SqliteWriter`, `SqliteWriterMC`, `SqliteWriterProofs` | callers, queues, loop and stop of the single writer; proofs about it, about the readers of `Retrieval` and about `SchemaModel` |
| `UploadStaging`, `UploadStagingMC`, `UploadStagingProofs` | upload sessions, staged files, the lease of a command, recovery; proofs about these and about `Catalog` |
| `DocumentGenerations`, `DocumentGenerationsMC`, `DocumentGenerationsProofs` | ingest, publication, retirement, deletes, raw files, replays |
| `UrlCapture` | the captured page of an import or refresh and its executors |
| `DirectorySync` | scan, entries, healing and the final deletes of a directory |
| `CommandIntake`, `CommandIntakeProofs` | keys, credentials, the three doors, Submit, retries, the sweep; proofs about these and about URL captures |
| `Catalog` | bases, groups and scope as read-modify-write of rows and values |
| `AppLifecycle`, `AppLifecycleProofs` | start, lock, migrations, wiring, updates, shutdown, crash of processes; proofs about these and about batches |
| `Extraction`, `Chunking` | how a file becomes text, and the text pieces tied to its structure |
| `Retrieval`, `Ranking`, `EvidenceWindow` | what a search reads, how it orders hits, the window around one |
| `VersionOrder`, `KnowledgeContext` | the order of versions; route, range, memory, evidence and package of a question |
| `SemanticCompile`, `TemporalStatus` | the compiler beside publication and deletes; statuses of versioned facts |
| `AgentQuery`, `SchemaModel` | bounded graph walks; schema models by generation |
| `RuntimeHelper`, `RuntimeHelperProofs` | helper processes, their callers, the reaper and Close; proofs about these, about the model cache and about semantic memory |
| `ModelCache`, `BatchCommands` | the model cache; commands about several documents |
| `ContentMC`, `ServicesMC`, `SampleFiles` | TLC instances of all that have no MC module of their own, with sample data |

`OperationQueue`, `UploadStaging` and `DocumentGenerations` use the writer through
its contract only: a write has an outcome (`Outcome`), and `SqliteWriter` checks that
contract (`AnswersAreTrue`). The modules about commands keep of the queue only that a
command has attempts, one after the other (`OneExecutor`, `OnlyTheAttemptFinishes`).

**Focus.** `ContentMC` and `ServicesMC` instantiate components that share no state.
Their variable `focus` never changes: in a behaviour the component it names runs as
its own specification says, and the variables of the others rest. The
reachable states are the disjoint union of those of the components and no
interleaving of one is multiplied by the steps of another. A property of such a
module speaks of the component in focus.

### OperationQueue and the code

Each column of the `operations` table that control depends on is a function on
operation ids (`state`, `rev` = `state_revision`, `attempt`, `cancelRequested`,
`retryable`). A worker's place in `worker`/`claimNext`/`run`/`finishContext` is
`pc`:

| `pc` | Where the goroutine is |
|---|---|
| idle, claim, exited | waiting for a token; about to call `claimNext`; returned |
| claimed, launched, registered | after the claim; run context created; entered in `Service.active` |
| executing | in the executor |
| finishing, committing | before and after the read of `cancel_requested` in `finishContext` |
| releasing, deregister | the deferred calls of `run`, in their order |

An API request is a `Client`: what it read is `seenState`/`seenRev`, what it
does next is `call`. One writer transaction is one action; reads before it,
map updates and channel sends after it are separate actions. Candidate order
(priority aged by waiting time) is left open, so the results hold for every
order; the `LIMIT 32` window is kept (`ClaimWindow`).

### UploadStaging and the code

`state` and `recorded` are the row (state, and the content that `size_bytes` and
`sha256` describe), `staged` is the file at the staging path, `orphans` the bytes of
temporary files of dead processes. A put has the places copying, recording (after
the rename) and unlinking (after a failed update). The worker that closes a lease
goes through look, remove, publish. Recovery is the sequence of phases expire,
release, clean, one file removal or one row update per step, with a crash possible
between any two. The attempts of a command are abstracted: *open* still has a
retry, *spent* does not.

### SqliteWriter and the code

A request is a reusable slot with a context that may expire at any time
(`boundedWriteContext`). A `select` with several ready cases is a choice between
actions. `burst` is `controlBurst`; `next`'s two selects are the loop stages
*first* and *second*.

### DocumentGenerations and the code

The database is one variable per table, `raw` the bytes at the path of each source
version, `job` what the handler of an operation has read and not written yet, `pc`
its next statement. An ingest is: read the row, wait for `stageMu`, start (whole-row
upsert), write the raw version, stage batch by batch, embed, activate with the marker
under the fence, retire in three steps, answer. A delete turns the lifecycle of a tree
and then removes chunks, files and rows; a reconciliation reads references first and
quarantines files later. A crash leaves the tables; recovery queues what ran.

### The other components and the code

* `UrlCapture`: row of `url_captures`, the document's `content_hash`, the bytes of the
  site, which may change between two fetches; ensure, start, publish, consume, mark.
* `DirectorySync`: `sync` is what the running sync read (documents, entries, kept); one
  entry is brought in per action; changes of the disk fall between any two.
* `CommandIntake`: a call of a client is at arrival, derive, verify, enrich, accept (under
  `acceptMu`), or answered; keys, credentials and rows expire with `time`.
* `Catalog`: a call holds what it has read (`rows`, `list`, `draft`) until it writes;
  `disturbed` is history: who wrote in between.
* `AppLifecycle`: what each process holds (lock, database, transaction, manager, helper
  adapters by part) and the step of start, update or shutdown it is at.
* `Extraction`: `left` is what `parseFileContent` would still try; texts are measured, not
  spelled. `Chunking`: pieces are sequences of words of numbered lines, and the stages are
  those of `buildPieces`.
* `Retrieval`: the reader's snapshot, the lanes, windows and last look; `Ranking`: one
  search per behaviour, one stage per step; `EvidenceWindow`: one window per behaviour.
* `VersionOrder`: `CompareVersionIdentity` and what is built on it; `KnowledgeContext`:
  questions as what the lexical rules find in them, then one stage per step.
* `SemanticCompile`: the durable queue of changes, the compiler's reads, activation,
  delete clean-up; `TemporalStatus`: statuses after compilations and increments.
* `AgentQuery`: a call and its answer; the breadth-first walk is a fold over relations in
  their order. `SchemaModel`: rows to regions to tables, stored by generation.
* `RuntimeHelper`: `managerMu` (`m.mu`) and `helperMu` (`p.mu`) explicit, a helper looked up
  under one and used under the other. `ModelCache`: directories of models under
  roots, `opMu`, the manager replaced after a migration. `BatchCommands`: items in order,
  each with its marker before or after the effect, and the replays of an attempt.

## 3. Runs

| Run | Expectation | Question | Distinct states |
|---|---|---|---|
| `OQ_Claims` | pass | exclusive execution and exact reservations, two commands, two workers | 2.2 million |
| `OQ_Faults` | pass | inductive invariant, ownership of the finish, final states and refinement under a crash, a stop, a restart and a lost answer | 2.1 million |
| `OQ_Live` | pass | every accepted command settles, one base slot shared, one restart | 0.6 million |
| `SW_Writer` | pass | truthful answers, quiet after stop, everybody answered, no starvation | 0.3 million |
| `KG_Publish` | pass | what is published is whole and keeps its source; replays publish once; deletes are final and complete | 1.5 million |
| `US_Staging` | pass | uploads, captures, directories, intake, catalog, application, extraction, chunking, ranking, context, model cache: one at a time | 1.9 million |
| `SV_Services` | pass | runtime, semantic memory, versions, batches, readers, windows, graphs, schema models: one at a time | 0.11 million |
| `OQ_LostNotify` | violation | does a committed cancel reach the run? | |
| `OQ_StaleCancel` | violation | does every cancelling command have a worker that settles it? | |
| `OQ_Stranded` | violation | is a command of another class picked up when a slot is freed? | |
| `US_Immutable` | violation | is what is imported what was completed? | |
| `KG_Overlap` | violation | is what is published whole when two reindexes overlap? | |

In `US_Staging` the uploads take 1.0 million states, the others 5 000 to 160 000 each.
Its `VIEW` leaves `imported` out: what a command imports guards nothing but another
import, and no property of the run speaks of it (`US_Immutable`, which does, has no view).
`SV_Services` checks liveness (`AllReturn`) and takes most of its time for that.

Every property of a passing run has a *mutant*: a definition marked
`\* mutant` in the module, which is the same operator with a plausible bug.
Replacing the original by it makes TLC find the property violated.

### What the violations show

* `OQ_LostNotify`: finish requeues the row before the deferred calls of `run`;
  another worker claims it, registers, and the first worker's
  `delete(s.active, id)` removes that registration. A cancel committed now finds
  nobody to notify, and the executor continues under a live context (the intent
  is still honoured when the executor reports an interruption, and after a restart).
* `OQ_StaleCancel`: `RetryContext` is conditional on the state only and writes
  the revision it read plus one, so a stale retry sets the revision *back*. A
  cancel that had read "running" at the revision which is now used for the second
  time marks a *queued* row cancelling; nobody claims or finishes such a row.
* `OQ_Stranded`: a worker whose candidates do not fit goes back to sleep; the
  release of the slot wakes nobody, so a command of another class waits until some
  unrelated event wakes that class.
* `US_Immutable`: a put checks the session state before it copies the body and
  renames unconditionally; a put that overlaps completion replaces the completed
  bytes. The executor compares sizes only.
* `KG_Overlap`: `startDocumentIngest` upserts the whole row it was handed. A reindex
  that read its row before another one published sets the active generation back to
  one whose chunks are pruned.

### Other deviations met while modelling

They have no run of their own. Where a module keeps the behaviour, a history variable
or a named condition exempts exactly these states from its properties; the name is given
in parentheses. (Line numbers are those of the definitions in "map".)

*Queue, uploads, writer.* Stale retries can exceed `DefaultMaxAttempts` and requeue a
command whose input was released; a cancel that misses its revision answers without an
error; a cancel committed between `finishContext`'s read and its transaction is requeued
with the intent set (plan:306 says it must not be); a late put can leave a staged file
behind a released session; after `Stop` the writer serves the rest of a burst of control
requests.

*Publication.* `RenameDocument` and `failDocument` write whole stale rows too
(`overlapped`, `rewound`). Reconciliation quarantines a raw file that a live ingest wrote
before a row names it, and may take one that a rename's stale copy names again (`swept`). A replayed `import_file` with conflict policy *replace*
deletes its own document, *rename* retitles it, *detect* conflicts with itself. A replayed
`delete_documents` skips the clean-up of an item whose marker is committed. Startup
recovery of documents runs beside workers that have started. Retention counts from
publication, not from retirement. A reindex whose vectors are published and whose
provider fails returns nil without activating; an import in that case is ready before it
is active (`degraded`).

*Captures and URLs.* A document found ready is answered without `ConsumeURLCapture`;
the page is fetched again before `Ensure` finds the stored capture; a capture that was
consumed or has expired fails a late retry. A `refresh_url` that died between start and
publication finds the new hash in the row and answers "unchanged" (`spared`).
`AddUrlDocumentWithID` tests the zero `doc.Status` instead of `existing.Status`.

*Directories.* `importChildFile` answers an unchanged file with nil, so it is never kept,
and the final loop deletes every unchanged document at each rescan, against the comments
at `service_dir.go`:366-367 and 391-392 (`skipped`). An unreadable directory fails, but
everything below it is deleted; so is the subtree of a container whose write failed. The
old document goes before its replacement is ingested. `findDocumentByTitle` falls back to
the whole base, so the same relative name elsewhere loses its document.
`recordChildFailure` writes back a metadata row and erases `raw_text`. Two concurrent
imports make two roots. A sync may delete a nested container that its own healing loop
then misses, and fail whole; a cancelled sync cannot record its failure and stays
"processing".

*Batches.* `markImportFilesResultContext` runs before the error is looked at and marks
files that failed or never started *skipped*; a replay takes the row of its interrupted
attempt for a duplicate (`dropped`). `restore_base` keeps the source's directory id, so
that a rescan of the source directory deletes restored documents; a restored document
deleted before a replay makes the restore fail for ever.

*Intake.* Keys made of the payload alone (`remove-model-v1`, `ollama-delete-v1`,
`restore-base-v1`, ...) answer a later repetition with the old, finished command, and after
retention with `operation_expired`; keys of reindexing change only with the base's epoch
and configuration, so a failed reindex is returned again; `reindex_document` and a
`reindex_documents` of one share a key and conflict. A retried, running command may be
answered "expired". The expiry of a credential is tested before the command it is bound
to is looked up (plan:292), `retained_until` never. Two concurrent first starts may make
two active signing keys. The older routes look their target up before the key, so a retry
after its deletion gets "not found". `compileSemanticMemoryOperation` lists and submits
without a key.

*Catalog.* Bases, groups and scope are read, changed and written back without a
transaction: concurrent calls lose one another's changes, and an old API key may come
back (`disturbed`). A rename of a group that meets a base being deleted stops half-way;
`RenameGroup("", to)` moves every ungrouped base; deleting a base leaves its id in the scope.

*Application.* An update saves the configuration before it closes the runtime; a close that
fails leaves memory and disk different and the closed manager in use (`halfway`).
`config.Load` precedes `AcquireInstanceLock` (`stale`). A shutdown that exceeds its deadline
releases the lock with a worker or transaction alive (`overdue`). `SetRuntime` applies the
old configuration to the new runtime until `SetGlobalConfig`. `SetLegacyOfficeRunner` puts a
nil pointer in an interface, which is never `== nil`, so LibreOffice is never used. The OCR
artifact provider is set at the start only; optional health checks are those of the
configuration at the start; `SetLegacyHelper` changes the parser map while ingests read it;
search, ingest and admission slots keep their first sizes; the extension starts no
maintenance, MCP neither recovery nor maintenance; "ready" may be told before recovery.

*Text.* MinerU's text and the native text after forced OCR have no recorded quality
(`recorded`), and warnings accumulate over reindexes. Mode *off* is resolved and never
asked (`docs/ingestion.md`:37). Rendered pages whose OCR fails are left out silently, and
partiality compares with a page count that is 0 when the layout reader failed. Text of an
OCR or converter that replaces an empty native text keeps the empty native structure.
`windowBlock` never applies the overlap that `Chunk` promises; `windowOrKeep` compares
bytes with runes. Table cells of a docx with paragraphs are never indexed, captions of
images never reach a paged PDF's pieces, and pages, tables, rows and figures repeat one
another's text. Merging keeps the first of several headings, hygiene joins a fragment to
its neighbour whatever their headings. `nodesForPiece` may tie a piece to another node
below the same heading, and to the first node when nothing matches. `FromText` makes every
heading a child of the previous one. `listDocumentIRsContext` mixes generations.

*Search.* `resolveSearchScope` leaves `intersected` nil when a request meets nothing of the
saved scope, and nil means *all bases* (`widened`). `ReadDB` has four connections, each
search holds one and needs a second. A continuation reads row, anchor and neighbours
one by one (`disturbed`); pruning removes chunks by their own time and mappings by
publication (`torn`). `resolveDocFilter` builds `WHERE ... WHERE`, an SQL error. Failing
one phrasing's embedding makes later phrasings lexical and lets weak vector hits through.
The demotion of low-quality documents is undone by reranking; a hit by a short numeric token
has score 0 and is dropped in hybrid mode; vector mode over several bases concatenates;
rerank scores are compared with the similarity floor; equal scores are ordered by a map.
An explicit empty scope matches nothing in search and everything in `agentquery`.
Windows: the extension to sentence ends can make every crop exceed a small budget and leaves
an empty hit; of three chunks that share text one repetition may remain; `HasMoreAfter` may
be false though the document goes on.

*Time and context.* A broad question with a range drops the range and keeps its bounds as
versions, so it is answered from what it excludes; date ranges have no representatives;
"after X" with many versions samples the range; "before" groups are sorted as text;
versions with suffixes are incomparable, so that sorting by them is no order;
`LatestComparableVersion` skips what cannot be ordered, against its comment
(`temporal.go`:179-181). Two versions stated in one chunk share one piece of evidence
(`Alone`). Facts of a second hop come whatever their status. Citations written with the
last quarter of the budget are not counted. `scoreSemanticUnit` never finds units by
content alone. `ResolveEvidence` ignores cycles instead of rejecting them.

*Memory, graphs, schemas.* `ResolveDocumentChanges` resolves changes that arrived after the
compiler's read; a first compilation may be activated during a delete; a document that
appears between two listings is compiled without a signature (`Unsigned`). An incremental
merge loses a concept whose facts came from the changed document only, although an
unchanged one has it. With a version that cannot be ordered in the scope an increment may
be refused (`model.go`:209) or an older version called current; two contradictions one below
the other leave statuses that depend on the history. A walk that reaches `maxNodes` exactly
leaves `Truncated` unset (`Full`) and may keep an edge to a node it left out. `Search`
overwrites `Degraded`. Schema rows of deleted documents stay; `LoadModel` reads its parts in
separate queries (`disturbed`) and loses key hints; a listing's generation may be stored
with a second read's rows; a failing compilation does not invalidate the cache.

*Helpers and models.* The reaper waits for a helper's mutex with the manager's held, so a long
call blocks Status, invoke and Close, against the comments at `manager.go`:547-549. A call
that has fetched a helper restarts it after the reaper has deleted it, and nobody owns the
process (`orphans`). A migration that dies in the copy leaves a target its replay refuses; a
failed removal of the source leaves memory and configuration at different roots; a finished
migration makes a new manager beside which a waiter on the old one still works, and one
that moves on to a third cache from a cache that is not the configured one leaves the models
of the configured one behind (`astray`); it saves a configuration copied when the copying
began.

## 4. Bounds and why they are enough

* Operations and workers: two of each show every conflict between two claims
  and between an old and a new attempt; a third worker adds only repetitions, as
  the proofs, which bound nothing, confirm for the properties they cover.
* `MaxAttempts` 2 (3 in `OQ_StaleCancel`, which is the real
  `DefaultMaxAttempts`): one automatic retry, then the limit.
* `MaxFaults` 1: one refused or unanswered write anywhere; the second call of
  `finishWorker` and the claim without an answer both need one.
* `MaxStarts` 2: a crash or a stop and the recovery after it. `Stop` and `Exit`
  are disabled in the last life of the process, so that liveness is asked of a
  process that stays up.
* `WakeCap` 2 for a channel of 64, `ClaimWindow` 2 for 32: with two commands
  neither is exceeded by less.
* Uploads: one session that declares its size and one that does not, contents of
  size 1 and 2 against limits of 2 and 3, two puts: both quotas bind.
  `MaxClosing` 1: one worker at a time is between its finish and the end of the lease.
* Writer: queues of one place, so that full queues occur; a burst of 2 for 8; one
  control caller that can call again for ever and two normal callers. No maintenance
  caller is instantiated: it is treated like a normal one by the code modelled.
* Publication: one document below one directory in one base and five pairs of
  commands, two batches per generation, four generations, two events (crash, lost answer,
  failure, rename, reconciliation). Two commands are what every interleaving the
  module speaks of needs; the proofs bound nothing. `Existing` says which files were
  published before: none where the document is imported and then reindexed, so that
  the import is the one that creates it; none or the document with the other pairs.
* Captures: an import and a refresh of one page with two bodies. Directories: two places,
  a directory with one file, two events. Intake: four meetings of two clients, two
  operations, a clock of at most two steps, so that credential and key expire.
* Catalog: two clients with one call each, two bases, two groups. Application: two
  processes, one of a newer version, a serving and a checking mode, two
  configurations, one update, one event.
* Extraction: files of one and of twelve pages (page-count rules begin at four and ten), native texts that
  are healthy, fragmented, damaged, absent; helpers' texts thin, comparable, much fuller.
  Chunking: six texts, with nested headings, fences, fragments, pages, tables, a workbook;
  windows of six words.
* Ranking: three chunks of two documents in two bases, one or two phrasings. Context:
  three memories of five units, every form of range, budgets below and above the package.
* Model cache: one model, three caches, two managers; migrations beside downloads and
  removals. With two caches a migration that could not empty its source can only go back.
* Services: one caller, the prober and two helper generations; two documents of which one
  has two versions and can be deleted; three versioned facts over ordered versions and a
  token; three items and three attempts; one reader beside two
  generations; windows of three chunks for all budgets from 2 to 9; graphs of four units with
  a diamond, a dispute and a broken edge; sheets of at most three tables.
* Symmetry is used for safety runs only, over sets whose members no definition
  tells apart.

Deadlock checking is off in every run: the bounded process ends in its last life
when nobody has anything left to ask, and single answers end with their last stage.

## 5. Fairness

* Workers (`WF` on the disjunction of a worker's steps): goroutines are scheduled
  and executors return, since each takes a context and has deadlines; a command
  whose executor never returns is outside the promise. Progress reports are not
  obliged to happen.
* Requests (`WF`): a handler that began runs to its end.
* `WF` on `Start`, and on `Exit` while stopping: `StopWithContext` waits at most
  `stopTimeout`, and the application or its supervisor starts it again. A crash is
  never obliged.
* Writer: `WF` on the loop and on a waiting caller. `SF` on taking a normal
  request: Go's `select` picks uniformly among ready cases, and the loop looks at
  the normal queue in the first select only when its burst is used up. With `WF`
  alone the property fails, because the choice between ready queues is then
  arbitrary for ever.
* Helpers: `SF` on the steps of a call, the prober, the reaper and Close. A step may be
  disabled again and again while others hold the mutex; `sync.Mutex` hands itself to a
  waiter that has starved for a millisecond, and every request to a process has a
  deadline, which is an action of its own and not obliged to be the answer.

All other properties are safety and need no fairness.

## 6. Proofs

TLC checks instances; the theorems below hold for every value of the constants, under
the assumptions named in the modules (`OpAssumption`, `BudgetAssumption`,
`GenerationsAssumption`, `UploadAssumption`, ...): the types of the constants, finite
sets where something is counted, and a tree of documents that is a tree. No bound of a run
is assumed: the bounds that guards name (`MaxGen`, `MaxEvents`, `MaxStarts`, ...) are any
numbers.

A property is seldom inductive. Each proof names its strengthening, shows that `Init`
implies it, that every step keeps it (one lemma per action or group of actions), that it
implies the property, and closes with `PTL`.

### The queue (`OperationQueueProofs`)

* `TypeCorrect`.
* `ClaimsAreExclusive`, and `ExecutionIsExclusive` from it. `OneExecutor` is not inductive:
  a state in which a second worker is on its way to an operation that is being executed
  satisfies it. `ExclusiveClaim` says that a worker from its claim to its executor is
  alone on its operation and works on a row that cannot be claimed, and that a worker
  which still tries to finish has a *lower* attempt than the row as soon as another one
  has claimed; that is what makes the predicate of `finishContext` (`attempt = ?`)
  protect the new attempt from a repeated finish.
* `AttemptFinishesItsOwnRow`, `FinalForever`: action properties, by cases on `Next`.
* `ReservationsAreExact`: the slots of each base and the bytes of each resource that the
  memory of the process counts are exactly those of the workers inside `run` plus those
  of the claims whose answer was lost (which nobody gives back before a restart).
  Inductive with `NobodyWorksDown`; without it a start that resets the counters would not
  be exact. `RunsStayWithinLimits` follows for what is admitted.
* `DownIsIdle`, `QueueImplementsLifecycle`: `Spec => Lifecycle!Spec` under the mapping
  that forgets revisions, requests and reservations, and maps a worker's place to what
  the attempt is doing. One lemma per concrete action names the abstract one, or the
  stutter.

### Publication (`DocumentGenerationsProofs`)

* `TypeCorrect`, with `StepsTyped`: a worker has the kind of command its step is for, and
  the version and generation it is about to write are within the bounds.
* `ScopeIsLive`: an active document is below active directories in an active base. It is
  inductive because a whole-row write tests the scope in its transaction and a fence
  turns the whole tree.
* `DeletionIsFinal` (action property): from `DataStep` (data is added below an active
  scope only) and `ActiveStep` (the active generation changes by a whole-row write only).
* `PublishesOnce` by `PublishInv`: until the marker of a command commits nothing of it
  is published, and once it has, no attempt reaches an activation.
* `DeletesAreComplete` by `CleanInv`: what the clean-up has passed is empty, and stays
  empty because its document stays fenced.
* `PublishedStaysWhole` by `WholeInv`, `CleanersInv`: for a document that is not
  deleted, overlapped or set back, every copy of its row that somebody holds, worker or
  rename, has its active generation; the one ingest that works on it has staged, above
  the active generation, exactly the batches before its next one; the generation it
  activates is full; and what it retires is below. `CleanersInv` keeps a delete away
  from a document that is not fenced.
* `ImportsArePublished` by `ReadyInv`, `ShownInv`: a file's row that says *ready*, the copy
  a rename is about to write back included, has a generation or the provider had failed
  on it; and a document that an import is done with is shown and stays so, because only
  a write counted in `rewound` takes a generation back.
* `SourcesAreKept` by `KeptInv`, on top of `WholeInv`: for a document that nothing
  disturbed or swept, later generations have files with higher versions, and every copy of
  its row that could still be written back with the active generation names a file, and
  has a source version that no published file is above. A new file is therefore written
  beside all published ones (`WriteRawKept`), and a retirement, which takes files of older
  generations, stays below the active one even when it runs beside a later ingest
  (`ActivateCommitsKept`, `PruneKept`). While a reconciliation runs and the document has had
  no ingest or rename since it read its references, whatever matters is among them
  (`ScanReadKept`, `ScanQuarantineKept`). TLC checked `KeptInv` as an invariant of the
  instance of `KG_Publish`, and of one with one more generation and two more events, before
  the proof.

### The writer (`SqliteWriterProofs`)

`RequestsAreInOnePlace` is the inductive invariant `WriterInv`: a request is in its queue
once, or with the loop, or nowhere; while it is somewhere its slot is not used again and
nothing has been decided about it; caller, result and database agree; a stopped writer's
loop is over. `AnswersTellTheTruth` and `QuietAfterStop` follow.

### Readers (`SqliteWriterProofs`, second part)

`PublishedIsStored` and `AnswersAreOfOneView` by `RetrievalInv`, for any documents, chunks,
scopes and requests, under `RetrievalAssumption` (`ServicesMC` has TLC evaluate it):

* `Stored`: the active generation of a document that is not deleted is stored whole, and so
  is every mapped one, but for those whose chunks went before their mapping (`torn`).
* `Searches`: the snapshot is therefore `OneView`, one whole generation of each document,
  and stays so while the search waits for models, whatever is published, retired or deleted
  meanwhile; hits and windows are taken from it alone, inside the bases of the request.
* `Continues`: a continuation has no snapshot. What holds of it is that, while nobody
  activates or retires the document, the generation it identified first is still mapped when
  it reads the neighbours, and these are all of the chunks around its anchor.

`ReadersSeeOneView` speaks of finished requests and is not inductive without these. TLC checked
`RetrievalInv` before the proof.

### Uploads (`UploadStagingProofs`, `UnitSums`)

* `StagingIsOrdered`: before the process serves, only recovery works, and each pass of the
  recovery still has before it exactly what it has not handled (`SweepsInOrder`).
  `RecoveryTakesBack` (action property) follows: recovery releases the inputs of the
  commands that cannot run again, all of them and no other, wherever the process died.
* `QuotasHold` by `LimitsInv`: the bytes reserved are those of the puts that copy, the bytes
  of complete and bound sessions are within the limit, and no orphan is left when the
  process serves.
* `UnitSums`: sums are cardinalities of finite sets of units (`Units(S, f)`, a pair per unit
  and holder), so that lemmas about them follow from the library's facts about
  cardinality instead of an induction over a fold. The counts in `OperationQueue` and
  `UploadStaging` are written in that form.

### Bases, groups and scope (`UploadStagingProofs`, second part)

`CatalogStaysKept` by `CatalogInv`, for any number of clients and calls and any requests, under
`CatalogAssumption` (the request to clear a key is none of the values for *no key*;
`ContentMC` has TLC evaluate it). `CatalogIsKept` speaks of finished calls only; the invariant
is a formula about one call and the base rows (`CallKept`) for every step in between:

* `Patches`: a key that was read for a patch is the key of the base as long as nobody else wrote
  it, so the row that is put back differs from it by what was asked alone.
* `Moves`: of the bases that were active when a rename began and that nobody else wrote, those
  it has still to move are as it read them, and all others are as they were but for the group.
* a base that is being deleted stays so, because `putBase` leaves such a row alone.

A step of another client can break this only by the rows it writes, and these are from then on
among what is `disturbed` for every call under way (`UnderWayKept`); a call that has ended
depends on the rows only through a base it deleted (`RestingKept`). TLC checked `CatalogInv`
(243 898 states) before the proof.

### Runtime helpers (`RuntimeHelperProofs`)

`ClosedManagerIsEmpty` by `HelperInv`, under `HelperAssumption` (the value for *none* is no
helper and no holder; `ServicesMC` has TLC evaluate it): whoever may start a process does so
for a helper that is in the manager, in the hands of a Close, shut, or reaped under a waiting
call; the helper's mutex covers the start, so the reaper, which looks with `m.mu` held and
waits for that mutex, takes no helper away from a start; and a helper that was asked to
stop has no process again, because the start reads `closed` once its process can be
stopped. TLC checked the parts of `HelperInv` with two callers and three helpers before.

`MutexesAreReleased` adds `HeldForWork`: a helper's mutex that is taken belongs to a client
which has that helper's process started or waits for its answer, and `m.mu` is kept from one
step to the next by the reaper only, while it looks at a helper. So whoever has a helper's
mutex waits for no other one, and there is no circle of waiting goroutines: the safety half
of `CallsReturn`, whose other half, that deadlines do fire, TLC checks under fairness.

### The model cache (`RuntimeHelperProofs`, second part)

`ModelsAreWhole` by `CacheInv`, for any models, caches, managers and operations, under
`ModelAssumption` (`ContentMC` has TLC evaluate it): the holder of `opMu` is the job at work,
and beside a migration (`Steady`) either every model is astray, or no other job migrates, the
cache it leaves is the configured one until the configuration is saved, its plan has every
installed model, each is whole in the target when the configuration is saved, and the source
is emptied only when the configuration names the target.

The attempt to prove it showed that an instance with two caches had been too small: after a
failed removal of the source the manager still serves the old cache (`MigrateContext` returns
before `setRoot`), and a migration from there to a *third* one points the configuration at a
cache without the models of the second. `astray` now covers this deviation, and
`US_Staging` has three caches.

### Semantic memory (`RuntimeHelperProofs`, third part)

`MemoryStaysSound` by `SemanticInv`, for any documents, numbers of versions, texts and
increments, under `SemanticAssumption` (texts have the facts and headings there are;
`ServicesMC` has TLC evaluate it). It states the four properties that `MemoryIsSound` checks.

* The algebra: `SourcesMerge` (a merge is built from what is kept of the old texts and what
  was loaded), `CompileIsEvident`, `SanitizedIsEvident` and `MergeIsEvident`: units with
  evidence in their texts stay so when provenance in the dirty documents is removed level by
  level and the units of the loaded texts are joined, and no fact of a kept text is lost. By
  them an incremental compilation has the facts of one from nothing after any number of
  increments, with no induction over their number: the previous compilation is `Sound`.
* The signatures: metadata is read before the text, so a signature is never newer than the
  text that is compiled under it (`signed[d] <= loaded[d]`), and a document that was not
  deleted has at least the version that was loaded (`Earlier`). If nothing changed beside the
  compiler, equal signatures between these two bounds leave only the version that is there:
  this is why a document that is not dirty needs no mark (`LoadedIsSound`).
* The deletes: from its turn to compile until the end of its delete a document has version 0
  in whatever the holder of `semanticCompileMu` has read (`Forgotten`), also when an operation
  and not the delete compiles; so no compilation that is activated later signs it. What is
  left is the document that appeared between the two listings of a full compilation
  (`Unsigned`), and the property names it.

TLC checked `SemanticInv` (38 685 states) before the proof; the first attempt was not inductive
because it did not say that a compiler works for a delete only while that delete waits for it.

### Schema models (`SqliteWriterProofs`, third part)

`SchemaStaysWhole`, that `SchemaModel!SchemaIsWhole` always holds, by `SchemaInv`, for any
documents, sheets, concepts and number of generations, under `SchemaAssumption` (there is a
generation to compile under; `ServicesMC` has TLC evaluate it).

* The compiler: cells are read after the document's row, so they may be of a later generation
  than the one they are stored under; they are of some generation of the document, or there
  were none and nothing is stored under any (`CompilerReads`, `NothingIsDetected`). A sheet
  that was published stays what it was (`ModelsStay`), so that `StoredWhole` survives every
  publication and the delete.
* The reader takes no snapshot: it reads generations, tables, fields and concepts one by one.
  As long as nothing was replaced the generation it looks for is the one that is stored, and
  what it has read so far is that part of the stored model (`ReaderLoads`); with the concepts
  it has all of it. A reader beside which a model was replaced may cache a mixture: the flag
  `disturbed` says which these are, and the theorem says nothing about them.

That the compilation of a sheet finds the right tables (`CompiledIsSound`, the other half of
what `SV_Services` checks as `SchemaIsWhole`) is about a fold over its rows and stays with TLC.
TLC checked `SchemaInv` with two documents (3 114 215 states) before the proof.

### The application (`AppLifecycleProofs`)

`DirectoryHasOneOwner`, `ProcessLeavesNothing`, `HelpersStayCurrent` and their conjunction
`DirectoryStaysOwned`, for any number of processes, versions, configurations and crashes,
by `LifecycleInv`: every process is `Sound`, in three parts.

* `Owns`: at which steps a process holds the lock, has the database open and may have a
  transaction under way. A migration raises `applied` while its process holds the lock, so
  *knows its schema* is stable for the owner only because no other process is past
  `AcquireInstanceLock`.
* `Stops`: what each step of the shutdown has already taken down, with the exceptions of a
  shutdown that ran out of time (`overdue`).
* `Follows`: the helpers, and not only between updates: which of the captured adapters
  belong to the old manager and which to the new one at each half-way step of
  `UpdateConfigWithContext`. `HelpersAreCurrent` speaks of settled processes and is not
  inductive without it.

A step of one process changes the shared file, the lock and the schema under the others:
`StepSound` shows that each stays `Sound`, because whoever could be contradicted would have
to hold the lock as well. The one disagreement that the code allows is `stale`: the
configuration is loaded before the lock is taken, so another process may save a newer one in
between. TLC checked `LifecycleInv` with two processes of different versions (285 734 states)
before the proof.

### Batches (`AppLifecycleProofs`, second part)

`BatchesAreDone` by `BatchInv`, for any number of items and attempts, under
`BatchAssumption` (`ServicesMC` has TLC evaluate it). What the four kinds of command owe to an
item is one formula (`Settled`), and:

* `ItemKept`: a marker that lets a replay pass an item by (`operationItemResolved`) implies
  that the item is settled; for `restore_base`, which never reads its markers, the copy itself
  is the marker (a copy that took effect stays ready).
* the items before the one a sequential attempt is at are settled, or the attempt has
  recorded a failure and will answer with it;
* `FateKept`: what an import has planned or started is marked pending, so it was not committed
  by an earlier attempt, and what it passes over is settled or dropped.

`dropped` is the deviation named in section 3; everything outside it is proved. TLC checked
`BatchInv` before the proof.

### Intake of commands (`CommandIntakeProofs`)

`RetriesGetTheirCommand`, `ReindexesAreOfNow` and the action property `KnownKeysAreServed`
by `IntakeInv`, for any clients, requests, keys, credentials and times, under
`IntakeAssumption` (`ContentMC` has TLC evaluate it for each of its meetings): a request that
is keyed by what it is about names documents or a base there are. The invariant says of
every call:

* `Serial`: between the look at the rows and its own row a call holds `acceptMu` and no row
  has its key. Without the mutex two calls with one key would both find nothing, and the
  uniqueness of keys (`KeysAreUnique`) would be left to the constraint of the table; the
  theorem says that nobody is ever answered with a violation of that constraint.
* `Served`: the row an accepted call is answered with has the fingerprint and the key of its
  request. Rows are only appended and keep both (`Persist`): retries, the sweep and crashes
  change the state, the times and the payload.
* `OfNow`: a snapshot in a key is not newer than the sources. Versions and epochs only move
  on (`Later`), so the row of a key is made of sources that are as new or newer, whatever
  changes come between the snapshot and the row.

`KnownKeysAreServed` is all that a run checks of a step: `Serial` is why the refusals after
the look never meet a known key, `Persist` why a known key stays known.

### URL captures (`CommandIntakeProofs`, second part)

`OneBodyPerOperation` and `BytesAreKept` by `CaptureInv`: the row decides what an attempt may
hold. Before the row nothing was ingested; an attempt that is about to ingest holds the
bytes of the row, also when the row has expired since; and an item that the commit hook
marked has published them, which is what lets the attempt after a crash go straight to the
clean-up. Neither property is inductive alone: `OneCapture` says nothing about an attempt
that has fetched other bytes and not begun, `CaptureKept` nothing about one on its way to
`ConsumeURLCapture`.

### Only model-checked, and why

* Liveness: `EveryCommandSettles`, `EveryCallAnswered`, `NormalNotStarved`, `AllReturn`.
  It needs fairness and `ENABLED`.
* Composite properties of `ContentMC` and `ServicesMC`: each is a case on `focus` over the
  properties of a dozen components, and the instances reach recursive operators
  (`EvidenceWindow`, `AgentQuery`), beside which nothing is proved. What those components
  compute by recursion over data (windows, walks, orders of versions, merged pieces) would
  need induction over data; TLC compares it with a reference definition on all inputs of
  the instance.

* `DirectorySync`: the documents below a container (`Tree`) are found level by level, by a
  recursion over the depth of the tree, and its property follows the order of the scan, a
  sequence of paths. What they contain for every tree needs induction over data as well.

## 7. Not modelled

* Queue: `operation_events` (written with the row in the same transaction), metrics and
  sampling, the admission gate of models (an extra wait between claim and executor that ends
  like a failing executor), command types without an executor, the validation of requests.
* Writer: statistics, panics of callbacks, `Start` called twice.
* Uploads: names and paths; `expires_at` is a choice of recovery which sessions are past
  their time.
* Publication: moves between directories, related documents, document rows of versions
  before the migration that introduced fingerprints, checkpoints and integrity checks,
  purging of the quarantine.
* Text: the formats inside files and helpers, image captions, scores of quality. Search: SQL,
  the index, vectors, scores; they are orders and sets of hits. Memory: how the sentences of
  units are made, wiki pages, `structuralContext`, `BindDocument`.
* Runtime: the wire protocol, `managed.go`, `registerOptionalHealth`, the OCR bundle and the
  Ollama client.
* `jobs.Manager`, `DeriveHistoricalTimeline`, `phaseSegments` and `groupSegment` have no
  caller outside tests.
* Reading the operating system, configuration files, logging, evaluation, command line
  tools, scripts and web assets: no state of their own that another part depends on.

The components with their reasons are in `PROJECT.json` "components".

## 8. Plan

Every module of section 2 is written, with the runs and proofs above. What could follow are
the parts named *not modelled* in section 7, of which `operation_events` is the first.
