---------------------------- MODULE BatchCommands ----------------------------
(* The commands about several documents: delete_documents, reindex_documents  *)
(* and reindex_base, restore_base, import_files (internal/app/operations.go,  *)
(* internal/knowledge) with the items that record what an attempt has done    *)
(* (internal/operations/items.go). One command with its attempts, one after   *)
(* the other (OperationQueue); what one document goes through is in           *)
(* DocumentGenerations, here an effect is one step.                           *)
EXTENDS Naturals, FiniteSets

CONSTANTS
    N,              \* the items of the command, in their order
    MaxAttempts,    \* bound: claims
    MaxEvents       \* bound: failures, crashes, deletes by others, together

VARIABLES
    kind, policy,   \* the command, and the conflict policy of an import
    state, attempt, \* of its operation
    mark,           \* operation_items
    target,         \* the document of each item
    sources,        \* restore: the documents of the source base
    effects,        \* history: how often an item took effect
    dropped,        \* history: files that an import gave up without a failure
    run,            \* the executor
    incidents

BatchAssumption == N \in Nat /\ MaxAttempts \in Nat

vars == <<kind, policy, state, attempt, mark, target, sources, effects, dropped, run, incidents>>

Item == 1 .. N
Event == incidents < MaxEvents /\ incidents' = incidents + 1

NoRun == [pc |-> "idle", next |-> 1, failed |-> FALSE, fate |-> [i \in Item |-> "none"]]

\* markItemTx: a committed item stays committed.
Marked(i, m) == IF mark[i] = "committed" THEN mark ELSE [mark EXCEPT ![i] = m]

\* operationItemResolved: what an earlier attempt settled is not done again.
ResolvedNever(i) == FALSE \* mutant
Resolved(i) == mark[i] \in {"committed", "skipped"}

\* The hook marks the item in the transaction of its effect.
Effect(i, t) ==
    /\ target' = [target EXCEPT ![i] = t]
    /\ effects' = [effects EXCEPT ![i] = @ + 1]
    /\ mark' = [mark EXCEPT ![i] = "committed"]

item == run.next
Advance(failed) == run' = [run EXCEPT !.pc = "loop", !.next = @ + 1, !.failed = @ \/ failed]
End(s) == state' = s /\ run' = NoRun

----------------------------------------------------------------------------
\* The operation around its attempts, and other commands.

Claim ==
    /\ state = "queued" /\ attempt < MaxAttempts
    /\ state' = "running" /\ attempt' = attempt + 1
    /\ run' = [NoRun EXCEPT !.pc = IF kind = "import" THEN "prepare" ELSE "loop"]
    /\ UNCHANGED <<mark, target, sources, effects, dropped, incidents>>

Retry ==
    /\ state = "failed" /\ state' = "queued"
    /\ UNCHANGED <<attempt, mark, target, sources, effects, dropped, run, incidents>>

Crash ==
    /\ Event /\ state = "running" /\ End("queued")
    /\ UNCHANGED <<attempt, mark, target, sources, effects, dropped>>

\* Another command deletes a document this one is about.
OtherDeletes(i) ==
    /\ Event
    /\ \/ /\ kind \in {"delete", "reindex"} /\ target[i] = "ready"
          /\ target' = [target EXCEPT ![i] = "fenced"] /\ UNCHANGED sources
       \/ /\ kind = "restore" /\ i \in sources
          /\ sources' = sources \ {i} /\ UNCHANGED target
    /\ UNCHANGED <<state, attempt, mark, effects, dropped, run>>

----------------------------------------------------------------------------
\* delete_documents, reindex_documents, reindex_base: one item at a time.

AtItem(k) == kind \in k /\ run.pc = "loop" /\ item <= N

SkipResolved ==
    /\ AtItem({"delete", "reindex"}) /\ Resolved(item)
    /\ Advance(FALSE)
    /\ UNCHANGED <<state, attempt, mark, target, sources, effects, dropped, incidents>>

ReadItem ==
    /\ AtItem({"delete", "reindex"}) /\ ~Resolved(item)
    /\ IF kind = "reindex" /\ target[item] # "ready"
       THEN mark' = Marked(item, "skipped") /\ Advance(FALSE)
       ELSE run' = [run EXCEPT !.pc = "work"] /\ UNCHANGED mark
    /\ UNCHANGED <<state, attempt, target, sources, effects, dropped, incidents>>

\* A document deleted since it was read refuses its new generation.
Reindex ==
    /\ kind = "reindex" /\ run.pc = "work" /\ target[item] = "ready"
    /\ Effect(item, "ready")
    /\ \/ Advance(FALSE) /\ UNCHANGED incidents
       \/ Advance(TRUE) /\ Event
    /\ UNCHANGED <<state, attempt, sources, dropped>>

\* The clean-up after the fence may fail; a tombstone is cleaned once more.
Delete ==
    /\ kind = "delete" /\ run.pc = "work"
    /\ \/ target[item] = "ready" /\ Effect(item, "fenced") /\ Advance(TRUE) /\ Event
       \/ target[item] = "ready" /\ Effect(item, "gone") /\ Advance(FALSE) /\ UNCHANGED incidents
       \/ /\ target[item] # "ready" /\ Advance(FALSE)
          /\ target' = [target EXCEPT ![item] = "gone"] /\ mark' = Marked(item, "committed")
          /\ UNCHANGED <<effects, incidents>>
    /\ UNCHANGED <<state, attempt, sources, dropped>>

WorkFails ==
    /\ run.pc = "work"
    /\ IF kind = "reindex" /\ target[item] # "ready" THEN UNCHANGED incidents ELSE Event
    /\ mark' = Marked(item, "failed") /\ Advance(TRUE)
    /\ UNCHANGED <<state, attempt, target, sources, effects, dropped>>

\* A marker or a row that cannot be read or written ends the attempt.
MarkFails ==
    /\ Event /\ run.pc \in {"loop", "work", "prepare"} /\ End("failed")
    /\ UNCHANGED <<attempt, mark, target, sources, effects, dropped>>

Answer(failed) == IF failed THEN "failed" ELSE "succeeded"
Finish ==
    /\ kind # "import" /\ run.pc = "loop" /\ item > N
    /\ End(Answer(run.failed))
    /\ UNCHANGED <<attempt, mark, target, sources, effects, dropped, incidents>>

----------------------------------------------------------------------------
\* restore_base: the copies have ids derived from the ids of their sources. A
\* copy that is ready is not made again; the items are written, never read.

RestoreNext ==
    /\ AtItem({"restore"})
    /\ IF item \notin sources \/ target[item] = "ready"
       THEN Advance(FALSE) /\ UNCHANGED target
       ELSE /\ run' = [run EXCEPT !.pc = "copy"]
            /\ target' = [target EXCEPT ![item] = "started"]
    /\ UNCHANGED <<state, attempt, mark, sources, effects, dropped, incidents>>

RestorePublishes ==
    /\ run.pc = "copy" /\ Effect(item, "ready") /\ Advance(FALSE)
    /\ UNCHANGED <<state, attempt, sources, dropped, incidents>>

\* The first failure, a source deleted since its page was read among them, ends it.
RestoreFails ==
    /\ \/ run.pc = "copy" /\ Event
       \/ AtItem({"restore"}) /\ item \notin sources /\ UNCHANGED incidents
    /\ End("failed")
    /\ UNCHANGED <<attempt, mark, target, sources, effects, dropped>>

----------------------------------------------------------------------------
\* import_files: ids are allocated, the whole batch is planned, and workers
\* import the files beside one another.

prepareImportFilesOperation ==
    /\ run.pc = "prepare"
    /\ mark' = [i \in Item |-> IF Resolved(i) THEN mark[i] ELSE "pending"]
    /\ run' = [run EXCEPT !.pc = "plan",
                          !.fate = [i \in Item |-> IF Resolved(i) THEN mark[i] ELSE "planned"]]
    /\ UNCHANGED <<state, attempt, target, sources, effects, dropped, incidents>>

\* An interrupted import has left a row with the title and the hash of its file,
\* and the plan takes it for another document: a conflict, to be deleted by
\* "replace", or, with "rename" and "keep", a duplicate. A conflict of any file,
\* also of one that was imported before, ends "detect" without an error.
Planned(i) == run.fate[i] = "planned"
Own(i) == Planned(i) /\ target[i] = "started"
Fenced(I) == [i \in Item |-> IF i \in I THEN "fenced" ELSE target[i]]
Conflicts == policy = "detect" /\ \E i \in Item : target[i] \in {"started", "ready"}

planFileBatch ==
    /\ run.pc = "plan"
    /\ dropped' = dropped \cup {i \in Item : IF Conflicts THEN Planned(i) ELSE Own(i)}
    /\ IF Conflicts THEN End("succeeded") /\ UNCHANGED target
       ELSE /\ target' = IF policy = "replace" THEN Fenced({i \in Item : Own(i)}) ELSE target
            /\ run' = [run EXCEPT !.pc = "workers", !.fate = [i \in Item |->
                          IF policy # "replace" /\ Own(i) THEN "skipped" ELSE @[i]]]
            /\ UNCHANGED state
    /\ UNCHANGED <<attempt, mark, sources, effects, incidents>>

\* It may fail after it has deleted some of what it replaces.
PlanFails ==
    /\ run.pc = "plan" /\ Event /\ End("failed")
    /\ \E I \in SUBSET {i \in Item : policy = "replace" /\ Own(i)} :
           target' = Fenced(I) /\ dropped' = dropped \cup I
    /\ UNCHANGED <<attempt, mark, sources, effects>>

Stopped == \E i \in Item : run.fate[i] = "error"

StartFile(i) ==
    /\ run.pc = "workers" /\ Planned(i) /\ target[i] # "fenced"
    /\ target' = [target EXCEPT ![i] = "started"]
    /\ run' = [run EXCEPT !.fate[i] = "started"]
    /\ UNCHANGED <<state, attempt, mark, sources, effects, dropped, incidents>>

PublishFile(i) ==
    /\ run.pc = "workers" /\ run.fate[i] = "started"
    /\ Effect(i, "ready")
    /\ run' = [run EXCEPT !.fate[i] = "committed"]
    /\ UNCHANGED <<state, attempt, sources, dropped, incidents>>

\* A tombstone refuses the ingest; otherwise reading or indexing fails.
FileFails(i) ==
    /\ run.pc = "workers" /\ run.fate[i] \in {"planned", "started"}
    /\ IF target[i] = "fenced" THEN UNCHANGED incidents ELSE Event
    /\ run' = [run EXCEPT !.fate[i] = "error"]
    /\ UNCHANGED <<state, attempt, mark, target, sources, effects, dropped>>

\* markImportFilesResult: whatever was not imported is marked skipped, files that
\* failed and files that no worker took among them; writing the markers may fail.
AllAnswered ==
    /\ run.pc = "workers" /\ \A i \in Item : run.fate[i] # "started"
    /\ Stopped \/ \A i \in Item : run.fate[i] # "planned"
    /\ \E k \in 0 .. N :
        /\ mark' = [i \in Item |-> IF i <= k THEN Marked(i, "skipped")[i] ELSE mark[i]]
        /\ dropped' = dropped \cup {i \in 1 .. k : run.fate[i] \in {"error", "planned"}}
        /\ IF k = N THEN End(Answer(Stopped)) /\ UNCHANGED incidents
                    ELSE End("failed") /\ Event
    /\ UNCHANGED <<attempt, target, sources, effects>>

----------------------------------------------------------------------------
Init ==
    /\ kind \in {"delete", "reindex", "restore", "import"}
    /\ policy \in IF kind = "import" THEN {"rename", "replace", "detect"} ELSE {"none"}
    /\ state = "queued" /\ attempt = 0 /\ incidents = 0
    /\ mark = [i \in Item |-> "none"]
    /\ target = [i \in Item |-> IF kind \in {"delete", "reindex"} THEN "ready" ELSE "none"]
    /\ sources = IF kind = "restore" THEN Item ELSE {}
    /\ effects = [i \in Item |-> 0]
    /\ dropped = {}
    /\ run = NoRun

Next ==
    /\ \/ Claim \/ Retry \/ Crash
       \/ SkipResolved \/ ReadItem \/ Reindex \/ Delete \/ WorkFails \/ MarkFails \/ Finish
       \/ RestoreNext \/ RestorePublishes \/ RestoreFails
       \/ prepareImportFilesOperation \/ planFileBatch \/ PlanFails \/ AllAnswered
       \/ \E i \in Item : OtherDeletes(i) \/ StartFile(i) \/ PublishFile(i) \/ FileFails(i)
    /\ UNCHANGED <<kind, policy>>

Spec == Init /\ [][Next]_vars

----------------------------------------------------------------------------
\* Properties.

\* Type correctness; a document is in a state its command can put it into.
TypeOK ==
    /\ state \in {"queued", "running", "succeeded", "failed"} /\ attempt \in 0 .. MaxAttempts
    /\ mark \in [Item -> {"none", "pending", "committed", "skipped", "failed"}]
    /\ target \in [Item -> {"none", "started", "ready", "fenced", "gone"}]
    /\ state = "running" <=> run.pc # "idle"

\* However often a batch is cut off and replayed, no item takes effect twice, an
\* item is committed exactly if it took effect (a delete may find that others did),
\* and a batch that answers success has done all of it: documents are indexed anew
\* or deleted meanwhile, deleted, copied, imported (operationItemResolved,
\* MarkItemTx). The files an import drops are left out: a replay takes the row of
\* its own interrupted attempt for a duplicate, and files that failed are marked
\* skipped, which a retry takes for settled.
BatchIsDone ==
    /\ \A i \in Item :
        /\ effects[i] <= 1
        /\ effects[i] = 1 => mark[i] = "committed"
        /\ mark[i] = "committed" => effects[i] = 1 \/ (kind = "delete" /\ target[i] # "ready")
    /\ state = "succeeded" =>
        /\ kind = "reindex" => \A i \in Item : effects[i] = 1 \/ target[i] # "ready"
        /\ kind = "delete" => \A i \in Item : target[i] # "ready"
        /\ kind = "restore" => \A i \in sources : target[i] = "ready"
        /\ kind = "import" => \A i \in Item \ dropped : target[i] = "ready"

=============================================================================
