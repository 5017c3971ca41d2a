---------------------------- MODULE DirectorySync ----------------------------
(* Directory import and rescan: internal/knowledge/service_dir.go. A sync     *)
(* scans the tree on the disk, reads the documents below its container once,  *)
(* brings the entries in one by one, and deletes the documents that no entry  *)
(* kept. The disk may change and the process die between any two steps.       *)
(*                                                                            *)
(* One sync runs at a time and nobody else writes the rows of its tree; what  *)
(* overlapping ingests and deletes do is in DocumentGenerations. Here an      *)
(* ingest is its start and its end, and a delete one step that succeeds.      *)
EXTENDS Integers, FiniteSets, SequencesExt

CONSTANTS
    Sorted,     \* the paths below a root, sequences of names, in scan order
    Dirs,       \* those that are directories
    Place,      \* where a root may be
    Content,    \* what a file may hold
    Disk,       \* [Place -> [Path \cup {Top} -> Content \cup {"dir", "gone"}]]: at the start
    Retitled,   \* files whose parser finds a title of its own
    Copies,     \* bound: documents of one path
    None,
    MaxEvents   \* bound: changes of the disk, repoints, failures and crashes, together

VARIABLES
    disk,       \* what is at each path
    closed,     \* directories that cannot be listed
    row,        \* the documents table
    sync,       \* the sync under way, or the last one
    events

vars == <<disk, closed, row, sync, events>>

Top == <<>>
Path == ToSet(Sorted)
Directory == Dirs \cup {Top}
Slot == Place \X (Path \cup {Top}) \X (1 .. Copies)     \* document ids
Event == events < MaxEvents /\ events' = events + 1
At(x) == row[x].at
Live == {x \in Slot : row[x] # None}

\* The documents below a container, and the container.
Tree(x) ==
    LET level[n \in 0 .. Cardinality(Directory)] ==
            IF n = 0 THEN {x} ELSE {y \in Live : row[y].parent \in level[n - 1]}
    IN  UNION {level[n] : n \in 0 .. Cardinality(Directory)}

Without(X) == [x \in Slot |-> IF x \in X THEN None ELSE row[x]]

\* A new document: an id no row has and no step of the sync still holds.
Fresh(at) == CHOOSE x \in ({at[1]} \X {at[2]} \X (1 .. Copies)) \ (Live \cup sync.snap \cup sync.kept) : TRUE

Container(at, parent) ==
    [kind |-> "directory", at |-> at, parent |-> parent, hash |-> None,
     title |-> <<IF at[2] = Top THEN at[1] ELSE Last(at[2])>>, status |-> "ready"]
Document(at, parent, title, hash, status) ==
    [kind |-> "file", at |-> at, parent |-> parent, title |-> title, hash |-> hash,
     status |-> status]

NoSync ==
    [pc |-> "idle", result |-> "none", root |-> None, quiet |-> TRUE, failed |-> FALSE,
     seen |-> {}, todo |-> <<>>, snap |-> {}, unready |-> {}, idx |-> {}, kept |-> {},
     ids |-> [d \in Directory |-> None], old |-> None, body |-> None, skipped |-> {}]

place == At(sync.root)[1]
target == At(sync.root)[2]
Here(e) == <<place, e>>
Rel(e) == SubSeq(e, Len(target) + 1, Len(e))

----------------------------------------------------------------------------
\* The world around: the disk, and the process.

\* A file changes or comes; a directory comes, or goes with what is in it.
DiskChanges ==
    /\ Event
    /\ \E p \in Place, e \in Path, c \in Content \cup {"dir", "gone"} :
        /\ c # disk[p][e] /\ (c = "dir" => e \in Dirs) /\ (c \in Content => e \notin Dirs)
        /\ c # "gone" => disk[p][Front(e)] = "dir"
        /\ disk' = [disk EXCEPT ![p] = [f \in Path \cup {Top} |->
                       IF f = e THEN c ELSE IF c = "gone" /\ IsPrefix(e, f) THEN c ELSE @[f]]]
    /\ sync' = [sync EXCEPT !.quiet = FALSE]
    /\ UNCHANGED <<closed, row>>

AccessChanges ==
    /\ Event
    /\ \E d \in Place \X Directory :
        closed' = IF d \in closed THEN closed \ {d} ELSE closed \cup {d}
    /\ sync' = [sync EXCEPT !.quiet = FALSE]
    /\ UNCHANGED <<disk, row>>

\* The process dies or the command is cancelled, and nothing more is recorded.
\* The next start fails a row that was being worked on (or leaves it pending,
\* which is no more ready than that); after a cancel it stays as it was.
Interrupted ==
    /\ Event /\ sync.pc # "idle"
    /\ row' \in {row, [x \in Slot |-> IF x \in Live /\ row[x].status = "processing"
                                     THEN [row[x] EXCEPT !.status = "failed"] ELSE row[x]]}
    /\ sync' = NoSync
    /\ UNCHANGED <<disk, closed>>

----------------------------------------------------------------------------
\* The commands.

Begin(x, rows) ==
    /\ row' = [rows EXCEPT ![x].status = "processing"]
    /\ sync' = [NoSync EXCEPT !.pc = "scan", !.root = x]
    /\ UNCHANGED <<disk, closed, events>>

\* prepareDirectoryImport: the container of the path, or a new one.
RunDirectoryImport(p) ==
    LET tracked == {x \in Live : At(x) = <<p, Top>>} IN
    /\ sync.pc = "idle"
    /\ IF tracked # {} THEN \E x \in tracked : Begin(x, row)
       ELSE LET x == Fresh(<<p, Top>>)
            IN  Begin(x, [row EXCEPT ![x] = Container(<<p, Top>>, None)])

\* prepareDirectoryRescan: of any container, if its directory is there.
RunDirectoryRescan(x) ==
    /\ sync.pc = "idle" /\ x \in Live /\ row[x].kind = "directory"
    /\ LET at == At(x) IN
       IF disk[at[1]][at[2]] = "gone"
       THEN /\ row' = [row EXCEPT ![x].status = "failed"]
            /\ sync' = NoSync
            /\ UNCHANGED <<disk, closed, events>>
       ELSE Begin(x, row)

RepointSource(x, p) ==
    /\ Event
    /\ sync.pc = "idle" /\ x \in Live /\ row[x].parent = None /\ At(x)[1] # p
    /\ row' = [row EXCEPT ![x].at = <<p, Top>>]
    /\ sync' = NoSync
    /\ UNCHANGED <<disk, closed>>

----------------------------------------------------------------------------
\* One sync.

\* Directories that can be listed show what is in them. One that cannot is an
\* entry with an error: it counts as a failure, and nothing else is recorded.
Listed(d) == <<place, d>> \notin closed /\ disk[place][d] = "dir"
Seen(e) ==
    /\ IsStrictPrefix(target, e) /\ disk[place][e] # "gone"
    /\ \A d \in Directory : IsPrefix(target, d) /\ IsStrictPrefix(d, e) => Listed(d)
Unlisted == {d \in Directory : (d = target \/ Seen(d)) /\ ~Listed(d)}

scanDirectoryTree ==
    /\ sync.pc = "scan"
    /\ sync' = [sync EXCEPT !.pc = "entries", !.seen = {e \in Path : Seen(e)},
                            !.todo = SelectSeq(Sorted, Seen), !.failed = Unlisted # {},
                            !.snap = Tree(sync.root), !.idx = Tree(sync.root),
                            !.unready = {x \in Tree(sync.root) \ {sync.root} :
                                row[x].kind = "directory" /\ row[x].status # "ready"},
                            !.ids = [@ EXCEPT ![target] = sync.root]]
    /\ UNCHANGED <<disk, closed, row, events>>

entry == Head(sync.todo)
parent == sync.ids[Front(entry)]
AtEntry(dir) == sync.pc = "entries" /\ sync.todo # <<>> /\ (entry \in Dirs) = dir
Advance(s) == [s EXCEPT !.pc = "entries", !.todo = Tail(@), !.old = None, !.body = None]

\* findChildFile: by path, else by name, in one container.
Child(y) ==
    LET children == {x \in sync.idx : row[x].kind = "file" /\ row[x].parent = y}
        exact == {x \in children : At(x) = Here(entry)}
    IN  IF exact # {} THEN exact ELSE {x \in children : Last(At(x)[2]) = Last(entry)}

\* findDocumentByTitle looks for the path relative to the root in the whole base.
Namesakes == {x \in Live : row[x].title = Rel(entry)}
Existing == IF Child(parent) # {} THEN Child(parent) ELSE Namesakes

\* recordChildFailure marks the row of the file, or makes one; the id is kept.
KeptOf(x) == {x}
Failure(y) ==
    \E x \in IF Child(y) # {} THEN Child(y) ELSE {Fresh(Here(entry))} :
        /\ row' = [row EXCEPT ![x] = IF x \in Live THEN [@ EXCEPT !.status = "failed"]
                       ELSE Document(Here(entry), y, Rel(entry), None, "failed")]
        /\ sync' = Advance([sync EXCEPT !.failed = TRUE, !.idx = @ \cup {x},
                                        !.kept = @ \cup KeptOf(x)])

syncDirectoryContainer ==
    /\ AtEntry(TRUE) /\ parent # None
    /\ \/ /\ \E x \in LET known == {y \in sync.idx : row[y].kind = "directory" /\
                                        row[y].parent = parent /\ At(y) = Here(entry)}
                      IN  IF known # {} THEN known ELSE {Fresh(Here(entry))} :
                /\ row' = IF x \in Live THEN row
                          ELSE [row EXCEPT ![x] = Container(Here(entry), parent)]
                /\ sync' = Advance([sync EXCEPT !.idx = @ \cup {x}, !.kept = @ \cup {x},
                                                !.ids = [@ EXCEPT ![entry] = x]])
          /\ UNCHANGED events
       \/ /\ Event /\ sync' = Advance([sync EXCEPT !.failed = TRUE])
          /\ UNCHANGED row
    /\ UNCHANGED <<disk, closed>>

\* "parent directory was not synced": a file is recorded below the root.
ParentMissing ==
    /\ sync.pc = "entries" /\ sync.todo # <<>> /\ parent = None
    /\ IF entry \in Dirs THEN sync' = Advance([sync EXCEPT !.failed = TRUE]) /\ UNCHANGED row
       ELSE Failure(sync.root)
    /\ UNCHANGED <<disk, closed, events>>

Unchanged(x, bytes) == At(x) = Here(entry) /\ row[x].hash = bytes /\ row[x].status = "ready"

\* importChildFile: the bytes are read now. An unchanged file is skipped, and
\* its document not kept.
ReadFile ==
    LET bytes == disk[place][entry] IN
    /\ AtEntry(FALSE) /\ parent # None /\ bytes # "gone"
    /\ \E x \in IF Existing # {} THEN Existing ELSE {None} :
        sync' = IF x # None /\ Unchanged(x, bytes)
                THEN Advance([sync EXCEPT !.skipped = @ \cup {entry}])
                ELSE [sync EXCEPT !.pc = IF x = None THEN "start" ELSE "replace",
                                  !.old = x, !.body = bytes]
    /\ UNCHANGED <<disk, closed, row, events>>

\* The file has gone since the scan, or cannot be read.
ReadFails ==
    /\ AtEntry(FALSE) /\ parent # None
    /\ IF disk[place][entry] = "gone" THEN UNCHANGED events ELSE Event
    /\ Failure(parent)
    /\ UNCHANGED <<disk, closed>>

\* The old document goes before the new one is there.
DeleteReplaced ==
    /\ sync.pc = "replace"
    /\ row' = Without(Tree(sync.old))
    /\ sync' = [sync EXCEPT !.pc = "start", !.idx = @ \ {sync.old}]
    /\ UNCHANGED <<disk, closed, events>>

StartIngest ==
    /\ sync.pc = "start"
    /\ row' = [row EXCEPT ![Fresh(Here(entry))] = Document(Here(entry), parent, Rel(entry), None, "processing")]
    /\ sync' = [sync EXCEPT !.pc = "ingest", !.old = Fresh(Here(entry))]
    /\ UNCHANGED <<disk, closed, events>>

EndIngest ==
    /\ sync.pc = "ingest"
    /\ \E ok \in BOOLEAN :
        /\ IF ok THEN UNCHANGED events ELSE Event
        /\ row' = [row EXCEPT ![sync.old] =
                      [@ EXCEPT !.hash = sync.body, !.status = IF ok THEN "ready" ELSE "failed",
                                !.title = IF ok /\ entry \in Retitled THEN None ELSE @]]
        /\ sync' = Advance([sync EXCEPT !.failed = @ \/ ~ok, !.idx = @ \cup {sync.old},
                                        !.kept = @ \cup {sync.old}])
    /\ UNCHANGED <<disk, closed>>

\* Documents of the tree, as it was read at the start, that no entry kept.
NotKeptOfNothing == {} \* mutant
NotKept == sync.snap \ (sync.kept \cup {sync.root})
Stale == NotKept \cap Live

DeleteStale ==
    /\ sync.pc = "entries" /\ sync.todo = <<>> /\ Stale # {}
    /\ row' = Without(Tree(CHOOSE x \in Stale : TRUE))
    /\ UNCHANGED <<disk, closed, sync, events>>

\* Without a failure the containers that were not ready are made so, one by one;
\* one that was deleted above cannot be found, and its absence fails the sync.
Settle ==
    LET lost == sync.unready \ Live
        ok == ~sync.failed /\ lost = {}
    IN
    /\ sync.pc = "entries" /\ sync.todo = <<>> /\ Stale = {}
    /\ \E healed \in SUBSET (sync.unready \ lost) :
        /\ sync.failed => healed = {}
        /\ ok => healed = sync.unready
        /\ row' = [x \in Slot |->
                     IF x = sync.root THEN [row[x] EXCEPT !.status = IF ok THEN "ready" ELSE "failed"]
                     ELSE IF x \in healed THEN [row[x] EXCEPT !.status = "ready"] ELSE row[x]]
    /\ sync' = [NoSync EXCEPT !.result = IF ok THEN "ok" ELSE "failed", !.root = sync.root,
                    !.quiet = sync.quiet, !.seen = sync.seen, !.skipped = sync.skipped]
    /\ UNCHANGED <<disk, closed, events>>

----------------------------------------------------------------------------
Init ==
    /\ disk = Disk /\ closed = {} /\ events = 0
    /\ row = [x \in Slot |-> None]
    /\ sync = NoSync

Next ==
    \/ DiskChanges \/ AccessChanges \/ Interrupted
    \/ \E p \in Place : RunDirectoryImport(p) \/ \E x \in Slot : RepointSource(x, p)
    \/ \E x \in Slot : RunDirectoryRescan(x)
    \/ scanDirectoryTree \/ syncDirectoryContainer \/ ParentMissing \/ ReadFile \/ ReadFails
    \/ DeleteReplaced \/ StartIngest \/ EndIngest \/ DeleteStale \/ Settle

Spec == Init /\ [][Next]_vars

----------------------------------------------------------------------------
\* Properties.

\* Type correctness of the rows a sync writes and of the ids it holds.
TypeOK ==
    /\ \A x \in Live : row[x].kind \in {"file", "directory"}
                       /\ row[x].status \in {"ready", "processing", "failed"}
    /\ sync.snap \cup sync.idx \cup sync.kept \subseteq Slot

Below == Tree(sync.root) \ {sync.root}
DocumentsOf(e) == {x \in Below : At(x)[2] = e}

\* A sync that succeeded leaves the tree of its root as the disk is: every
\* document ready, with the bytes of its file, every file and directory once and
\* nothing else, if the disk stayed as it was (runDirectorySync). The documents
\* of unchanged files are left out: importChildFile does not return them, and the
\* last loop deletes them.
SyncedMirrorsDisk ==
    sync.result = "ok" /\ sync.quiet =>
        /\ \A x \in Below :
            /\ row[x].status = "ready" /\ At(x)[1] = place
            /\ disk[place][At(x)[2]] = IF row[x].kind = "directory" THEN "dir" ELSE row[x].hash
        /\ \A e \in Path : Cardinality(DocumentsOf(e)) = IF Seen(e) /\ e \notin sync.skipped THEN 1 ELSE 0

\* Whatever failed, every file the scan saw has one document when the sync ends,
\* ready or failed: a file that cannot be read or ingested is shown as failed and
\* never forgotten (recordChildFailure, importChildFile).
EntriesHaveRows ==
    sync.result \in {"ok", "failed"} =>
        \A e \in sync.seen \ (Dirs \cup sync.skipped) : Cardinality(DocumentsOf(e)) = 1
=============================================================================
