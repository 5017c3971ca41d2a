---------------------------- MODULE UploadStaging ----------------------------
(***************************************************************************)
(* Upload sessions of internal/operations: a client creates a session, puts *)
(* bytes that are staged by a rename, completes it, and binds it to a       *)
(* command; the bytes are removed when the command cannot run again.        *)
(* Session rows and staged files are two stores that a handler changes one  *)
(* after the other: the process may die, and other requests may run, in     *)
(* between.                                                                 *)
(*                                                                          *)
(* Of the command (OperationQueue) only what the lease depends on is kept.  *)
(* "open" is failed or interrupted with a retry left, "spent" the same      *)
(* without one, "settled" is succeeded or cancelled; how many attempts      *)
(* there are is left open.                                                  *)
(***************************************************************************)
EXTENDS Integers, FiniteSets

CONSTANTS
    Upload,         \* sessions, each one for at most one command
    Put,            \* concurrent content requests
    Content,        \* what a request may send
    None,
    Size,           \* [Content -> Nat]
    Accepts,        \* contents that match the declared size and digest of a session
    Reservation,    \* bytes a put of a session reserves
    TempLimit, UploadLimit,
    MaxClosing,     \* bound: workers that close a lease at the same time
    MaxFaults,      \* bound: failed or unanswered writes
    MaxStarts       \* bound: starts of the process

ASSUME UploadAssumption ==
    /\ IsFiniteSet(Upload) /\ IsFiniteSet(Put) /\ None \notin Content \cup Upload
    /\ Size \in [Content -> Nat \ {0}]
    /\ Accepts \in [Upload -> SUBSET Content]
    /\ Reservation \in [Upload -> Nat]
    /\ \A u \in Upload : \A c \in Accepts[u] : Size[c] <= Reservation[u]
ASSUME BoundAssumption ==
    /\ TempLimit \in Nat /\ UploadLimit \in Nat
    /\ MaxClosing \in Nat /\ MaxFaults \in Nat /\ MaxStarts \in Nat

VARIABLES
    \* the upload_sessions table and the staging directory
    state, recorded,    \* state column; the content size_bytes and sha256 describe
    staged,             \* the file at the staging path
    orphans,            \* bytes of temporary files that dead processes left
    \* the command of each session, and what it imported
    command, imported,
    \* requests and workers of the process
    put, putUpload, putContent,
    tempReserved,       \* Service.tempReserved
    retrying,           \* commands some retry request read as open
    releasing,          \* <<session, stage>> of workers closing a lease
    \* the process
    phase,              \* down, up, or the pass of recover that is under way
    todo,               \* sessions the pass has still to handle
    removed,            \* the session whose file is removed and whose row is next
    faults, starts      \* bounds used up

storeVars   == <<state, recorded, staged, orphans>>
commandVars == <<command, imported>>
putVars     == <<put, putUpload, putContent, tempReserved>>
workVars    == <<retrying, releasing>>
procVars    == <<phase, todo, removed, starts>>
vars == <<storeVars, commandVars, putVars, workVars, procVars, faults>>

States   == {"absent", "uploading", "complete", "bound", "released", "expired"}
Retained == {"uploading", "complete", "bound"}
Commands == {"none", "live", "open", "spent", "settled"}
Over     == {"spent", "settled"}

\* An update of a row commits or not; only a committed one may be answered.
Outcome == {"ok", "unknownCommitted", "failed"}
Write(res) ==
    /\ res # "ok" => faults < MaxFaults
    /\ faults' = IF res = "ok" THEN faults ELSE faults + 1

SetState(u, s, res) == state' = IF res = "failed" THEN state ELSE [state EXCEPT ![u] = s]

----------------------------------------------------------------------------
\* The client's side: create, put, complete, submit.

CreateUpload(u) ==
    /\ phase = "up" /\ state[u] = "absent"
    /\ state' = [state EXCEPT ![u] = "uploading"]
    /\ UNCHANGED <<recorded, staged, orphans, commandVars, putVars, workVars, procVars, faults>>

reserveTemp(n) ==
    /\ tempReserved + n <= TempLimit
    /\ tempReserved' = tempReserved + n
releaseTemp(n) == tempReserved' = IF tempReserved < n THEN 0 ELSE tempReserved - n

\* The state of the session is looked at here, and not before the rename.
PutBegin(p, u) ==
    /\ phase = "up" /\ put[p] = "idle" /\ state[u] = "uploading"
    /\ reserveTemp(Reservation[u])
    /\ put' = [put EXCEPT ![p] = "copying"]
    /\ putUpload' = [putUpload EXCEPT ![p] = u]
    /\ UNCHANGED <<storeVars, commandVars, putContent, workVars, procVars, faults>>

\* The request is over; its temporary file is gone or renamed.
PutDone(p) ==
    /\ put' = [put EXCEPT ![p] = "idle"]
    /\ putUpload' = [putUpload EXCEPT ![p] = None]
    /\ putContent' = [putContent EXCEPT ![p] = None]

\* The body breaks off, is too large, or does not match what was declared.
PutRejected(p) ==
    /\ put[p] = "copying"
    /\ PutDone(p)
    /\ releaseTemp(Reservation[putUpload[p]])
    /\ UNCHANGED <<storeVars, commandVars, workVars, procVars, faults>>

PutPublish(p, c) ==
    /\ put[p] = "copying" /\ c \in Accepts[putUpload[p]]
    /\ staged' = [staged EXCEPT ![putUpload[p]] = c]
    /\ releaseTemp(Reservation[putUpload[p]])
    /\ put' = [put EXCEPT ![p] = "recording"]
    /\ putContent' = [putContent EXCEPT ![p] = c]
    /\ UNCHANGED <<state, recorded, orphans, commandVars, putUpload, workVars, procVars, faults>>

RecordsAlways(u) == TRUE    \* mutant
Records(u) == state[u] = "uploading"

\* The digest is recorded while the session is uploading; nobody looks at the row count.
PutRecord(p) ==
    /\ put[p] = "recording"
    /\ \E res \in Outcome :
        /\ Write(res)
        /\ recorded' = IF res # "failed" /\ Records(putUpload[p])
                          THEN [recorded EXCEPT ![putUpload[p]] = putContent[p]] ELSE recorded
        /\ IF res = "ok" THEN PutDone(p)
           ELSE /\ put' = [put EXCEPT ![p] = "unlinking"]
                /\ UNCHANGED <<putUpload, putContent>>
    /\ UNCHANGED <<state, staged, orphans, commandVars, tempReserved, workVars, procVars>>

\* The update answered an error: the staged file is removed, whoever staged it.
PutUnlink(p) ==
    /\ put[p] = "unlinking"
    /\ staged' = [staged EXCEPT ![putUpload[p]] = None]
    /\ PutDone(p)
    /\ UNCHANGED <<state, recorded, orphans, commandVars, tempReserved, workVars, procVars, faults>>

SizeOf(c) == IF c = None THEN 0 ELSE Size[c]
BytesOf(S) == UNION {{u} \X (1 .. SizeOf(recorded[u])) : u \in S}
RetainedBytes(S) == Cardinality(BytesOf(S))

\* The quota check of one transaction counts every session that keeps bytes.
CompleteUpload(u) ==
    /\ phase = "up" /\ state[u] = "uploading" /\ recorded[u] # None
    /\ RetainedBytes({v \in Upload \ {u} : state[v] \in Retained}) + Size[recorded[u]]
         <= UploadLimit
    /\ state' = [state EXCEPT ![u] = "complete"]
    /\ UNCHANGED <<recorded, staged, orphans, commandVars, putVars, workVars, procVars, faults>>

\* Submit binds a completed session to its command in the transaction that accepts it.
Submit(u) ==
    /\ phase = "up" /\ state[u] = "complete"
    /\ state' = [state EXCEPT ![u] = "bound"]
    /\ command' = [command EXCEPT ![u] = "live"]
    /\ UNCHANGED <<recorded, staged, orphans, imported, putVars, workVars, procVars, faults>>

----------------------------------------------------------------------------
\* The command: import, finish, cancel, retry.

\* The executor takes the staged file when its size is the recorded one.
Import(u) ==
    /\ phase = "up" /\ command[u] = "live" /\ imported[u] = None
    /\ state[u] = "bound" /\ staged[u] # None
    /\ SizeOf(staged[u]) = SizeOf(recorded[u])
    /\ imported' = [imported EXCEPT ![u] = staged[u]]
    /\ UNCHANGED <<storeVars, command, putVars, workVars, procVars, faults>>

\* The finished attempt looks at the command next, to see if the lease is over.
Finish(u) ==
    /\ phase = "up" /\ command[u] = "live" /\ Cardinality(releasing) < MaxClosing
    /\ \E c \in {"open", "spent", "settled"} : command' = [command EXCEPT ![u] = c]
    /\ releasing' = releasing \cup {<<u, "look">>}
    /\ UNCHANGED <<storeVars, imported, putVars, retrying, procVars, faults>>

\* A queued command is cancelled at once, and no worker closes its lease.
CancelQueued(u) ==
    /\ phase = "up" /\ command[u] = "live"
    /\ command' = [command EXCEPT ![u] = "settled"]
    /\ UNCHANGED <<storeVars, imported, putVars, workVars, procVars, faults>>

RetryRead(u) ==
    /\ phase = "up" /\ command[u] = "open"
    /\ retrying' = retrying \cup {u}
    /\ UNCHANGED <<storeVars, commandVars, putVars, releasing, procVars, faults>>

\* The retry commits on the state it read; other requests may have read the same.
RetryTx(u) ==
    /\ u \in retrying
    /\ command' = IF command[u] \in {"open", "spent"} THEN [command EXCEPT ![u] = "live"]
                  ELSE command
    /\ retrying' \in {retrying, retrying \ {u}}
    /\ UNCHANGED <<storeVars, imported, putVars, releasing, procVars, faults>>

----------------------------------------------------------------------------
\* A worker closes the lease of the attempt it finished: look, remove, publish.

ReleaseStep(u, from, to) ==
    /\ <<u, from>> \in releasing
    /\ releasing' = (releasing \ {<<u, from>>}) \cup to

terminalInputLease(u) == command[u] \in Over

ReleaseLook(u) ==
    /\ ReleaseStep(u, "look", IF terminalInputLease(u) /\ state[u] = "bound"
                              THEN {<<u, "remove">>} ELSE {})
    /\ UNCHANGED <<storeVars, commandVars, putVars, retrying, procVars, faults>>

ReleaseRemove(u) ==
    /\ ReleaseStep(u, "remove", {<<u, "publish">>})
    /\ staged' = [staged EXCEPT ![u] = None]
    /\ UNCHANGED <<state, recorded, orphans, commandVars, putVars, retrying, procVars, faults>>

ReleasePublish(u) ==
    /\ ReleaseStep(u, "publish", {})
    /\ \E res \in Outcome :
        /\ Write(res)
        /\ IF state[u] = "bound" THEN SetState(u, "released", res) ELSE UNCHANGED state
    /\ UNCHANGED <<recorded, staged, orphans, commandVars, putVars, retrying, procVars>>

----------------------------------------------------------------------------
\* The process and its recovery, before it serves requests.

Expirable == {u \in Upload : state[u] \in {"uploading", "complete"}}
DeadLeasesSettledOnly == {u \in Upload : state[u] = "bound" /\ command[u] = "settled"}  \* mutant
DeadLeases == {u \in Upload : state[u] = "bound" /\ command[u] \in Over}

\* What recover makes of the command of a dead process.
Recovered(u) ==
    CASE command[u] = "live" -> {"live", "spent", "settled"}
      [] command[u] = "open" -> {"open", "live", "settled"}
      [] command[u] = "spent" -> {"spent", "settled"}
      [] command[u] \in {"none", "settled"} -> {command[u]}

\* The operations are recovered, then the sessions that are past their time are expired.
Start ==
    /\ phase = "down" /\ starts < MaxStarts
    /\ starts' = starts + 1
    /\ command' \in [Upload -> Commands]
    /\ \A u \in Upload : command'[u] \in Recovered(u)
    /\ phase' = "expire"
    /\ todo' \in SUBSET Expirable
    /\ UNCHANGED <<storeVars, imported, putVars, workVars, removed, faults>>

Sweeping == phase \in {"expire", "release"}

\* The file goes first, the row after it.
SweepRemove(u) ==
    /\ Sweeping /\ removed = None /\ u \in todo
    /\ todo' = todo \ {u} /\ removed' = u
    /\ staged' = [staged EXCEPT ![u] = None]
    /\ UNCHANGED <<state, recorded, orphans, commandVars, putVars, workVars, phase, starts, faults>>

SweepPublish ==
    /\ Sweeping /\ removed # None
    /\ state' = [state EXCEPT ![removed] = IF phase = "expire" THEN "expired" ELSE "released"]
    /\ removed' = None
    /\ UNCHANGED <<recorded, staged, orphans, commandVars, putVars, workVars, phase, todo,
                   starts, faults>>

SweepNext ==
    /\ Sweeping /\ removed = None /\ todo = {}
    /\ phase' = IF phase = "expire" THEN "release" ELSE "clean"
    /\ todo' = IF phase = "expire" THEN DeadLeases ELSE {}
    /\ UNCHANGED <<storeVars, commandVars, putVars, workVars, removed, starts, faults>>

OrphansLeft == 0
cleanupUploadTemps ==
    /\ phase = "clean"
    /\ phase' = "up"
    /\ orphans' = OrphansLeft
    /\ UNCHANGED <<state, recorded, staged, commandVars, putVars, workVars, todo, removed,
                   starts, faults>>

Copying == {p \in Put : put[p] = "copying"}
Reserved == UNION {{p} \X (1 .. Reservation[putUpload[p]]) : p \in Copying}
TempBytes == orphans + Cardinality(Reserved)

\* The process dies, or a write of its recovery fails and it gives up.
Crash ==
    /\ phase # "down" /\ starts < MaxStarts
    /\ phase' = "down" /\ todo' = {} /\ removed' = None
    /\ orphans' = TempBytes
    /\ put' = [p \in Put |-> "idle"]
    /\ putUpload' = [p \in Put |-> None]
    /\ putContent' = [p \in Put |-> None]
    /\ tempReserved' = 0 /\ retrying' = {} /\ releasing' = {}
    /\ UNCHANGED <<state, recorded, staged, commandVars, starts, faults>>

----------------------------------------------------------------------------
Init ==
    /\ state = [u \in Upload |-> "absent"]
    /\ recorded = [u \in Upload |-> None]
    /\ staged = [u \in Upload |-> None]
    /\ orphans = 0
    /\ command = [u \in Upload |-> "none"]
    /\ imported = [u \in Upload |-> None]
    /\ put = [p \in Put |-> "idle"]
    /\ putUpload = [p \in Put |-> None]
    /\ putContent = [p \in Put |-> None]
    /\ tempReserved = 0 /\ retrying = {} /\ releasing = {}
    /\ phase = "down" /\ todo = {} /\ removed = None
    /\ faults = 0 /\ starts = 0

PutStep(p) ==
    \/ \E u \in Upload : PutBegin(p, u)
    \/ \E c \in Content : PutPublish(p, c)
    \/ PutRejected(p) \/ PutRecord(p) \/ PutUnlink(p)

Session(u) ==
    \/ CreateUpload(u) \/ CompleteUpload(u) \/ Submit(u)
    \/ Import(u) \/ Finish(u) \/ CancelQueued(u) \/ RetryRead(u) \/ RetryTx(u)
    \/ ReleaseLook(u) \/ ReleaseRemove(u) \/ ReleasePublish(u)
    \/ SweepRemove(u)

Next ==
    \/ \E p \in Put : PutStep(p)
    \/ \E u \in Upload : Session(u)
    \/ Start \/ SweepPublish \/ SweepNext \/ cleanupUploadTemps \/ Crash

Spec == Init /\ [][Next]_vars

----------------------------------------------------------------------------
\* Properties.

\* The shape of the state; only a submitted session has a command.
TypeOK ==
    /\ state \in [Upload -> States]
    /\ recorded \in [Upload -> Content \cup {None}] /\ staged \in [Upload -> Content \cup {None}]
    /\ imported \in [Upload -> Content \cup {None}]
    /\ command \in [Upload -> Commands]
    /\ put \in [Put -> {"idle", "copying", "recording", "unlinking"}]
    /\ putUpload \in [Put -> Upload \cup {None}] /\ putContent \in [Put -> Content \cup {None}]
    /\ orphans \in Nat /\ tempReserved \in Nat
    /\ retrying \subseteq Upload /\ releasing \subseteq Upload \X {"look", "remove", "publish"}
    /\ phase \in {"down", "expire", "release", "clean", "up"}
    /\ todo \subseteq Upload /\ removed \in Upload \cup {None}
    /\ faults \in Nat /\ starts \in Nat
    /\ \A u \in Upload : command[u] # "none" <=> state[u] \in {"bound", "released"}

(* The quotas of PutUploadContent and CompleteUpload hold together: the       *)
(* bytes of completed and bound inputs stay within the aggregate limit,       *)
(* although sessions grow after the check that admitted another one and a put *)
(* of a completed session may still be under way; and while the process       *)
(* serves, the temporary files in the staging directory, those of dead        *)
(* processes included, stay within a budget that is counted in memory only    *)
(* (reserveTemp, cleanupUploadTemps).                                         *)
WithinLimits ==
    /\ RetainedBytes({u \in Upload : state[u] \in {"complete", "bound"}}) <= UploadLimit
    /\ phase = "up" => TempBytes <= TempLimit

(* When recovery is over no input is still leased to a command that cannot  *)
(* run again, whatever crash cut off the release of a worker or an earlier  *)
(* recovery (releaseTerminalUploads).                                       *)
RecoverySettlesLeases ==
    [][phase # "up" /\ phase' = "up" =>
          \A u \in Upload : state'[u] = "bound" => command'[u] \notin Over]_vars

(* Recovery never removes the input of a command that recovery has queued   *)
(* again or that a client may still retry.                                  *)
RecoverySparesInput ==
    [][\A u \in Upload : phase # "up" /\ staged'[u] # staged[u] =>
          command[u] \notin {"live", "open"}]_vars

(* Recovery takes back exactly the inputs nobody will import any more.      *)
RecoveryIsExact == RecoverySettlesLeases /\ RecoverySparesInput

(* What a command imports is what its client completed: the bytes whose     *)
(* size and digest the session recorded ("A completed upload is immutable   *)
(* input", comment in Submit).                                              *)
ImportedIsRecorded ==
    \A u \in Upload : imported[u] # None => imported[u] = recorded[u]

=============================================================================
