--------------------------- MODULE OperationQueue ---------------------------
(***************************************************************************)
(* The durable operation queue of internal/operations: one row per accepted *)
(* command, a pool of workers per resource class that claim rows inside     *)
(* control transactions of the single SQLite writer, the in-memory          *)
(* reservations and wake-up tokens, the process-local table of active runs, *)
(* API callers that submit, cancel and retry, and a process that stops,     *)
(* dies and recovers.                                                       *)
(*                                                                          *)
(* A transaction of the writer is one step.  Everything the code does       *)
(* outside a transaction (a read before it, a map update after it, a        *)
(* channel send) is a step of its own.                                      *)
(***************************************************************************)
EXTENDS Integers, FiniteSets

CONSTANTS
    Op,             \* operation ids, each one per accepted command
    Worker,         \* dispatcher goroutines of every class
    Client,         \* concurrent API requests
    Base,           \* knowledge bases
    Class,          \* resource classes that have workers
    Resource,       \* the byte budgets: memory, disk, temp
    NoBase,         \* the empty base id
    NoOp,           \* no operation
    NoWorker,       \* no active run
    IOClass,        \* the class woken for an unknown resource class
    WorkerClass,    \* [Worker -> Class]
    OpClass,        \* resource class of a command
    OpBase,         \* base of a command, or NoBase
    Budget,         \* [Op -> [Resource -> Nat]]
    Limit,          \* [Resource -> Nat]
    MaxPerBase,
    MaxPending,
    MaxAttempts,    \* DefaultMaxAttempts
    WakeCap,        \* capacity of a wake channel
    ClaimWindow,    \* LIMIT of the candidate query
    MaxReports,     \* bound: progress reports of one run
    MaxFaults,      \* bound: failed or unanswered writes
    MaxStarts       \* bound: starts of the process

ASSUME ClassAssumption ==
    /\ IOClass \in Class
    /\ WorkerClass \in [Worker -> Class]
ASSUME OpAssumption ==
    /\ OpBase \in [Op -> Base \cup {NoBase}]
    /\ NoBase \notin Base
    /\ NoOp \notin Op
    /\ NoWorker \notin Worker
    /\ IsFiniteSet(Op) /\ IsFiniteSet(Worker)
ASSUME BudgetAssumption ==
    /\ Budget \in [Op -> [Resource -> Nat]]
    /\ Limit \in [Resource -> Nat]
ASSUME BoundAssumption ==
    /\ MaxPerBase \in Nat /\ MaxPending \in Nat /\ MaxAttempts \in Nat
    /\ WakeCap \in Nat \ {0} /\ ClaimWindow \in Nat \ {0}
    /\ MaxReports \in Nat /\ MaxFaults \in Nat /\ MaxStarts \in Nat

VARIABLES
    \* the operations table, one column each
    state, rev, attempt,
    cancelRequested,    \* the rows with cancel_requested = 1
    retryable,          \* the rows with retryable = 1
    \* the worker goroutines
    pc,                 \* where each one is
    job,                \* the operation it claimed
    mine,               \* the attempt it read
    cancelled,          \* the workers whose run context is cancelled
    outcome,            \* what the executor returned
    sawCancel,          \* the workers that read cancel_requested = 1 when finishing
    again,              \* the workers in the second call of finishContext
    reports,            \* progress reports of the run
    \* API requests
    call, callOp,       \* where each one is, and its operation
    seenState, seenRev, \* the row as it read it
    \* the rest of the process
    phase,              \* down, up or stopping
    active,             \* Service.active: the run registered for an operation
    wakes,              \* tokens buffered in each wake channel
    perBase,            \* scheduler.base
    bytes,              \* scheduler.memoryBytes, diskBytes, tempBytes
    leaked,             \* history: reservations nobody will hand back
    faults,             \* bound: write faults used up
    starts              \* bound: process starts used up

rowVars  == <<state, rev, attempt, cancelRequested, retryable>>
runVars  == <<pc, job, mine, cancelled, outcome, sawCancel, again, reports>>
callVars == <<call, callOp, seenState, seenRev>>
memVars  == <<perBase, bytes, leaked>>
procVars == <<phase, starts>>
vars == <<rowVars, runVars, callVars, memVars, procVars, active, wakes, faults>>

----------------------------------------------------------------------------
\* Values.

Active   == {"running", "cancelling"}
Pending  == {"queued", "running", "cancelling"}
Final    == {"succeeded", "cancelled"}
terminal == {"succeeded", "cancelled", "failed"}
States   == {"absent", "queued", "running", "cancelling", "interrupted",
             "succeeded", "failed", "cancelled"}

Resting  == {"exited", "idle", "claim"}
Holding  == {"claimed", "launched", "registered", "executing", "finishing",
             "committing", "releasing"}
Pcs      == {"exited", "idle", "claim", "claimed", "launched", "registered", "executing",
             "finishing", "committing", "releasing", "deregister"}
Outcomes == {"ok", "error", "oversize", "deadline", "interrupted"}

(* The outcomes of one write.  "refused": the queue was full, nothing ran.  *)
(* The two unknown outcomes answer ErrWriteUnknown: the deadline passed     *)
(* while the callback ran, and the transaction committed or rolled back.    *)
WriteOutcome == {"ok", "refused", "unknownCommitted", "unknownRolledBack"}
Committed(res) == res \in {"ok", "unknownCommitted"}
Unknown(res) == res \in {"unknownCommitted", "unknownRolledBack"}

Write(res) ==
    /\ res # "ok" => faults < MaxFaults
    /\ faults' = IF res = "ok" THEN faults ELSE faults + 1

wakeupClass(c) ==
    LET woken == IF c \in Class THEN c ELSE IOClass
    IN  wakes' = [wakes EXCEPT ![woken] = IF @ < WakeCap THEN @ + 1 ELSE @]

----------------------------------------------------------------------------
\* The reservations of the scheduler.

CanReserve(o) ==
    /\ OpBase[o] # NoBase => perBase[OpBase[o]] < MaxPerBase
    /\ \A r \in Resource : bytes[r] + Budget[o][r] <= Limit[r]

reserve(o) ==
    /\ perBase' = [b \in Base |-> IF b = OpBase[o] THEN perBase[b] + 1 ELSE perBase[b]]
    /\ bytes' = [r \in Resource |-> bytes[r] + Budget[o][r]]

Less(n, k) == IF n > k THEN n - k ELSE 0

ReleaseBytesOnly(o) ==  \* mutant
    /\ bytes' = [r \in Resource |-> Less(bytes[r], Budget[o][r])]
    /\ UNCHANGED perBase
release(o) ==
    /\ perBase' = [b \in Base |-> IF b = OpBase[o] THEN Less(perBase[b], 1) ELSE perBase[b]]
    /\ bytes' = [r \in Resource |-> Less(bytes[r], Budget[o][r])]

----------------------------------------------------------------------------
\* An API request: it begins by reading the row, goes on, and ends.

Begin(c, o, at) ==
    /\ phase # "down" /\ call[c] = "idle"
    /\ call' = [call EXCEPT ![c] = at]
    /\ callOp' = [callOp EXCEPT ![c] = o]
    /\ seenState' = [seenState EXCEPT ![c] = state[o]]
    /\ seenRev' = [seenRev EXCEPT ![c] = rev[o]]

\* Its operation is forgotten when the request is over.
Continue(c, at) ==
    /\ call' = [call EXCEPT ![c] = at]
    /\ callOp' = IF at = "idle" THEN [callOp EXCEPT ![c] = NoOp] ELSE callOp
    /\ seenState' = [seenState EXCEPT ![c] = "absent"]
    /\ seenRev' = [seenRev EXCEPT ![c] = 0]

\* Submitting a command: one transaction, then the wake-up.
Submit(c, o) ==
    /\ state[o] = "absent"
    /\ \E res \in WriteOutcome :
        /\ Committed(res) => Cardinality({p \in Op : state[p] \in Pending}) < MaxPending
        /\ Write(res)
        /\ state' = IF Committed(res) THEN [state EXCEPT ![o] = "queued"] ELSE state
        /\ rev' = IF Committed(res) THEN [rev EXCEPT ![o] = 1] ELSE rev
        /\ IF res = "ok" THEN Begin(c, o, "wake")
                         ELSE phase # "down" /\ call[c] = "idle" /\ UNCHANGED callVars
    /\ UNCHANGED <<attempt, cancelRequested, retryable, runVars, memVars, procVars,
                   active, wakes>>

\* The wake-up that follows the commit of a submission or a retry.
Wake(c) ==
    /\ call[c] = "wake"
    /\ wakeupClass(OpClass[callOp[c]])
    /\ Continue(c, "idle")
    /\ UNCHANGED <<rowVars, runVars, memVars, procVars, active, faults>>

----------------------------------------------------------------------------
\* Cancelling: read, conditional transaction, notification of the local run.

CancelRead(c, o) ==
    /\ state[o] \notin {"absent"} \cup terminal
    /\ Begin(c, o, "cancel")
    /\ UNCHANGED <<rowVars, runVars, memVars, procVars, active, wakes, faults>>

CancelUnconditional(c) == state[callOp[c]] # "absent"  \* mutant
CancelMatches(c) ==
    state[callOp[c]] \in {"queued", "running"} /\ rev[callOp[c]] = seenRev[c]

\* A command seen queued is cancelled at once, a running one only marked.
CancelRow(c) ==
    LET queued == seenState[c] = "queued"
    IN  /\ state' = [state EXCEPT ![callOp[c]] = IF queued THEN "cancelled" ELSE "cancelling"]
        /\ rev' = [rev EXCEPT ![callOp[c]] = IF queued THEN seenRev[c] + 2 ELSE seenRev[c] + 1]
        /\ cancelRequested' = cancelRequested \cup {callOp[c]}

CancelTx(c) ==
    /\ call[c] = "cancel"
    /\ \E res \in WriteOutcome :
        /\ Write(res)
        /\ IF Committed(res) /\ CancelMatches(c)
              THEN CancelRow(c) ELSE UNCHANGED <<state, rev, cancelRequested>>
        /\ Continue(c, IF res # "ok" THEN "idle"
                       ELSE IF CancelMatches(c) THEN "notify" ELSE "missed")
    /\ UNCHANGED <<attempt, retryable, runVars, memVars, procVars, active, wakes>>

\* The condition missed: the row as it now is is returned without an error.
CancelMissed(c) ==
    /\ call[c] = "missed"
    /\ Continue(c, "idle")
    /\ UNCHANGED <<rowVars, runVars, memVars, procVars, active, wakes, faults>>

CancelNotify(c) ==
    /\ call[c] = "notify"
    /\ cancelled' = cancelled \cup ({active[callOp[c]]} \cap Worker)
    /\ Continue(c, "idle")
    /\ UNCHANGED <<rowVars, pc, job, mine, outcome, sawCancel, again, reports, memVars,
                   procVars, active, wakes, faults>>

----------------------------------------------------------------------------
\* Retrying: every check is made on the row as it was read.

RetryRead(c, o) ==
    /\ state[o] \in {"failed", "interrupted"}
    /\ o \in retryable /\ attempt[o] < MaxAttempts
    /\ Begin(c, o, "retry")
    /\ UNCHANGED <<rowVars, runVars, memVars, procVars, active, wakes, faults>>

RetryTx(c) ==
    /\ call[c] = "retry"
    /\ \E res \in WriteOutcome :
        /\ Write(res)
        /\ IF Committed(res) /\ state[callOp[c]] = seenState[c]
              THEN /\ state' = [state EXCEPT ![callOp[c]] = "queued"]
                   /\ rev' = [rev EXCEPT ![callOp[c]] = seenRev[c] + 1]
                   /\ cancelRequested' = cancelRequested \ {callOp[c]}
              ELSE UNCHANGED <<state, rev, cancelRequested>>
        /\ Continue(c, IF res = "ok" THEN "wake" ELSE "idle")
    /\ UNCHANGED <<attempt, retryable, runVars, memVars, procVars, active, wakes>>

----------------------------------------------------------------------------
\* A worker: wake up, claim until nothing is found.

Go(w, at) == pc' = [pc EXCEPT ![w] = at]

idleVars == <<job, mine, cancelled, outcome, sawCancel, again, reports>>

WorkerWake(w) ==
    /\ phase # "down" /\ pc[w] = "idle"
    /\ wakes[WorkerClass[w]] > 0
    /\ wakes' = [wakes EXCEPT ![WorkerClass[w]] = @ - 1]
    /\ Go(w, "claim")
    /\ UNCHANGED <<rowVars, idleVars, callVars, memVars, procVars, active, faults>>

WorkerExit(w) ==
    /\ phase = "stopping" /\ pc[w] = "idle"
    /\ Go(w, "exited")
    /\ UNCHANGED <<rowVars, idleVars, callVars, memVars, procVars, active, wakes, faults>>

ClaimableRunning(c) == {o \in Op : state[o] \in {"queued", "running"} /\ OpClass[o] = c}  \* mutant
Claimable(c) == {o \in Op : state[o] = "queued" /\ OpClass[o] = c}

(* The candidates one claim looks at.  Their order is priority aged by the  *)
(* waiting time; which rows come first is left open.                        *)
Windows(c) ==
    {S \in SUBSET Claimable(c) :
        Cardinality(S) = IF Cardinality(Claimable(c)) < ClaimWindow
                         THEN Cardinality(Claimable(c)) ELSE ClaimWindow}

ClaimNothing(w) ==
    /\ pc[w] = "claim"
    /\ \E S \in Windows(WorkerClass[w]) : \A o \in S : ~CanReserve(o)
    /\ Go(w, "idle")
    /\ UNCHANGED <<rowVars, idleVars, callVars, memVars, procVars, active, wakes, faults>>

(* The claim transaction is refused before it runs, or its deadline passes  *)
(* before the claim is prepared, rolls it back and the reservation is       *)
(* handed back.  The wake token is spent.                                   *)
ClaimRefused(w) ==
    /\ pc[w] = "claim"
    /\ Write("refused")
    /\ Go(w, "idle")
    /\ UNCHANGED <<rowVars, idleVars, callVars, memVars, procVars, active, wakes>>

(* The first candidate that fits is reserved and set running.  When the     *)
(* outcome is unknown the reservation is kept although no run starts.       *)
ClaimNext(w, o) ==
    /\ pc[w] = "claim"
    /\ o \in Claimable(WorkerClass[w]) /\ CanReserve(o)
    /\ reserve(o)
    /\ \E res \in WriteOutcome \ {"refused"} :
        /\ Write(res)
        /\ IF Committed(res)
              THEN /\ state' = [state EXCEPT ![o] = "running"]
                   /\ rev' = [rev EXCEPT ![o] = @ + 1]
                   /\ attempt' = [attempt EXCEPT ![o] = @ + 1]
              ELSE UNCHANGED <<state, rev, attempt>>
        /\ Go(w, IF res = "ok" THEN "claimed" ELSE "idle")
        /\ job' = IF res = "ok" THEN [job EXCEPT ![w] = o] ELSE job
        /\ leaked' = IF Unknown(res) THEN [leaked EXCEPT ![o] = @ + 1] ELSE leaked
    /\ UNCHANGED <<cancelRequested, retryable, mine, cancelled, outcome, sawCancel,
                   again, reports, callVars, procVars, active, wakes>>

----------------------------------------------------------------------------
\* Service.run: the life of one attempt.

\* The run's context is created, already cancelled when the service is stopping.
Launch(w) ==
    /\ pc[w] = "claimed"
    /\ Go(w, "launched")
    /\ cancelled' = IF phase = "stopping" THEN cancelled \cup {w} ELSE cancelled
    /\ UNCHANGED <<rowVars, job, mine, outcome, sawCancel, again, reports, callVars,
                   memVars, procVars, active, wakes, faults>>

Register(w) ==
    /\ pc[w] = "launched"
    /\ Go(w, "registered")
    /\ active' = [active EXCEPT ![job[w]] = w]
    /\ mine' = [mine EXCEPT ![w] = attempt[job[w]]]
    /\ UNCHANGED <<rowVars, job, cancelled, outcome, sawCancel, again, reports, callVars,
                   memVars, procVars, wakes, faults>>

\* The row is read under the run's context: a cancelled context ends the run here.
ReadCancelled(w) ==
    /\ pc[w] = "registered" /\ w \in cancelled
    /\ Go(w, "finishing")
    /\ outcome' = [outcome EXCEPT ![w] = "interrupted"]
    /\ UNCHANGED <<rowVars, job, mine, cancelled, sawCancel, again, reports, callVars,
                   memVars, procVars, active, wakes, faults>>

\* The cancel intent is read again after registration, then the executor starts.
Dispatch(w) ==
    /\ pc[w] = "registered"
    /\ Go(w, "executing")
    /\ cancelled' = IF job[w] \in cancelRequested THEN cancelled \cup {w} ELSE cancelled
    /\ UNCHANGED <<rowVars, job, mine, outcome, sawCancel, again, reports, callVars,
                   memVars, procVars, active, wakes, faults>>

OwnsAnyAttempt(w) == state[job[w]] \in Active  \* mutant
OwnsRow(w) == state[job[w]] \in Active /\ attempt[job[w]] = mine[w]

\* A progress report runs under the run's context; a cancelled one writes nothing.
reportContext(w) ==
    /\ pc[w] = "executing" /\ reports[w] < MaxReports
    /\ reports' = [reports EXCEPT ![w] = @ + 1]
    /\ rev' = IF OwnsRow(w) /\ w \notin cancelled THEN [rev EXCEPT ![job[w]] = @ + 1] ELSE rev
    /\ UNCHANGED <<state, attempt, cancelRequested, retryable, pc, job, mine, cancelled,
                   outcome, sawCancel, again, callVars, memVars, procVars, active, wakes, faults>>

(* The executor returns.  It may have completed or failed although its      *)
(* context was cancelled; it reports an interruption when it was cancelled  *)
(* or when one of its own writes had an unknown outcome.                    *)
ExecutorReturns(w) ==
    /\ pc[w] = "executing"
    /\ \E out \in Outcomes :
        /\ IF out = "interrupted" /\ w \notin cancelled
              THEN Write("unknownRolledBack") ELSE UNCHANGED faults
        /\ outcome' = [outcome EXCEPT ![w] = out]
    /\ Go(w, "finishing")
    /\ UNCHANGED <<rowVars, job, mine, cancelled, sawCancel, again, reports, callVars,
                   memVars, procVars, active, wakes>>

----------------------------------------------------------------------------
\* Finishing an attempt: the verdict is fixed before the transaction.

FinishDecide(w) ==
    /\ pc[w] = "finishing"
    /\ Go(w, "committing")
    /\ sawCancel' = IF job[w] \in cancelRequested THEN sawCancel \cup {w} ELSE sawCancel \ {w}
    /\ UNCHANGED <<rowVars, job, mine, cancelled, outcome, again, reports, callVars,
                   memVars, procVars, active, wakes, faults>>

VerdictTimeout(w) == IF outcome[w] = "deadline" THEN "timeout" ELSE "succeeded"  \* mutant
Verdict(w) ==
    IF outcome[w] = "ok" THEN "succeeded"
    ELSE IF outcome[w] \in {"deadline", "interrupted"} /\ w \in sawCancel THEN "cancelled"
    ELSE IF outcome[w] = "interrupted" THEN "interrupted"
    ELSE "failed"

autoRetry(w) == Verdict(w) = "interrupted" /\ mine[w] < MaxAttempts

FinishRow(w) ==
    LET o == job[w]
    IN  /\ state' = [state EXCEPT ![o] = IF autoRetry(w) THEN "queued" ELSE Verdict(w)]
        /\ rev' = [rev EXCEPT ![o] = IF autoRetry(w) THEN @ + 2 ELSE @ + 1]
        /\ retryable' = IF outcome[w] = "oversize" THEN retryable \ {o} ELSE retryable \cup {o}

\* finishWorker calls finishContext a second time when the first answers an error.
FinishCommit(w) ==
    /\ pc[w] = "committing"
    /\ \E res \in WriteOutcome :
        /\ Write(res)
        /\ IF Committed(res) /\ OwnsRow(w)
              THEN FinishRow(w) ELSE UNCHANGED <<state, rev, retryable>>
        /\ IF res # "ok" /\ w \notin again
              THEN Go(w, "finishing") /\ again' = again \cup {w}
              ELSE Go(w, "releasing") /\ again' = again
    /\ UNCHANGED <<attempt, cancelRequested, job, mine, cancelled, outcome, sawCancel, reports,
                   callVars, memVars, procVars, active, wakes>>

\* The deferred calls of run, last registered first.
ReleaseReservation(w) ==
    /\ pc[w] = "releasing"
    /\ release(job[w])
    /\ Go(w, "deregister")
    /\ UNCHANGED <<rowVars, idleVars, callVars, procVars, leaked, active, wakes, faults>>

\* A worker claims until nothing is found before it waits for the next token.
AfterRunWaits == IF phase = "stopping" THEN "exited" ELSE "idle"    \* mutant
AfterRun == IF phase = "stopping" THEN "exited" ELSE "claim"

\* The entry of the operation is deleted whoever registered it last.
Deregister(w) ==
    /\ pc[w] = "deregister"
    /\ active' = [active EXCEPT ![job[w]] = NoWorker]
    /\ Go(w, AfterRun)
    /\ job' = [job EXCEPT ![w] = NoOp]
    /\ mine' = [mine EXCEPT ![w] = 0]
    /\ cancelled' = cancelled \ {w}
    /\ outcome' = [outcome EXCEPT ![w] = "ok"]
    /\ sawCancel' = sawCancel \ {w}
    /\ again' = again \ {w}
    /\ reports' = [reports EXCEPT ![w] = 0]
    /\ UNCHANGED <<rowVars, callVars, memVars, procVars, wakes, faults>>

----------------------------------------------------------------------------
\* The process.

\* No goroutine of the service is at work, each one rests at the given point.
AllRest(at) ==
    /\ pc' = [w \in Worker |-> at]
    /\ job' = [w \in Worker |-> NoOp]
    /\ mine' = [w \in Worker |-> 0]
    /\ outcome' = [w \in Worker |-> "ok"]
    /\ reports' = [w \in Worker |-> 0]
    /\ cancelled' = {} /\ sawCancel' = {} /\ again' = {}

Lost == {o \in Op : state[o] \in Active}
Interrupted == Lost \cup {o \in Op : state[o] = "interrupted"}
Replayed == {o \in Interrupted \ cancelRequested : o \in retryable /\ attempt[o] < MaxAttempts}

\* Start: recover the table, fill every wake channel, launch the workers.
Start ==
    /\ phase = "down" /\ starts < MaxStarts
    /\ phase' = "up"
    /\ starts' = starts + 1
    /\ state' = [o \in Op |->
                    IF o \in Interrupted \cap cancelRequested THEN "cancelled"
                    ELSE IF o \in Replayed THEN "queued"
                    ELSE IF o \in Lost THEN "interrupted" ELSE state[o]]
    /\ rev' = [o \in Op |->
                  rev[o] + (IF o \in Lost THEN 1 ELSE 0)
                         + (IF o \in (Interrupted \cap cancelRequested) \cup Replayed
                            THEN 1 ELSE 0)]
    /\ wakes' = [c \in Class |-> WakeCap]
    /\ AllRest("idle")
    /\ UNCHANGED <<attempt, cancelRequested, retryable, callVars, memVars, active, faults>>

\* Stop closes the stop channel and cancels the registered runs.
Stop ==
    /\ phase = "up" /\ starts < MaxStarts
    /\ phase' = "stopping"
    /\ cancelled' = cancelled \cup {w \in Worker : \E o \in Op : active[o] = w}
    /\ UNCHANGED <<rowVars, pc, job, mine, outcome, sawCancel, again, reports, callVars,
                   memVars, starts, active, wakes, faults>>

\* The process is gone, after Stop or without it: only the table survives.
Exit ==
    /\ phase # "down" /\ starts < MaxStarts
    /\ phase' = "down"
    /\ AllRest("exited")
    /\ active' = [o \in Op |-> NoWorker]
    /\ wakes' = [c \in Class |-> 0]
    /\ perBase' = [b \in Base |-> 0]
    /\ bytes' = [r \in Resource |-> 0]
    /\ leaked' = [o \in Op |-> 0]
    /\ call' = [c \in Client |-> "idle"]
    /\ callOp' = [c \in Client |-> NoOp]
    /\ seenState' = [c \in Client |-> "absent"]
    /\ seenRev' = [c \in Client |-> 0]
    /\ UNCHANGED <<rowVars, starts, faults>>

----------------------------------------------------------------------------
Init ==
    /\ state = [o \in Op |-> "absent"]
    /\ rev = [o \in Op |-> 0]
    /\ attempt = [o \in Op |-> 0]
    /\ cancelRequested = {} /\ retryable = Op
    /\ pc = [w \in Worker |-> "exited"]
    /\ job = [w \in Worker |-> NoOp]
    /\ mine = [w \in Worker |-> 0]
    /\ outcome = [w \in Worker |-> "ok"]
    /\ reports = [w \in Worker |-> 0]
    /\ cancelled = {} /\ sawCancel = {} /\ again = {}
    /\ call = [c \in Client |-> "idle"]
    /\ callOp = [c \in Client |-> NoOp]
    /\ seenState = [c \in Client |-> "absent"]
    /\ seenRev = [c \in Client |-> 0]
    /\ phase = "down"
    /\ active = [o \in Op |-> NoWorker]
    /\ wakes = [c \in Class |-> 0]
    /\ perBase = [b \in Base |-> 0]
    /\ bytes = [r \in Resource |-> 0]
    /\ leaked = [o \in Op |-> 0]
    /\ faults = 0
    /\ starts = 0

Request(c, o) == Submit(c, o) \/ CancelRead(c, o) \/ RetryRead(c, o)

RequestProgress(c) ==
    \/ Wake(c) \/ CancelTx(c) \/ CancelMissed(c) \/ CancelNotify(c) \/ RetryTx(c)

\* The steps a worker takes once it is scheduled and its executor returns.
WorkerProgress(w) ==
    \/ WorkerWake(w) \/ WorkerExit(w)
    \/ ClaimNothing(w) \/ ClaimRefused(w) \/ \E o \in Op : ClaimNext(w, o)
    \/ Launch(w) \/ Register(w) \/ ReadCancelled(w) \/ Dispatch(w)
    \/ ExecutorReturns(w)
    \/ FinishDecide(w) \/ FinishCommit(w)
    \/ ReleaseReservation(w) \/ Deregister(w)

Next ==
    \/ \E c \in Client, o \in Op : Request(c, o)
    \/ \E c \in Client : RequestProgress(c)
    \/ \E w \in Worker : WorkerProgress(w) \/ reportContext(w)
    \/ Start \/ Stop \/ Exit

Spec == Init /\ [][Next]_vars

(* Fairness.  Goroutines are scheduled, executors return, a request that    *)
(* began completes, a stopping process exits (its wait is bounded by        *)
(* stopTimeout) and a process that went down is started again.  Nobody is   *)
(* obliged to submit, cancel, retry, report, stop or crash.                 *)
Fairness ==
    /\ \A w \in Worker : WF_vars(WorkerProgress(w))
    /\ \A c \in Client : WF_vars(RequestProgress(c))
    /\ WF_vars(Start)
    /\ WF_vars(phase = "stopping" /\ Exit)

FairSpec == Spec /\ Fairness

----------------------------------------------------------------------------
\* Properties.

\* The shape of every variable; who is under way with an operation knows which one.
TypeOK ==
    /\ state \in [Op -> States] /\ rev \in [Op -> Nat] /\ attempt \in [Op -> Nat]
    /\ cancelRequested \subseteq Op /\ retryable \subseteq Op
    /\ pc \in [Worker -> Pcs] /\ job \in [Worker -> Op \cup {NoOp}]
    /\ mine \in [Worker -> Nat] /\ outcome \in [Worker -> Outcomes]
    /\ reports \in [Worker -> Nat]
    /\ cancelled \subseteq Worker /\ sawCancel \subseteq Worker /\ again \subseteq Worker
    /\ call \in [Client -> {"idle", "cancel", "missed", "notify", "retry", "wake"}]
    /\ callOp \in [Client -> Op \cup {NoOp}]
    /\ seenState \in [Client -> States] /\ seenRev \in [Client -> Nat]
    /\ phase \in {"down", "up", "stopping"}
    /\ active \in [Op -> Worker \cup {NoWorker}]
    /\ wakes \in [Class -> Nat]
    /\ perBase \in [Base -> Nat] /\ bytes \in [Resource -> Nat] /\ leaked \in [Op -> Nat]
    /\ faults \in Nat /\ starts \in Nat
    /\ \A w \in Worker : pc[w] \notin Resting => job[w] \in Op
    /\ \A c \in Client : call[c] # "idle" => callOp[c] \in Op
    /\ \A c \in Client : call[c] = "retry" => seenState[c] \in {"failed", "interrupted"}

(* Two workers never execute the same operation at the same time, however   *)
(* claims, unanswered finishes, automatic and repeated manual retries,      *)
(* stops and restarts interleave (claimNext's conditional update and the    *)
(* attempt check of finishContext).                                         *)
OneExecutor ==
    \A v, w \in Worker :
        pc[v] = "executing" /\ pc[w] = "executing" /\ job[v] = job[w] => v = w

(* Why OneExecutor is inductive.  A worker on its way to its executor works *)
(* on a row that is running, cancelling or cancelled, and alone; a worker   *)
(* that still tries to finish never has an attempt above the row's, and a   *)
(* lower one as soon as another worker has claimed the row again.           *)
Owning    == {"claimed", "launched", "registered", "executing"}
Finishing == {"finishing", "committing"}

ExclusiveClaim ==
    /\ \A w \in Worker :
          pc[w] \in Owning => state[job[w]] \in {"running", "cancelling", "cancelled"}
    /\ \A w \in Worker : pc[w] \in Finishing => state[job[w]] # "absent"
    /\ \A w \in Worker :
          pc[w] \in Finishing \cup {"registered", "executing"} => mine[w] <= attempt[job[w]]
    /\ \A v, w \in Worker :
          v # w /\ job[v] = job[w] /\ pc[v] \in Owning =>
            /\ pc[w] \notin Owning
            /\ pc[w] \in Finishing => mine[w] < attempt[job[w]]

(* Only the attempt that holds the row may finish it: a worker whose first  *)
(* finish was committed but not answered must not settle a later attempt    *)
(* when it finishes again (the attempt predicate of finishContext).         *)
OnlyTheAttemptFinishes ==
    [][\A o \in Op :
          state[o] \in Active /\ state'[o] \in {"succeeded", "failed", "queued"}
            => \/ phase = "down"
               \/ \E w \in Worker : pc[w] = "committing" /\ job[w] = o
                                     /\ mine[w] = attempt[o]]_vars

\* A succeeded or cancelled command never leaves that state, across retries and restarts.
FinalStaysFinal ==
    [][\A o \in Op : state[o] \in Final => state'[o] = state[o]]_vars

(* The in-memory reservations are exactly those of the workers inside run,  *)
(* plus the ones given away by claims whose write had an unknown outcome:   *)
(* nothing is handed back twice or forgotten on the paths through reserve   *)
(* and release.                                                             *)
Holders == {w \in Worker : pc[w] \in Holding}

\* Slots and bytes are counted as sets of units, each named by who holds it.
HoldersOf(b) == {w \in Holders : OpBase[job[w]] = b}
LeakedSlots(b) == UNION {{o} \X (1 .. leaked[o]) : o \in {p \in Op : OpBase[p] = b}}
HeldUnits(r) == UNION {{w} \X (1 .. Budget[job[w]][r]) : w \in Holders}
LeakedUnits(r) == UNION {{o} \X (1 .. leaked[o] * Budget[o][r]) : o \in Op}

ReservationsMatchRuns ==
    /\ \A b \in Base : perBase[b] = Cardinality(HoldersOf(b)) + Cardinality(LeakedSlots(b))
    /\ \A r \in Resource :
          bytes[r] = Cardinality(HeldUnits(r)) + Cardinality(LeakedUnits(r))

(* Once a cancel intent is committed and its caller has notified the local  *)
(* run, no executor works on the operation under a live context: the        *)
(* re-read after registration covers a cancel that found no run to notify.  *)
CancelReachesRun ==
    \A w \in Worker :
        /\ pc[w] = "executing" /\ job[w] \in cancelRequested
        /\ \A c \in Client : ~(call[c] = "notify" /\ callOp[c] = job[w])
        => w \in cancelled

(* In a process that is up and whose writes are all answered, a command     *)
(* that waits in cancelling has a worker that will settle it.               *)
CancellingIsRun ==
    \A o \in Op : phase = "up" /\ faults = 0 /\ state[o] = "cancelling" =>
        \E w \in Worker : job[w] = o /\ pc[w] \in Owning \cup Finishing

(* Every accepted command settles, across restarts: a wake-up is never lost *)
(* while a command that could run is queued, and recovery requeues or       *)
(* settles what a dead process left running.                                *)
EveryCommandSettles ==
    \A o \in Op : state[o] \in Pending ~> state[o] \in terminal \cup {"interrupted"}

----------------------------------------------------------------------------
\* The refinement of OperationLifecycle.

StatusOf(o) ==
    IF state[o] \in Active THEN "owned"
    ELSE IF state[o] \in {"failed", "interrupted"} THEN "open" ELSE state[o]

HolderOf(o) ==
    LET At(places) == \E w \in Worker : job[w] = o /\ pc[w] \in places
    IN  IF At({"executing"}) THEN "executing" ELSE IF At(Owning) THEN "claimed" ELSE "none"

Lifecycle == INSTANCE OperationLifecycle WITH
    status <- [o \in Op |-> StatusOf(o)],
    holder <- [o \in Op |-> HolderOf(o)]

(* The queue keeps the promise of OperationLifecycle: whatever its workers, *)
(* requests, lost answers and restarts do is a step of that specification   *)
(* or changes nothing it speaks of.                                         *)
ImplementsLifecycle == Lifecycle!Spec

============================================================================
