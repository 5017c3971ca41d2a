---------------------------- MODULE SqliteWriter ----------------------------
(***************************************************************************)
(* The single SQLite writer of internal/storage: callers admit a callback   *)
(* to one of three bounded queues and wait for its result, their context or *)
(* the stop of the writer; one loop takes requests in bursts of control     *)
(* writes and runs them; Stop closes a channel that callers and loop see    *)
(* whenever their select happens to look at it.                             *)
(*                                                                          *)
(* A request is a slot: when its caller has an answer and nothing of it is  *)
(* left in a queue or in the loop, the slot is free for another call.       *)
(***************************************************************************)
EXTENDS Naturals, Sequences, SequencesExt

CONSTANTS
    Request,        \* call slots
    NoRequest,
    PriorityOf,     \* [Request -> Priority]
    Capacity,       \* defaultWriterQueueCapacity
    ControlBurst    \* the burst of control writes, 8 in the code

Priority == {"control", "normal", "maintenance"}

ASSUME RequestAssumption ==
    PriorityOf \in [Request -> Priority] /\ NoRequest \notin Request
ASSUME BoundAssumption == Capacity \in Nat \ {0} /\ ControlBurst \in Nat \ {0}

VARIABLES
    caller,     \* where each call is
    expired,    \* the calls whose context is done
    answer,     \* what the caller got
    queue,      \* the three channels
    result,     \* the buffered result channel of each request
    committed,  \* the calls whose callback took effect
    loop,       \* where the writer loop is
    current,    \* the request the loop works on
    burst,      \* controlBurst
    stopper     \* where the caller of Stop is

callerVars == <<caller, expired, answer>>
loopVars   == <<loop, current, burst>>
vars == <<callerVars, queue, result, committed, loopVars, stopper>>

Answers  == {"none", "ok", "failed", "unknown", "stopped", "refused"}
Results  == {"none", "ok", "failed", "stopped"}
Stages   == {"first", "second", "run", "reject control", "reject normal",
             "reject maintenance", "done"}

\* The stop channel is closed.
stopped == stopper # "idle"

Answered(r, a) ==
    /\ caller' = [caller EXCEPT ![r] = "answered"]
    /\ answer' = [answer EXCEPT ![r] = a]

----------------------------------------------------------------------------
\* A caller: Writer.do.

Full(r) == Len(queue[PriorityOf[r]]) = Capacity

(* The request is admitted.  The select may miss that the writer is stopped *)
(* or that the context is done already.                                     *)
Admit(r) ==
    /\ caller[r] = "idle" /\ ~Full(r)
    /\ caller' = [caller EXCEPT ![r] = "waiting"]
    /\ expired' \in {expired, expired \cup {r}}
    /\ queue' = [queue EXCEPT ![PriorityOf[r]] = Append(@, r)]
    /\ UNCHANGED <<answer, result, committed, loopVars, stopper>>

\* The queue is full, the writer is stopped, or the context is done already.
Refuse(r) ==
    /\ caller[r] = "idle"
    /\ Answered(r, "refused")
    /\ UNCHANGED <<expired, queue, result, committed, loopVars, stopper>>

ContextDone(r) ==
    /\ caller[r] = "waiting" /\ r \notin expired
    /\ expired' = expired \cup {r}
    /\ UNCHANGED <<caller, answer, queue, result, committed, loopVars, stopper>>

\* The context of a waiting caller is done: what its write did is not known.
AnswersFailed == "failed"    \* mutant
ContextAnswer == "unknown"

StopSeenDropped(r) == FALSE    \* mutant
StopSeen(r) == stopped /\ result[r] = "none" /\ Answered(r, "stopped")

Wait(r) ==
    /\ caller[r] = "waiting"
    /\ \/ result[r] # "none" /\ Answered(r, result[r])
       \/ r \in expired /\ Answered(r, ContextAnswer)
       \/ StopSeen(r)
    /\ UNCHANGED <<expired, queue, result, committed, loopVars, stopper>>

\* The slot is free again.
Forget(r) ==
    /\ caller[r] = "answered"
    /\ answer[r] = "refused" \/ result[r] # "none"
    /\ caller' = [caller EXCEPT ![r] = "idle"]
    /\ answer' = [answer EXCEPT ![r] = "none"]
    /\ result' = [result EXCEPT ![r] = "none"]
    /\ expired' = expired \ {r}
    /\ committed' = committed \ {r}
    /\ UNCHANGED <<queue, loopVars, stopper>>

----------------------------------------------------------------------------
\* The loop: Writer.next takes a request, Writer.loop runs it.

(* A request whose context is already done is answered without running it.  *)
(* The count of the burst only matters up to ControlBurst.                  *)
Skips(r) == r \in expired

Take(p) ==
    /\ queue[p] # <<>>
    /\ queue' = [queue EXCEPT ![p] = Tail(@)]
    /\ burst' = IF p # "control" THEN 0
                ELSE IF burst < ControlBurst THEN burst + 1 ELSE burst
    /\ LET r == Head(queue[p])
       IN  IF Skips(r)
              THEN /\ result' = [result EXCEPT ![r] = "failed"]
                   /\ loop' = "first" /\ current' = NoRequest
              ELSE loop' = "run" /\ current' = r /\ result' = result
    /\ UNCHANGED <<callerVars, committed, stopper>>

ControlFirstAlways == {"control"}    \* mutant
FavouredQueues == IF burst < ControlBurst THEN {"control"} ELSE {"normal", "maintenance"}

TakeFavoured(p) == loop = "first" /\ p \in FavouredQueues /\ Take(p)

NothingFavoured ==
    /\ loop = "first"
    /\ \A p \in FavouredQueues : queue[p] = <<>>
    /\ loop' = "second"
    /\ UNCHANGED <<callerVars, queue, result, committed, current, burst, stopper>>

\* The blocking select: any queue that is ready, or the stop.
TakeAny(p) == loop = "second" /\ Take(p)

SeeStop ==
    /\ loop = "second" /\ stopped
    /\ loop' = "reject control"
    /\ UNCHANGED <<callerVars, queue, result, committed, current, burst, stopper>>

\* The callback returns: it took effect, or it failed and left nothing behind.
Return ==
    /\ loop = "run"
    /\ \/ /\ committed' = committed \cup {current}
          /\ result' = [result EXCEPT ![current] = "ok"]
       \/ /\ committed' = committed
          /\ result' = [result EXCEPT ![current] = "failed"]
    /\ loop' = "first" /\ current' = NoRequest
    /\ UNCHANGED <<callerVars, queue, burst, stopper>>

----------------------------------------------------------------------------
\* Stopping.

RejectOf(stage) == CASE stage = "reject control" -> "control"
                     [] stage = "reject normal" -> "normal"
                     [] stage = "reject maintenance" -> "maintenance"

AfterReject(stage) == CASE stage = "reject control" -> "reject normal"
                        [] stage = "reject normal" -> "reject maintenance"
                        [] stage = "reject maintenance" -> "done"

Rejecting == loop \in {"reject control", "reject normal", "reject maintenance"}

\* rejectQueued empties one queue after the other; an emptied one may fill again.
RejectQueued ==
    /\ Rejecting
    /\ LET p == RejectOf(loop)
       IN  IF queue[p] = <<>>
              THEN loop' = AfterReject(loop) /\ UNCHANGED <<queue, result>>
              ELSE /\ result' = [result EXCEPT ![Head(queue[p])] = "stopped"]
                   /\ queue' = [queue EXCEPT ![p] = Tail(@)]
                   /\ loop' = loop
    /\ UNCHANGED <<callerVars, committed, current, burst, stopper>>

Stop ==
    /\ stopper = "idle"
    /\ stopper' = "waiting"
    /\ UNCHANGED <<callerVars, queue, result, committed, loopVars>>

LoopIsOverEarly == loop \in {"second", "done"}    \* mutant
LoopIsOver == loop = "done"

\* A caller whose context ends gives up waiting; this is the one that does not.
StopReturns ==
    /\ stopper = "waiting" /\ LoopIsOver
    /\ stopper' = "stopped"
    /\ UNCHANGED <<callerVars, queue, result, committed, loopVars>>

----------------------------------------------------------------------------
Init ==
    /\ caller = [r \in Request |-> "idle"]
    /\ expired = {} /\ committed = {}
    /\ answer = [r \in Request |-> "none"]
    /\ queue = [p \in Priority |-> <<>>]
    /\ result = [r \in Request |-> "none"]
    /\ loop = "first" /\ current = NoRequest /\ burst = 0
    /\ stopper = "idle"

LoopStep ==
    \/ \E p \in Priority : TakeFavoured(p) \/ TakeAny(p)
    \/ NothingFavoured \/ SeeStop \/ Return \/ RejectQueued

Next ==
    \/ \E r \in Request : Admit(r) \/ Refuse(r) \/ ContextDone(r) \/ Wait(r) \/ Forget(r)
    \/ LoopStep
    \/ Stop \/ StopReturns

Spec == Init /\ [][Next]_vars

TakeNormal == TakeFavoured("normal") \/ TakeAny("normal")

(* Fairness.  The loop runs and callbacks return; a caller whose select has *)
(* a ready case takes one.  Go picks uniformly among the ready cases of a   *)
(* select, so the queue of normal writes is picked when it is ready again   *)
(* and again in a select that looks at it: strong fairness.                 *)
Fairness ==
    /\ WF_vars(LoopStep) /\ SF_vars(TakeNormal)
    /\ \A r \in Request : WF_vars(Wait(r))

FairSpec == Spec /\ Fairness

----------------------------------------------------------------------------
\* Properties.

InQueue(r) == r \in ToSet(queue[PriorityOf[r]])

\* The shape of the state; the loop works on a request only between taking and answering it.
TypeOK ==
    /\ caller \in [Request -> {"idle", "waiting", "answered"}]
    /\ expired \subseteq Request /\ committed \subseteq Request
    /\ answer \in [Request -> Answers] /\ result \in [Request -> Results]
    /\ \A p \in Priority : Len(queue[p]) <= Capacity /\ ToSet(queue[p]) \subseteq Request
    /\ loop \in Stages /\ burst \in 0..ControlBurst
    /\ IF loop = "run" THEN current \in Request ELSE current = NoRequest
    /\ stopper \in {"idle", "waiting", "stopped"}

(* What an answer says of the database.  Success was committed and a failed *)
(* or refused write was not: only ErrWriteUnknown and ErrWriterStopped      *)
(* leave the caller of do without knowledge of what it wrote.               *)
AnswersAreTrue ==
    \A r \in Request :
        /\ answer[r] = "ok" => r \in committed
        /\ answer[r] \in {"failed", "refused"} => r \notin committed

(* When Stop has answered without an error no callback runs any more and    *)
(* nothing is committed, although requests may still enter the queues.      *)
StoppedIsQuiet ==
    [][stopper = "stopped" => committed' \subseteq committed /\ loop' # "run"]_vars

(* Every admitted call is answered, also one that entered a queue behind    *)
(* the back of rejectQueued.                                                *)
EveryCallAnswered == \A r \in Request : caller[r] = "waiting" ~> caller[r] = "answered"

(* Control traffic does not starve imports: a normal write is taken from    *)
(* its queue, or the writer stops.                                          *)
NormalNotStarved ==
    \A r \in Request : InQueue(r) /\ PriorityOf[r] = "normal" ~> ~InQueue(r) \/ stopped

=============================================================================
