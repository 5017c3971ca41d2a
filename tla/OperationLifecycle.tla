------------------------- MODULE OperationLifecycle -------------------------
(***************************************************************************)
(* What the operation queue promises to whoever submits a command and to    *)
(* the executor that carries it out, without workers, revisions, requests   *)
(* or reservations: a command is executed by one attempt at a time, an      *)
(* attempt is executed at most once and only while it is claimed, nobody    *)
(* finishes a command that is being executed, and a command that succeeded  *)
(* or was cancelled is not run again.                                       *)
(***************************************************************************)
EXTENDS Naturals

CONSTANT Op

VARIABLES
    status,     \* where each command is
    attempt,    \* how often it was claimed
    holder      \* whether its current attempt is held, and executes

vars == <<status, attempt, holder>>

Status == {"absent", "queued", "owned", "open", "succeeded", "cancelled"}
Holder == {"none", "claimed", "executing"}

Init ==
    /\ status = [o \in Op |-> "absent"]
    /\ attempt = [o \in Op |-> 0]
    /\ holder = [o \in Op |-> "none"]

Moves(o, from, to) == status[o] \in from /\ status' = [status EXCEPT ![o] = to]
Holds(o, from, to) == holder[o] \in from /\ holder' = [holder EXCEPT ![o] = to]

Accept(o) == Moves(o, {"absent"}, "queued") /\ UNCHANGED <<attempt, holder>>

\* A claim starts a new attempt; when its answer is lost nobody holds it.
Claim(o) ==
    /\ Moves(o, {"queued"}, "owned")
    /\ attempt' = [attempt EXCEPT ![o] = @ + 1]
    /\ \E h \in {"none", "claimed"} : Holds(o, {"none"}, h)

Execute(o) == Holds(o, {"claimed"}, "executing") /\ UNCHANGED <<status, attempt>>

\* The executor returned, or the attempt was given up before it started.
LetGo(o) == Holds(o, {"claimed", "executing"}, "none") /\ UNCHANGED <<status, attempt>>

\* The attempt is over and nobody holds it: the command settles or is queued again.
Finish(o) ==
    /\ holder[o] = "none"
    /\ \E s \in {"queued", "open", "succeeded", "cancelled"} : Moves(o, {"owned"}, s)
    /\ UNCHANGED <<attempt, holder>>

(* A cancel may settle a command although its executor is still at work,    *)
(* and one that revisions misled marks a queued command nobody holds.       *)
Cancel(o) ==
    /\ \E s \in {"owned", "cancelled"} : Moves(o, {"queued", "owned"}, s)
    /\ UNCHANGED <<attempt, holder>>

Retry(o) == Moves(o, {"open"}, "queued") /\ UNCHANGED <<attempt, holder>>

\* The process dies: nothing is executed any more, and the table stays.
Crash ==
    /\ holder' = [o \in Op |-> "none"]
    /\ UNCHANGED <<status, attempt>>

\* The next process settles or queues again what the dead one left behind.
Recover ==
    /\ \A o \in Op : holder[o] = "none"
    /\ status' \in [Op -> Status]
    /\ \A o \in Op : status'[o] # status[o] =>
          /\ status[o] \in {"owned", "open"}
          /\ status'[o] \in {"queued", "open", "cancelled"}
    /\ UNCHANGED <<attempt, holder>>

Next ==
    \/ \E o \in Op : \/ Accept(o) \/ Claim(o) \/ Execute(o) \/ LetGo(o)
                     \/ Finish(o) \/ Cancel(o) \/ Retry(o)
    \/ Crash \/ Recover

Spec == Init /\ [][Next]_vars

=============================================================================
