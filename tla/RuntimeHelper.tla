---------------------------- MODULE RuntimeHelper ----------------------------
(***************************************************************************)
(* internal/runtime.Manager: one supervised helper process per command. A   *)
(* call takes the helper from the manager, then holds the helper's mutex    *)
(* for a whole request; it starts the process when none runs. A reaper      *)
(* retires idle helpers, a probe asks only a helper that is free, and       *)
(* CloseWithContext stops processes without waiting for that mutex.         *)
(*                                                                          *)
(* One command is modelled; what requests carry is left out. A process that *)
(* is killed is gone at once, so stopRequested, which lets only the first   *)
(* of several requests kill it, is left out; so is a deadline function that *)
(* fires too late and kills the next process: Exit covers it.               *)
(***************************************************************************)
EXTENDS FiniteSets

CONSTANTS
    Caller,         \* goroutines that call capabilities, any number of times
    Prober,         \* the goroutine of the status page
    Helper,         \* helperProcess objects (bound)
    Free            \* no helper, and no holder of a mutex

Client == Caller \cup {Prober}

\* The value for "none" is no helper and no holder.
HelperAssumption == Free \notin Helper \cup Client \cup {"reaper"}

VARIABLES
    helper,         \* m.processes[command], or Free
    managerMu,      \* m.mu: only the reaper keeps it from one step to the next
    helperMu,       \* p.mu of each helper
    proc,           \* the process of a helper; a "new" one nobody can stop yet
    shut,           \* helpers with p.closed set
    pc, ref,        \* each client: where it is, and its helper
    reaper,         \* [at, of]: the reaper and the helper it looks at
    closer,         \* [at, todo]: CloseWithContext and the helpers to stop
    orphans         \* history: helpers reaped between the fetch and the lock of a call

vars == <<helper, managerMu, helperMu, proc, shut, pc, ref, reaper, closer, orphans>>

stopped == closer.at # "open"

\* stopProcess and closeLocked: the process can be stopped once it is attached.
Killed(h) == [proc EXCEPT ![h] = IF @ = "up" THEN "down" ELSE @]
closeHelper(h) == proc' = Killed(h)

Unlock(h) == helperMu' = [helperMu EXCEPT ![h] = Free]
Goto(c, l) == pc' = [pc EXCEPT ![c] = l]

\* A call returns and forgets its helper.
Return(c) == Goto(c, "idle") /\ ref' = [ref EXCEPT ![c] = Free]

\* An object nobody knows any more serves as a new one. What becomes of the
\* process of an orphan is then out of sight.
Unknown(h) ==
    /\ helper # h /\ reaper.of # h /\ h \notin closer.todo /\ \A c \in Client : ref[c] # h
    /\ proc[h] = "up" => h \in orphans

----------------------------------------------------------------------------
Call(c) ==
    /\ pc[c] = "idle" /\ Goto(c, "fetch")
    /\ UNCHANGED <<helper, managerMu, helperMu, proc, shut, ref, reaper, closer, orphans>>

\* invokeWithTimeoutAndProgress: the helper of the command, or a new one.
Fetch(c) ==
    /\ c \in Caller /\ pc[c] = "fetch" /\ managerMu = Free
    /\ \/ stopped /\ Return(c) /\ UNCHANGED <<helper, proc, shut, orphans>>
       \/ \E h \in Helper :
            /\ ~stopped /\ IF helper = Free THEN Unknown(h) ELSE h = helper
            /\ helper' = h /\ ref' = [ref EXCEPT ![c] = h] /\ Goto(c, "lock")
            /\ IF helper = h THEN UNCHANGED <<proc, shut, orphans>>
               ELSE /\ proc' = [proc EXCEPT ![h] = "down"]
                    /\ shut' = shut \ {h} /\ orphans' = orphans \ {h}
    /\ UNCHANGED <<managerMu, helperMu, reaper, closer>>

\* call: wait for the mutex, then use the process or start one.
Lock(c) ==
    LET h == ref[c] IN
    /\ pc[c] = "lock" /\ helperMu[h] = Free
    /\ \/ Return(c) /\ UNCHANGED helperMu                  \* shut, or cancelled
       \/ /\ h \notin shut
          /\ helperMu' = [helperMu EXCEPT ![h] = c]
          /\ Goto(c, IF proc[h] = "up" THEN "reply" ELSE "spawn")
          /\ UNCHANGED ref
    /\ UNCHANGED <<helper, managerMu, proc, shut, reaper, closer, orphans>>

\* startLocked up to cmd.Start, which may fail.
Spawn(c) ==
    LET h == ref[c] IN
    /\ pc[c] = "spawn"
    /\ \/ /\ proc' = [proc EXCEPT ![h] = "new"] /\ Goto(c, "attach") /\ UNCHANGED <<helperMu, ref>>
       \/ Unlock(h) /\ Return(c) /\ UNCHANGED proc
    /\ UNCHANGED <<helper, managerMu, shut, reaper, closer, orphans>>

\* startLocked after it: p.stop and p.wait appear, then p.closed is read again.
ClosedIgnored(h) == FALSE \* mutant
ClosedMeanwhile(h) == h \in shut

Attach(c) ==
    LET h == ref[c] IN
    /\ pc[c] = "attach"
    /\ IF ClosedMeanwhile(h)
       THEN proc' = [proc EXCEPT ![h] = "down"] /\ Unlock(h) /\ Return(c)
       ELSE proc' = [proc EXCEPT ![h] = "up"] /\ Goto(c, "reply") /\ UNCHANGED <<helperMu, ref>>
    /\ UNCHANGED <<helper, managerMu, shut, reaper, closer, orphans>>

\* The handshake of a new process and the answer, both waited for with the
\* mutex held; a process is retired after maxRequests answers.
Reply(c) ==
    LET h == ref[c] IN
    /\ pc[c] = "reply" /\ proc[h] = "up"
    /\ Goto(c, "warm") /\ Unlock(h)
    /\ UNCHANGED proc \/ closeHelper(h)
    /\ UNCHANGED <<helper, managerMu, shut, ref, reaper, closer, orphans>>

\* The deadline, a cancelled caller, a bad answer or a dead process ends it.
EndsWithProcess(c) == proc[ref[c]] = "down" \* mutant
Ends(c) == TRUE

Fail(c) ==
    LET h == ref[c] IN
    /\ pc[c] = "reply" /\ Ends(c)
    /\ closeHelper(h) /\ Unlock(h) /\ Return(c)
    /\ UNCHANGED <<helper, managerMu, shut, reaper, closer, orphans>>

\* markWarmed, or lastStatus of a probe: m.mu once the helper is unlocked.
Warm(c) ==
    /\ pc[c] = "warm" /\ managerMu = Free
    /\ Return(c)
    /\ UNCHANGED <<helper, managerMu, helperMu, proc, shut, reaper, closer, orphans>>

\* probeStatus: TryLock, and no process is started for it.
Probe ==
    /\ pc[Prober] = "fetch" /\ managerMu = Free
    /\ IF helper = Free THEN Return(Prober)
       ELSE ref' = [ref EXCEPT ![Prober] = helper] /\ Goto(Prober, "try")
    /\ UNCHANGED <<helper, managerMu, helperMu, proc, shut, reaper, closer, orphans>>

Try ==
    LET h == ref[Prober] IN
    /\ pc[Prober] = "try"
    /\ IF helperMu[h] = Free /\ proc[h] = "up" /\ h \notin shut
       THEN helperMu' = [helperMu EXCEPT ![h] = Prober] /\ Goto(Prober, "reply") /\ UNCHANGED ref
       ELSE Return(Prober) /\ UNCHANGED helperMu
    /\ UNCHANGED <<helper, managerMu, proc, shut, reaper, closer, orphans>>

\* The process exits by itself.
Exit(h) ==
    /\ proc[h] = "up" /\ closeHelper(h)
    /\ UNCHANGED <<helper, managerMu, helperMu, shut, pc, ref, reaper, closer, orphans>>

----------------------------------------------------------------------------
\* reap: with m.mu held it waits for the mutex of each helper.

Tick ==
    /\ reaper.at = "wait" /\ managerMu = Free /\ helper # Free
    /\ managerMu' = "reaper" /\ reaper' = [at |-> "look", of |-> helper]
    /\ UNCHANGED <<helper, helperMu, proc, shut, pc, ref, closer, orphans>>

\* lastUsed is only set by answers, so a helper may look idle at any time.
Look ==
    LET h == reaper.of IN
    /\ reaper.at = "look" /\ helperMu[h] = Free
    /\ managerMu' = Free
    /\ \/ reaper' = [at |-> "wait", of |-> Free] /\ UNCHANGED <<helper, orphans>>
       \/ /\ reaper' = [at |-> "close", of |-> h] /\ helper' = Free
          /\ orphans' = IF \E c \in Caller : ref[c] = h /\ pc[c] = "lock"
                        THEN orphans \cup {h} ELSE orphans
    /\ UNCHANGED <<helperMu, proc, shut, pc, ref, closer>>

Retire ==
    /\ reaper.at = "close" /\ helperMu[reaper.of] = Free
    /\ closeHelper(reaper.of)
    /\ reaper' = [at |-> "wait", of |-> Free]
    /\ UNCHANGED <<helper, managerMu, helperMu, shut, pc, ref, closer, orphans>>

ReaperDone ==
    /\ reaper.at = "wait" /\ stopped
    /\ reaper' = [at |-> "done", of |-> Free]
    /\ UNCHANGED <<helper, managerMu, helperMu, proc, shut, pc, ref, closer, orphans>>

----------------------------------------------------------------------------
\* CloseWithContext

Close ==
    /\ closer.at = "open" /\ closer' = [closer EXCEPT !.at = "take"]
    /\ UNCHANGED <<helper, managerMu, helperMu, proc, shut, pc, ref, reaper, orphans>>

Take ==
    /\ closer.at = "take" /\ managerMu = Free
    /\ closer' = [at |-> "stop", todo |-> {helper} \ {Free}] /\ helper' = Free
    /\ UNCHANGED <<managerMu, helperMu, proc, shut, pc, ref, reaper, orphans>>

\* requestStop does not take p.mu.
Stopped(h) == Killed(h)

RequestStop(h) ==
    /\ closer.at = "stop" /\ h \in closer.todo
    /\ shut' = shut \cup {h} /\ proc' = Stopped(h)
    /\ closer' = [closer EXCEPT !.at = "wait"]
    /\ UNCHANGED <<helper, managerMu, helperMu, pc, ref, reaper, orphans>>

\* p.wait is nil, or of an earlier process, while one is being started.
Waited ==
    /\ closer.at = "wait" /\ \A h \in closer.todo : proc[h] # "up"
    /\ closer' = [at |-> "stop", todo |-> {}]
    /\ UNCHANGED <<helper, managerMu, helperMu, proc, shut, pc, ref, reaper, orphans>>

CloseReturn ==
    /\ closer.at = "stop" /\ closer.todo = {} /\ reaper.at = "done"
    /\ closer' = [at |-> "closed", todo |-> {}]
    /\ UNCHANGED <<helper, managerMu, helperMu, proc, shut, pc, ref, reaper, orphans>>

----------------------------------------------------------------------------
Init ==
    /\ helper = Free /\ managerMu = Free /\ helperMu = [h \in Helper |-> Free]
    /\ proc = [h \in Helper |-> "down"] /\ shut = {}
    /\ pc = [c \in Client |-> "idle"] /\ ref = [c \in Client |-> Free]
    /\ reaper = [at |-> "wait", of |-> Free] /\ closer = [at |-> "open", todo |-> {}]
    /\ orphans = {}

\* What a goroutine does once its call, or its tick or Close, has begun. That a
\* process answers is not up to it.
Continue(c) ==
    \/ Fetch(c) \/ Lock(c) \/ Spawn(c) \/ Attach(c) \/ Fail(c) \/ Warm(c)
    \/ c = Prober /\ (Probe \/ Try)
Reap == Look \/ Retire \/ ReaperDone
Closing == Take \/ (\E h \in Helper : RequestStop(h)) \/ Waited \/ CloseReturn

Next ==
    \/ \E c \in Client : Call(c) \/ Reply(c) \/ Continue(c)
    \/ \E h \in Helper : Exit(h)
    \/ Tick \/ Reap \/ Close \/ Closing

Spec == Init /\ [][Next]_vars

----------------------------------------------------------------------------
TypeOK ==
    /\ helper \in Helper \cup {Free} /\ managerMu \in {Free, "reaper"}
    /\ helperMu \in [Helper -> Client \cup {Free}]
    /\ proc \in [Helper -> {"down", "new", "up"}] /\ shut \cup orphans \subseteq Helper
    /\ ref \in [Client -> Helper \cup {Free}]

\* When CloseWithContext has returned, no helper process is left, save one that
\* a call is just starting, and which it will stop, and those of helpers that
\* were reaped under a waiting call, which no Close can reach.
ClosedLeavesNothing ==
    closer.at = "closed" => \A h \in Helper : proc[h] = "up" => h \in orphans

\* Every call returns: the deadline ends the request that the others wait for,
\* and nobody who holds a helper's mutex waits for the manager's.
CallsReturn == \A c \in Client : (pc[c] # "idle") ~> (pc[c] = "idle")

\* So does CloseWithContext, without any context, whatever a helper does.
CloseReturns == (closer.at = "take") ~> (closer.at = "closed")

=============================================================================
