------------------------- MODULE RuntimeHelperProofs -------------------------
(***************************************************************************)
(* Proofs of services that hold what others use. CloseWithContext of the     *)
(* runtime manager leaves no process of a helper it could know of, for any  *)
(* callers and any helper objects; whatever ends a migration of the model   *)
(* cache, the configured cache is complete (ModelCache); and what semantic  *)
(* memory keeps of documents is in their texts (SemanticCompile).           *)
(***************************************************************************)
EXTENDS RuntimeHelper, Integers, TLAPS

----------------------------------------------------------------------------
\* A caller on its way to a process, and the holder of a helper's mutex.
Starting == {"lock", "spawn", "attach"}
Holding  == {"spawn", "attach", "reply"}
ReaperSteps == {"wait", "look", "close", "done"}
CloserSteps == {"open", "take", "stop", "wait", "closed"}
Steps == {"idle", "fetch", "lock", "spawn", "attach", "reply", "warm", "try"}

Typed ==
    /\ TypeOK
    /\ pc \in [Client -> Steps]
    /\ reaper \in [at : ReaperSteps, of : Helper \cup {Free}]
    /\ closer \in [at : CloserSteps, todo : SUBSET Helper]

\* A helper that a Close stops, or has stopped, or that was reaped under a call.
Known(h) == h = helper \/ h \in closer.todo \/ h \in shut \/ h \in orphans

\* Whoever may start a process does so for a known helper.
StartsKnown == \A c \in Client : pc[c] \in Starting =>
                   c \in Caller /\ ref[c] \in Helper /\ Known(ref[c])

\* The mutex of a helper covers its start and its request.
HoldsMutex == \A c \in Client : /\ pc[c] \in Holding => ref[c] \in Helper /\ helperMu[ref[c]] = c
                                /\ pc[c] = "try" => ref[c] \in Helper

\* A process that runs is one of a known helper, or about to be retired.
RunsKnown == \A h \in Helper : proc[h] = "up" => Known(h) \/ (reaper.at = "close" /\ reaper.of = h)

\* A helper that was asked to stop never has a process again.
ShutIsDown == \A h \in shut : proc[h] # "up"

\* The reaper keeps m.mu while it looks at the helper.
ReaperAt ==
    /\ reaper.at = "look" => managerMu = "reaper" /\ helper = reaper.of
    /\ reaper.at \in {"look", "close"} => reaper.of \in Helper
    /\ reaper.at \in {"wait", "done"} => reaper.of = Free

\* The closer takes the one helper from the manager, and stops it.
CloserAt ==
    /\ closer.at \in {"open", "take", "closed"} => closer.todo = {}
    /\ closer.at \in {"stop", "wait", "closed"} => helper = Free
    /\ closer.at = "wait" => closer.todo \subseteq shut
    /\ \A g, h \in closer.todo : g = h
    /\ closer.at = "closed" => reaper.at = "done"

HelperInv == /\ Typed /\ StartsKnown /\ HoldsMutex /\ RunsKnown /\ ShutIsDown
             /\ ReaperAt /\ CloserAt
----------------------------------------------------------------------------
\* The steps of a client, of a process, of the reaper and of a Close.
ClientStep(c) == \/ Call(c) \/ Fetch(c) \/ Lock(c) \/ Spawn(c) \/ Attach(c) \/ Reply(c)
                 \/ Fail(c) \/ Warm(c) \/ (c = Prober /\ (Probe \/ Try))

LEMMA NextSteps ==
    ASSUME [Next]_vars
    PROVE  \/ \E c \in Client : ClientStep(c)
           \/ (\E h \in Helper : Exit(h)) \/ Tick \/ Look \/ Retire \/ ReaperDone
           \/ Close \/ Take \/ (\E h \in Helper : RequestStop(h)) \/ Waited \/ CloseReturn
           \/ UNCHANGED vars
  BY DEF Next, Continue, Reap, Closing, ClientStep

LEMMA TypedStep ==
    ASSUME HelperInv, [Next]_vars
    PROVE  Typed'
  <1>. USE DEF HelperInv, Typed, TypeOK, StartsKnown, HoldsMutex, ReaperAt, Starting, Holding,
               Steps, ReaperSteps, CloserSteps
  <1>1. ASSUME NEW c \in Client, ClientStep(c) PROVE Typed'
    <2>1. CASE Call(c) \/ Warm(c) \/ (c = Prober /\ (Probe \/ Try))
      BY <2>1 DEF Call, Warm, Probe, Try, Goto, Return, Client
    <2>2. CASE Fetch(c)
      BY <2>2 DEF Fetch, Goto, Return
    <2>3. CASE Lock(c) \/ Spawn(c) \/ Attach(c)
      BY <2>3 DEF Lock, Spawn, Attach, Goto, Return, Unlock
    <2>4. CASE Reply(c) \/ Fail(c)
      BY <2>4 DEF Reply, Fail, Goto, Return, Unlock, closeHelper, Killed
    <2>5. QED
      BY <1>1, <2>1, <2>2, <2>3, <2>4 DEF ClientStep
  <1>2. CASE (\E h \in Helper : Exit(h)) \/ Tick \/ Look \/ Retire \/ ReaperDone
    BY <1>2 DEF Exit, Tick, Look, Retire, ReaperDone, closeHelper, Killed
  <1>3. CASE \/ Close \/ Take \/ (\E h \in Helper : RequestStop(h)) \/ Waited \/ CloseReturn
    BY <1>3 DEF Close, Take, RequestStop, Waited, CloseReturn, Stopped, Killed
  <1>4. CASE UNCHANGED vars
    BY <1>4 DEF vars
  <1>5. QED
    BY <1>1, <1>2, <1>3, <1>4, NextSteps


\* Who holds the mutex of a helper goes on holding it.
LEMMA HoldsStep ==
    ASSUME HelperAssumption, HelperInv, [Next]_vars
    PROVE  HoldsMutex'
  <1>. USE DEF HelperInv, Typed, TypeOK, StartsKnown, HoldsMutex, Starting, Holding,
               HelperAssumption
  <1>1. ASSUME NEW c \in Client, ClientStep(c) PROVE HoldsMutex'
    <2>1. CASE Call(c) \/ Warm(c) \/ (c = Prober /\ Probe)
      BY <2>1 DEF Call, Warm, Probe, Goto, Return
    <2>2. CASE Fetch(c)
      BY <2>2 DEF Fetch, Goto, Return
    <2>3. CASE Lock(c)
      BY <2>3 DEF Lock, Goto, Return
    <2>4. CASE Spawn(c) \/ Attach(c)
      BY <2>4 DEF Spawn, Attach, Goto, Return, Unlock
    <2>5. CASE Reply(c) \/ Fail(c)
      BY <2>5 DEF Reply, Fail, Goto, Return, Unlock
    <2>6. CASE c = Prober /\ Try
      BY <2>6 DEF Try, Goto, Return
    <2>7. QED
      BY <1>1, <2>1, <2>2, <2>3, <2>4, <2>5, <2>6 DEF ClientStep
  <1>2. CASE UNCHANGED <<helperMu, pc, ref>>
    BY <1>2
  <1>3. QED
    BY <1>1, <1>2, NextSteps DEF Exit, Tick, Look, Retire, ReaperDone, Close, Take, RequestStop,
         Waited, CloseReturn, vars

\* A helper stays known until it is forgotten by everybody: the reaper that takes
\* it away finds its mutex free, so that only a waiting call is left, and a
\* Close hands it on to shut.
LEMMA StartsStep ==
    ASSUME HelperAssumption, HelperInv, [Next]_vars
    PROVE  StartsKnown'
  <1>. USE DEF HelperInv, Typed, TypeOK, StartsKnown, Known, Starting, HelperAssumption
  <1>1. ASSUME NEW c \in Client, ClientStep(c) PROVE StartsKnown'
    <2>1. CASE Call(c) \/ Warm(c) \/ (c = Prober /\ (Probe \/ Try))
      BY <2>1 DEF Call, Warm, Probe, Try, Goto, Return
    <2>2. CASE Fetch(c)
      <3>1. CASE Return(c) /\ UNCHANGED <<helper, proc, shut, orphans>>
        BY <2>2, <3>1 DEF Fetch, Goto, Return
      <3>2. ASSUME NEW h \in Helper,
                   IF helper = Free THEN Unknown(h) ELSE h = helper,
                   helper' = h, ref' = [ref EXCEPT ![c] = h], Goto(c, "lock"),
                   IF helper = h THEN UNCHANGED <<proc, shut, orphans>>
                   ELSE /\ proc' = [proc EXCEPT ![h] = "down"]
                        /\ shut' = shut \ {h} /\ orphans' = orphans \ {h}
            PROVE  StartsKnown'
        <4>1. ASSUME NEW d \in Client, d # c, pc[d] \in Starting PROVE Known(ref[d])'
          BY <2>2, <3>2, <4>1 DEF Fetch, Unknown
        <4>2. \A d \in Client : d # c => pc'[d] = pc[d] /\ ref'[d] = ref[d]
          BY <3>2 DEF Goto
        <4>3. c \in Caller /\ ref'[c] = h /\ Known(h)'
          BY <2>2, <3>2 DEF Fetch
        <4>4. QED
          BY <4>1, <4>2, <4>3
      <3>3. QED
        BY <2>2, <3>1, <3>2 DEF Fetch
    <2>3. CASE Lock(c) \/ Spawn(c) \/ Attach(c)
      BY <2>3 DEF Lock, Spawn, Attach, Goto, Return
    <2>4. CASE Reply(c) \/ Fail(c)
      BY <2>4 DEF Reply, Fail, Goto, Return
    <2>5. QED
      BY <1>1, <2>1, <2>2, <2>3, <2>4 DEF ClientStep
  <1>2. CASE Look
    <2>1. ASSUME NEW d \in Client, pc[d] \in Starting, ref[d] = reaper.of
          PROVE  pc[d] = "lock" /\ d \in Caller
      BY <1>2, <2>1 DEF Look, HoldsMutex, Holding
    <2>2. helper = reaper.of
      BY <1>2 DEF Look, ReaperAt
    <2>3. QED
      BY <1>2, <2>1, <2>2 DEF Look
  <1>3. CASE Take \/ (\E h \in Helper : RequestStop(h)) \/ Waited
    BY <1>3 DEF Take, RequestStop, Waited, CloserAt
  <1>4. CASE CloseReturn
    BY <1>4 DEF CloseReturn
  <1>5. CASE UNCHANGED <<helper, closer, shut, orphans, pc, ref>>
    BY <1>5
  <1>6. CASE Close
    BY <1>6 DEF Close
  <1>7. QED
    BY <1>1, <1>2, <1>3, <1>4, <1>5, <1>6, NextSteps DEF Exit, Tick, Retire, ReaperDone, vars

\* No call starts a process of a helper that is shut.
LEMMA ShutStep ==
    ASSUME HelperAssumption, HelperInv, [Next]_vars
    PROVE  ShutIsDown'
  <1>. USE DEF HelperInv, Typed, TypeOK, ShutIsDown
  <1>1. ASSUME NEW c \in Client, ClientStep(c) PROVE ShutIsDown'
    <2>1. CASE Call(c) \/ Lock(c) \/ Warm(c) \/ (c = Prober /\ (Probe \/ Try))
      BY <2>1 DEF Call, Lock, Warm, Probe, Try
    <2>2. CASE Fetch(c)
      BY <2>2 DEF Fetch
    <2>3. CASE Spawn(c) \/ Attach(c)
      BY <2>3 DEF Spawn, Attach, ClosedMeanwhile
    <2>4. CASE Reply(c) \/ Fail(c)
      BY <2>4 DEF Reply, Fail, closeHelper, Killed
    <2>5. QED
      BY <1>1, <2>1, <2>2, <2>3, <2>4 DEF ClientStep
  <1>2. CASE (\E h \in Helper : Exit(h)) \/ Retire
    BY <1>2 DEF Exit, Retire, closeHelper, Killed
  <1>3. CASE \E h \in Helper : RequestStop(h)
    BY <1>3 DEF RequestStop, Stopped, Killed
  <1>4. CASE UNCHANGED <<proc, shut>>
    BY <1>4
  <1>5. QED
    BY <1>1, <1>2, <1>3, <1>4, NextSteps DEF Tick, Look, ReaperDone, Close, Take, Waited,
         CloseReturn, vars

\* The reaper and the Close, in the places that m.mu gives them.
LEMMA PlacesStep ==
    ASSUME HelperAssumption, HelperInv, [Next]_vars
    PROVE  ReaperAt' /\ CloserAt'
  <1>. USE DEF HelperInv, Typed, TypeOK, ReaperAt, CloserAt, HelperAssumption
  <1>1. ASSUME NEW c \in Client, ClientStep(c) PROVE ReaperAt' /\ CloserAt'
    <2>1. CASE Fetch(c)
      BY <2>1 DEF Fetch, stopped, CloserSteps
    <2>2. CASE ~Fetch(c)
      BY <1>1, <2>2 DEF ClientStep, Call, Lock, Spawn, Attach, Reply, Fail, Warm, Probe, Try
    <2>3. QED
      BY <2>1, <2>2
  <1>2. CASE (\E h \in Helper : Exit(h)) \/ Tick \/ Look \/ Retire \/ ReaperDone
    <2>1. CASE Tick \/ Look
      BY <1>2, <2>1 DEF Tick, Look
    <2>2. CASE (\E h \in Helper : Exit(h)) \/ Retire \/ ReaperDone
      BY <1>2, <2>2 DEF Exit, Retire, ReaperDone
    <2>3. QED
      BY <1>2, <2>1, <2>2
  <1>3. CASE Close \/ Take \/ (\E h \in Helper : RequestStop(h)) \/ Waited \/ CloseReturn
    <2>1. CASE Close \/ Waited \/ CloseReturn
      BY <2>1 DEF Close, Waited, CloseReturn
    <2>2. CASE Take
      BY <2>2 DEF Take
    <2>3. CASE \E h \in Helper : RequestStop(h)
      BY <2>3 DEF RequestStop
    <2>4. QED
      BY <1>3, <2>1, <2>2, <2>3
  <1>4. CASE UNCHANGED vars
    BY <1>4 DEF vars
  <1>5. QED
    BY <1>1, <1>2, <1>3, <1>4, NextSteps

\* A process that is about to run belongs to a call at a known helper; one that
\* runs is killed before its helper is forgotten.
LEMMA RunsStep ==
    ASSUME HelperAssumption, HelperInv, [Next]_vars
    PROVE  RunsKnown'
  <1>. USE DEF HelperInv, Typed, TypeOK, RunsKnown, Known, HelperAssumption
  <1>1. ASSUME NEW c \in Client, ClientStep(c) PROVE RunsKnown'
    <2>1. CASE Call(c) \/ Lock(c) \/ Warm(c) \/ (c = Prober /\ (Probe \/ Try))
      BY <2>1 DEF Call, Lock, Warm, Probe, Try
    <2>2. CASE Fetch(c)
      BY <2>2 DEF Fetch, Unknown
    <2>3. CASE Spawn(c)
      BY <2>3 DEF Spawn
    <2>4. CASE Attach(c)
      BY <2>4 DEF Attach, StartsKnown, Starting
    <2>5. CASE Reply(c) \/ Fail(c)
      BY <2>5 DEF Reply, Fail, closeHelper, Killed
    <2>6. QED
      BY <1>1, <2>1, <2>2, <2>3, <2>4, <2>5 DEF ClientStep
  <1>2. CASE (\E h \in Helper : Exit(h)) \/ Retire
    BY <1>2 DEF Exit, Retire, closeHelper, Killed
  <1>3. CASE Look
    BY <1>3 DEF Look, ReaperAt
  <1>4. CASE Tick \/ ReaperDone
    BY <1>4 DEF Tick, ReaperDone
  <1>5. CASE Close \/ Take \/ Waited \/ CloseReturn
    BY <1>5 DEF Close, Take, Waited, CloseReturn, CloserAt, ShutIsDown
  <1>6. CASE \E h \in Helper : RequestStop(h)
    BY <1>6 DEF RequestStop, Stopped, Killed
  <1>7. CASE UNCHANGED vars
    BY <1>7 DEF vars
  <1>8. QED
    BY <1>1, <1>2, <1>3, <1>4, <1>5, <1>6, <1>7, NextSteps

\* All of it always holds.
LEMMA HelperHolds == ASSUME HelperAssumption PROVE Spec => []HelperInv
  <1>1. Init => HelperInv
    BY DEF Init, HelperInv, Typed, TypeOK, StartsKnown, HoldsMutex, RunsKnown, ShutIsDown, ReaperAt,
           CloserAt, Steps, Starting, Holding, ReaperSteps, CloserSteps
  <1>2. HelperInv /\ [Next]_vars => HelperInv'
    <2>. SUFFICES ASSUME HelperInv, [Next]_vars PROVE HelperInv'
      OBVIOUS
    <2>1. Typed' /\ StartsKnown' /\ HoldsMutex'
      BY TypedStep, StartsStep, HoldsStep
    <2>2. RunsKnown' /\ ShutIsDown' /\ ReaperAt' /\ CloserAt'
      BY RunsStep, ShutStep, PlacesStep
    <2>3. QED
      BY <2>1, <2>2 DEF HelperInv
  <1>3. QED
    BY <1>1, <1>2, PTL DEF Spec

\* CloseWithContext reaches every process: when it has returned, what still runs
\* belongs to a helper that the reaper took from a waiting call. A call that was
\* starting a process meanwhile finds its helper shut and stops the process itself.
THEOREM ClosedManagerIsEmpty ==
    ASSUME HelperAssumption
    PROVE  Spec => []ClosedLeavesNothing
  <1>1. HelperInv => ClosedLeavesNothing
    <2>. SUFFICES ASSUME HelperInv, closer.at = "closed", NEW h \in Helper, proc[h] = "up"
                  PROVE  h \in orphans
      BY DEF ClosedLeavesNothing
    <2>1. helper # h /\ closer.todo = {} /\ reaper.at = "done"
      BY DEF HelperInv, CloserAt, HelperAssumption
    <2>2. h \notin shut
      BY DEF HelperInv, ShutIsDown
    <2>3. QED
      BY <2>1, <2>2 DEF HelperInv, RunsKnown, Known
  <1>2. QED
    BY <1>1, HelperHolds, PTL

----------------------------------------------------------------------------
\* A mutex that is taken has a holder who is at work under it: the reaper looks
\* at a helper with m.mu, and a client at a helper has its process started or
\* waits for its answer.
HeldForWork ==
    /\ managerMu = "reaper" => reaper.at = "look"
    /\ \A h \in Helper : helperMu[h] # Free =>
          helperMu[h] \in Client /\ ref[helperMu[h]] = h /\ pc[helperMu[h]] \in Holding

LEMMA HeldStep ==
    ASSUME HelperAssumption, HelperInv, HeldForWork, [Next]_vars
    PROVE  HeldForWork'
  <1>. USE DEF HelperInv, Typed, TypeOK, HeldForWork, HoldsMutex, Holding, HelperAssumption
  <1>1. ASSUME NEW c \in Client, ClientStep(c) PROVE HeldForWork'
    <2>1. CASE Call(c) \/ Warm(c) \/ (c = Prober /\ Probe)
      BY <2>1 DEF Call, Warm, Probe, Goto, Return
    <2>2. CASE Fetch(c)
      BY <2>2 DEF Fetch, Goto, Return
    <2>3. CASE Lock(c)
      BY <2>3 DEF Lock, Goto, Return
    <2>4. CASE Spawn(c) \/ Attach(c)
      BY <2>4 DEF Spawn, Attach, Goto, Return, Unlock
    <2>5. CASE Reply(c) \/ Fail(c)
      BY <2>5 DEF Reply, Fail, Goto, Return, Unlock
    <2>6. CASE c = Prober /\ Try
      BY <2>6 DEF Try, Goto, Return
    <2>7. QED
      BY <1>1, <2>1, <2>2, <2>3, <2>4, <2>5, <2>6 DEF ClientStep
  <1>2. CASE Tick \/ Look
    BY <1>2 DEF Tick, Look
  <1>3. CASE Retire \/ ReaperDone
    BY <1>3 DEF Retire, ReaperDone, ReaperAt
  <1>4. CASE UNCHANGED <<managerMu, helperMu, pc, ref, reaper>>
    BY <1>4
  <1>5. QED
    BY <1>1, <1>2, <1>3, <1>4, NextSteps DEF Exit, Close, Take, RequestStop,
         Waited, CloseReturn, vars

\* What a goroutine waits for: m.mu, or the mutex of a helper.
WaitsForManager(c) == pc[c] \in {"fetch", "warm"}
WaitsForHelper(c) == pc[c] = "lock"

\* No goroutine waits for another in a circle: whoever has a helper's mutex waits
\* for no mutex, and m.mu is kept only by the reaper while it waits for such a one.
NoCircle ==
    /\ \A h \in Helper : helperMu[h] # Free =>
          ~WaitsForManager(helperMu[h]) /\ ~WaitsForHelper(helperMu[h])
    /\ managerMu # Free => reaper.at = "look" /\ reaper.of \in Helper

(* Every path gives its mutexes back: one that is taken belongs to whoever is   *)
(* at work under it, so that calls, probes, the reaper and Close never wait for *)
(* each other in a circle (invokeWithTimeoutAndProgress, call, probeStatus,     *)
(* reap). This is the safety half of CallsReturn.                               *)
THEOREM MutexesAreReleased ==
    ASSUME HelperAssumption
    PROVE  Spec => [](HoldsMutex /\ HeldForWork /\ NoCircle)
  <1>1. Init => HeldForWork
    BY DEF Init, HeldForWork, HelperAssumption
  <1>2. HelperInv /\ HeldForWork /\ [Next]_vars => HeldForWork'
    BY HeldStep
  <1>3. HelperInv /\ HeldForWork => HoldsMutex /\ NoCircle
    <2>1. HelperInv /\ HeldForWork => HoldsMutex
      BY DEF HelperInv
    <2>2. HelperInv /\ HeldForWork => NoCircle
      BY DEF HelperInv, Typed, TypeOK, ReaperAt, HeldForWork, NoCircle, WaitsForManager, WaitsForHelper, Holding
    <2>3. QED
      BY <2>1, <2>2
  <1>4. QED
    BY <1>1, <1>2, <1>3, HelperHolds, PTL DEF Spec

-----------------------------------------------------------------------------
(* The model cache, for any models, caches, managers and operations.         *)

CONSTANTS Model, Root, Manager, Job, Commands, Initial, Nobody
VARIABLES disk, config, current, root, opMu, job, wanted, astray

C == INSTANCE ModelCache

Disks == [Root -> [Model -> {"no", "part", "whole"}]]
JobPlaces == {"idle", "download", "install", "remove", "removing", "migrate", "copy", "save", "clear",
              "activate", "replace"}
JobSet == [at : JobPlaces, by : Manager \cup {Nobody}, model : Model \cup {Nobody},
           target : Root \cup {Nobody}, remove : BOOLEAN, plan : SUBSET Model]

CacheTyped ==
    /\ disk \in Disks /\ config \in Root /\ current \in Manager /\ root \in [Manager -> Root]
    /\ opMu \in [Manager -> Job \cup {Nobody}] /\ job \in [Job -> JobSet]
    /\ wanted \subseteq Model /\ astray \subseteq Model

\* Whoever is at work has its manager, and what it works on.
Equipped(x) ==
    /\ x.at # "idle" => x.by \in Manager
    /\ x.at \in {"download", "install", "remove", "removing"} => x.model \in Model
    /\ x.at \in {"migrate", "copy", "save", "clear", "activate", "replace"} => x.target \in Root

Locked == {"install", "removing", "copy", "save", "clear", "activate"}
Moves == {"copy", "save", "clear"}

\* Installed models that are not astray.
Here == wanted \ astray

\* Beside a migration either everything is astray, or it is alone, and what it
\* has not copied yet is whole where config points.
Steady(j) ==
    \/ Here = {}
    \/ /\ \A k \in Job \ {j} : job[k].at \notin Moves
       /\ job[j].target # C!source(j)
       /\ job[j].at \in {"copy", "save"} => C!source(j) = config /\ Here \subseteq job[j].plan
       /\ job[j].at = "save" => \A m \in Here : disk[job[j].target][m] = "whole"
       /\ job[j].at = "clear" => job[j].target = config

CacheInv ==
    /\ CacheTyped
    /\ \A j \in Job : Equipped(job[j])
    /\ \A j \in Job : job[j].at \in Locked => opMu[job[j].by] = j
    /\ \A j \in Job : job[j].at \in Moves => Steady(j)
    /\ C!ConfiguredIsComplete

-----------------------------------------------------------------------------
(* What a step of one job owes to the invariant.                             *)

\* The job of j becomes x, and the mutex of its manager follows.
Becomes(j, x) ==
    /\ x \in JobSet /\ Equipped(x) /\ job' = [job EXCEPT ![j] = x]
    /\ \/ UNCHANGED opMu /\ (x.at \in Locked => job[j].at \in Locked /\ x.by = job[j].by)
       \/ x.by \in Manager /\ opMu[x.by] = Nobody /\ opMu' = [opMu EXCEPT ![x.by] = j]
       \/ job[j].at \in Locked /\ x.at \notin Locked /\ opMu' = [opMu EXCEPT ![job[j].by] = Nobody]

\* A migration k beside it is not disturbed.
Spares(k, x) ==
    /\ root'[job[k].by] = root[job[k].by] /\ Here' \subseteq Here
    /\ Here' # {} =>
        /\ x.at \notin Moves /\ config' = config
        /\ \A m \in Here', r \in Root : disk[r][m] = "whole" => disk'[r][m] = "whole"

LEMMA MutexFollows ==
    ASSUME CacheInv, NEW j \in Job, NEW x, Becomes(j, x), Nobody \notin Job
    PROVE  /\ job' \in [Job -> JobSet] /\ opMu' \in [Manager -> Job \cup {Nobody}]
           /\ job'[j] = x /\ \A k \in Job \ {j} : job'[k] = job[k]
           /\ \A k \in Job : Equipped(job'[k])
           /\ \A k \in Job : job'[k].at \in Locked => opMu'[job'[k].by] = k
  <1>1. /\ job \in [Job -> JobSet] /\ opMu \in [Manager -> Job \cup {Nobody}]
        /\ \A k \in Job : Equipped(job[k])
        /\ \A k \in Job : job[k].at \in Locked => opMu[job[k].by] = k
    BY DEF CacheInv, CacheTyped
  <1>2. x \in JobSet /\ Equipped(x) /\ job' = [job EXCEPT ![j] = x]
    BY DEF Becomes
  <1>3. job' \in [Job -> JobSet] /\ job'[j] = x /\ \A k \in Job \ {j} : job'[k] = job[k]
    BY <1>1, <1>2
  <1>4. \A k \in Job : Equipped(job'[k])
    BY <1>1, <1>2, <1>3
  <1>5. \A k \in Job : job[k].at \in Locked => job[k].by \in Manager
    BY <1>1 DEF Equipped, Locked
  <1>6. CASE UNCHANGED opMu /\ (x.at \in Locked => job[j].at \in Locked /\ x.by = job[j].by)
    BY <1>1, <1>3, <1>4, <1>6
  <1>7. CASE x.by \in Manager /\ opMu[x.by] = Nobody /\ opMu' = [opMu EXCEPT ![x.by] = j]
    <2>1. \A k \in Job \ {j} : job[k].at \in Locked => opMu'[job[k].by] = k
      BY <1>1, <1>5, <1>7
    <2>2. opMu'[x.by] = j /\ opMu' \in [Manager -> Job \cup {Nobody}]
      BY <1>1, <1>7
    <2>3. QED
      BY <1>3, <1>4, <2>1, <2>2
  <1>8. CASE job[j].at \in Locked /\ x.at \notin Locked /\ opMu' = [opMu EXCEPT ![job[j].by] = Nobody]
    <2>1. opMu[job[j].by] = j /\ job[j].by \in Manager
      BY <1>1, <1>5, <1>8
    <2>2. \A k \in Job \ {j} : job[k].at \in Locked => opMu'[job[k].by] = k
      BY <1>1, <1>5, <1>8, <2>1
    <2>3. opMu' \in [Manager -> Job \cup {Nobody}]
      BY <1>1, <1>8
    <2>4. QED
      BY <1>3, <1>4, <1>8, <2>2, <2>3
  <1>9. QED
    BY <1>6, <1>7, <1>8 DEF Becomes

LEMMA StaysSteady ==
    ASSUME CacheInv, NEW k \in Job, job[k].at \in Moves, job'[k] = job[k],
           NEW j \in Job \ {k}, NEW x, job'[j] = x, \A l \in Job \ {j} : job'[l] = job[l],
           Spares(k, x)
    PROVE  Steady(k)'
  <1>1. Steady(k) /\ root'[job[k].by] = root[job[k].by] /\ Here' \subseteq Here
    BY DEF CacheInv, Spares
  <1>2. CASE Here' = {}
    BY <1>2 DEF Steady
  <1>3. CASE Here' # {}
    <2>1. /\ x.at \notin Moves /\ config' = config /\ Here # {}
          /\ \A m \in Here', r \in Root : disk[r][m] = "whole" => disk'[r][m] = "whole"
      BY <1>1, <1>3 DEF Spares
    <2>2. /\ \A l \in Job \ {k} : job[l].at \notin Moves
          /\ job[k].target # C!source(k)
          /\ job[k].at \in {"copy", "save"} => C!source(k) = config /\ Here \subseteq job[k].plan
          /\ job[k].at = "save" => \A m \in Here : disk[job[k].target][m] = "whole"
          /\ job[k].at = "clear" => job[k].target = config
      BY <1>1, <2>1 DEF Steady
    <2>3. job[k].target \in Root
      BY DEF CacheInv, Equipped, Moves
    <2>4. \A l \in Job \ {k} : job'[l].at \notin Moves
      BY <2>1, <2>2
    <2>5. C!source(k)' = C!source(k)
      BY <1>1 DEF C!source
    <2>6. QED
      BY <1>1, <2>1, <2>2, <2>3, <2>4, <2>5 DEF Steady
  <1>4. QED
    BY <1>2, <1>3

LEMMA StepKeeps ==
    ASSUME CacheInv, Nobody \notin Job, NEW j \in Job, NEW x, Becomes(j, x),
           disk' \in Disks, config' \in Root, current' \in Manager, root' \in [Manager -> Root],
           wanted' \subseteq Model, astray' \subseteq Model,
           \A k \in Job \ {j} : job[k].at \in Moves => Spares(k, x),
           x.at \in Moves => Steady(j)', C!ConfiguredIsComplete'
    PROVE  CacheInv'
  <1>1. /\ job' \in [Job -> JobSet] /\ opMu' \in [Manager -> Job \cup {Nobody}]
        /\ job'[j] = x /\ \A k \in Job \ {j} : job'[k] = job[k]
        /\ \A k \in Job : Equipped(job'[k])
        /\ \A k \in Job : job'[k].at \in Locked => opMu'[job'[k].by] = k
    BY MutexFollows
  <1>2. CacheTyped'
    BY <1>1 DEF CacheTyped
  <1>3. ASSUME NEW k \in Job, job'[k].at \in Moves PROVE Steady(k)'
    <2>1. CASE k = j
      BY <1>1, <1>3, <2>1
    <2>2. CASE k # j
      BY <1>1, <1>3, <2>2, StaysSteady
    <2>3. QED
      BY <2>1, <2>2
  <1>4. (\A k \in Job : Equipped(job[k]))' /\ (\A k \in Job : job[k].at \in Locked => opMu[job[k].by] = k)'
    BY <1>1
  <1>5. (\A k \in Job : job[k].at \in Moves => Steady(k))'
    BY <1>3
  <1>6. QED
    BY <1>2, <1>4, <1>5 DEF CacheInv

\* Two migrations beside each other have left everything astray.
LEMMA TwoMigrations ==
    ASSUME CacheInv, NEW j \in Job, NEW k \in Job \ {j}, job[j].at \in Moves, job[k].at \in Moves
    PROVE  Here = {}
  BY DEF CacheInv, Steady

\* A step that changes nothing but its job.
LEMMA QuietKeeps ==
    ASSUME CacheInv, Nobody \notin Job, NEW j \in Job, NEW x, Becomes(j, x),
           UNCHANGED <<disk, config, current, root, wanted, astray>>,
           x.at \in Moves => job[j].at \in Moves /\ Steady(j)'
    PROVE  CacheInv'
  <1>1. /\ disk' \in Disks /\ config' \in Root /\ current' \in Manager /\ root' \in [Manager -> Root]
        /\ wanted' \subseteq Model /\ astray' \subseteq Model /\ Here' = Here
    BY DEF CacheInv, CacheTyped, Here
  <1>2. C!ConfiguredIsComplete'
    BY DEF CacheInv, C!ConfiguredIsComplete
  <1>3. ASSUME NEW k \in Job \ {j}, job[k].at \in Moves PROVE Spares(k, x)
    <2>1. Here # {} => x.at \notin Moves
      BY <1>3, TwoMigrations
    <2>2. QED
      BY <1>1, <2>1 DEF Spares
  <1>4. QED
    BY <1>1, <1>2, <1>3, StepKeeps

-----------------------------------------------------------------------------
(* Jobs.                                                                     *)

LEMMA NoJobIs == C!NoJob \in JobSet /\ Equipped(C!NoJob) /\ C!NoJob.at = "idle"
  BY DEF C!NoJob, JobSet, JobPlaces, Equipped
\* The job of j at another place.
Moved(j, l) == [job[j] EXCEPT !.at = l]

LEMMA GotoIs ==
    ASSUME CacheInv, NEW j \in Job, NEW l \in JobPlaces, C!Goto(j, l)
    PROVE  /\ job' = [job EXCEPT ![j] = Moved(j, l)] /\ Moved(j, l) \in JobSet /\ Moved(j, l).at = l
           /\ Moved(j, l).by = job[j].by /\ Moved(j, l).target = job[j].target
           /\ Moved(j, l).plan = job[j].plan /\ Moved(j, l).model = job[j].model
           /\ job' [j] = Moved(j, l)
  <1>1. job \in [Job -> JobSet]
    BY DEF CacheInv, CacheTyped
  <1>2. job[j] \in JobSet
    BY <1>1
  <1>3. /\ Moved(j, l) \in JobSet /\ Moved(j, l).at = l
        /\ Moved(j, l).by = job[j].by /\ Moved(j, l).target = job[j].target
        /\ Moved(j, l).plan = job[j].plan /\ Moved(j, l).model = job[j].model
    BY <1>2 DEF Moved, JobSet
  <1>4. job' = [job EXCEPT ![j] = Moved(j, l)]
    BY DEF C!Goto, Moved
  <1>5. QED
    BY <1>1, <1>3, <1>4

LEMMA JobIs ==
    ASSUME CacheInv, NEW j \in Job
    PROVE  /\ job[j] \in JobSet /\ Equipped(job[j])
           /\ job[j].at \in Locked => opMu[job[j].by] = j /\ job[j].by \in Manager
           /\ job[j].at # "idle" => C!source(j) \in Root
  BY DEF CacheInv, CacheTyped, Equipped, Locked, C!source

\* A job that ends, and gives back its mutex.
LEMMA ReturnIs ==
    ASSUME CacheInv, NEW j \in Job, job[j].at \in Locked, C!Return(j)
    PROVE  Becomes(j, C!NoJob)
  BY NoJobIs DEF C!Return, C!Release, Becomes, Locked

LEMMA BeginKeeps ==
    ASSUME C!ModelAssumption, CacheInv, NEW j \in Job, C!Begin(j)
    PROVE  CacheInv'
  <1>1. PICK m \in Model, t \in Root, rm \in BOOLEAN, at \in Commands[j] :
          job' = [job EXCEPT ![j] = [at |-> at, by |-> current, plan |-> {},
                    model |-> IF at = "migrate" THEN Nobody ELSE m,
                    target |-> IF at = "migrate" THEN t ELSE Nobody,
                    remove |-> at = "migrate" /\ rm]]
    BY DEF C!Begin
  <1> DEFINE remove == at = "migrate" /\ rm
             x == [at |-> at, by |-> current, plan |-> {},
                   model |-> IF at = "migrate" THEN Nobody ELSE m,
                   target |-> IF at = "migrate" THEN t ELSE Nobody, remove |-> remove]
  <1>2. at \in {"download", "remove", "migrate"} /\ current \in Manager /\ remove \in BOOLEAN
    BY DEF C!ModelAssumption, CacheInv, CacheTyped
  <1> HIDE DEF remove
  <1>3. x \in JobSet /\ Equipped(x) /\ x.at \notin Locked
    BY <1>2 DEF JobSet, JobPlaces, Equipped, Locked
  <1>4. job' = [job EXCEPT ![j] = x]
    BY <1>1 DEF remove
  <1> HIDE DEF x
  <1>5. Becomes(j, x)
    BY <1>3, <1>4 DEF Becomes, C!Begin
  <1>6. x.at \notin Moves
    BY <1>3 DEF Locked, Moves
  <1>7. QED
    BY <1>5, <1>6, QuietKeeps DEF C!Begin, C!ModelAssumption

LEMMA DownloadKeeps ==
    ASSUME C!ModelAssumption, CacheInv, NEW j \in Job, C!Download(j) \/ C!Remove(j)
    PROVE  CacheInv'
  <1>1. /\ job[j].at \in {"download", "remove"} /\ opMu[job[j].by] = Nobody
        /\ UNCHANGED <<disk, config, current, root, wanted, astray>>
    BY DEF C!Download, C!Remove, C!Waits
  <1>2. job[j].by \in Manager /\ job[j].model \in Model
    BY <1>1, JobIs DEF Equipped
  <1>3. CASE job' = [job EXCEPT ![j] = C!NoJob] /\ UNCHANGED opMu
    <2>1. Becomes(j, C!NoJob) /\ C!NoJob.at \notin Moves
      BY <1>3, NoJobIs DEF Becomes, Locked, Moves
    <2>2. QED
      BY <1>1, <2>1, QuietKeeps DEF C!ModelAssumption
  <1>4. ASSUME NEW l \in {"install", "removing"}, C!Goto(j, l), C!Lock(j) PROVE CacheInv'
    <2>1. l \in JobPlaces /\ l \notin Moves
      BY DEF JobPlaces, Moves
    <2>2. Becomes(j, Moved(j, l)) /\ Moved(j, l).at = l
      <3>1. Equipped(Moved(j, l))
        BY <1>2, <1>4, <2>1, GotoIs DEF Equipped
      <3>2. QED
        BY <1>1, <1>2, <1>4, <2>1, <3>1, GotoIs DEF Becomes, C!Lock
    <2>3. QED
      BY <1>1, <2>1, <2>2, QuietKeeps DEF C!ModelAssumption
  <1>5. QED
    BY <1>3, <1>4 DEF C!Download, C!Remove

\* What is installed is whole where config points, or astray.
LEMMA InstallKeeps ==
    ASSUME C!ModelAssumption, CacheInv, NEW j \in Job, C!Install(j)
    PROVE  CacheInv'
  <1> DEFINE m == job[j].model
             s == C!source(j)
  <1>1. job[j].at = "install" /\ C!Return(j) /\ UNCHANGED <<config, current, root>>
    BY DEF C!Install
  <1>2. m \in Model /\ s \in Root /\ Becomes(j, C!NoJob) /\ C!NoJob.at \notin Moves
    BY <1>1, JobIs, ReturnIs, NoJobIs DEF Equipped, Locked, Moves
  <1>3. CASE UNCHANGED <<disk, wanted, astray>>
    BY <1>1, <1>2, <1>3, QuietKeeps DEF C!ModelAssumption
  <1>4. CASE /\ disk[s][m] = "no" /\ disk' = [disk EXCEPT ![s][m] = "whole"]
             /\ wanted' = wanted \cup {m}
             /\ astray' = IF s # config \/ \E k \in Job : C!Moving(k) THEN astray \cup {m} ELSE astray \ {m}
    <2>0. /\ disk \in Disks /\ config \in Root /\ current \in Manager /\ root \in [Manager -> Root]
          /\ wanted \subseteq Model /\ astray \subseteq Model /\ C!ConfiguredIsComplete
      BY DEF CacheInv, CacheTyped
    <2> HIDE DEF m, s
    <2>1. /\ disk' \in Disks /\ disk'[s][m] = "whole"
          /\ \A r \in Root, n \in Model : disk[r][n] = "whole" => disk'[r][n] = "whole"
      BY <1>2, <1>4, <2>0 DEF Disks
    <2>2. wanted' \subseteq Model /\ astray' \subseteq Model
      BY <1>2, <1>4, <2>0
    <2>3. C!ConfiguredIsComplete'
      <3>1. SUFFICES ASSUME NEW n \in wanted' \ astray' PROVE disk'[config][n] = "whole"
        BY <1>1 DEF C!ConfiguredIsComplete
      <3>2. CASE n = m
        <4>1. s = config
          BY <1>4, <3>2
        <4>2. QED
          BY <2>1, <3>2, <4>1
      <3>3. CASE n # m
        <4>1. n \in wanted \ astray
          BY <1>4, <3>3
        <4>2. QED
          BY <2>0, <2>1, <4>1 DEF C!ConfiguredIsComplete
      <3>4. QED
        BY <3>2, <3>3
    <2>4. ASSUME NEW k \in Job \ {j}, job[k].at \in Moves PROVE Spares(k, C!NoJob)
      <3>1. astray' = astray \cup {m}
        BY <1>4, <2>4 DEF C!Moving, Moves
      <3>2. Here' \subseteq Here /\ Here' \subseteq Model
        BY <1>4, <2>0, <3>1 DEF Here
      <3>3. QED
        BY <1>1, <1>2, <2>1, <3>2 DEF Spares
    <2>5. QED
      BY <1>1, <1>2, <2>0, <2>1, <2>2, <2>3, <2>4, StepKeeps DEF C!ModelAssumption
  <1>5. QED
    BY <1>1, <1>3, <1>4 DEF C!Install

LEMMA RemovingKeeps ==
    ASSUME C!ModelAssumption, CacheInv, NEW j \in Job, C!Removing(j)
    PROVE  CacheInv'
  <1> DEFINE m == job[j].model
             s == C!source(j)
  <1>1. /\ job[j].at = "removing" /\ C!Return(j) /\ UNCHANGED <<config, current, root, astray>>
        /\ wanted' = wanted \ {m}
    BY DEF C!Removing
  <1>2. PICK left \in {"no", "part"} : disk' = [disk EXCEPT ![s][m] = left]
    BY DEF C!Removing
  <1>3. m \in Model /\ s \in Root /\ Becomes(j, C!NoJob) /\ C!NoJob.at \notin Moves
    BY <1>1, JobIs, ReturnIs, NoJobIs DEF Equipped, Locked, Moves
  <1>4. /\ disk \in Disks /\ config \in Root /\ current \in Manager /\ root \in [Manager -> Root]
        /\ wanted \subseteq Model /\ astray \subseteq Model /\ C!ConfiguredIsComplete
    BY DEF CacheInv, CacheTyped
  <1> HIDE DEF m, s
  <1>5. disk' \in Disks /\ \A r \in Root, n \in Model \ {m} : disk'[r][n] = disk[r][n]
    BY <1>2, <1>3, <1>4 DEF Disks
  <1>6. wanted' \subseteq Model /\ astray' \subseteq Model /\ Here' = Here \ {m} /\ Here' \subseteq Model \ {m}
    BY <1>1, <1>4 DEF Here
  <1>7. C!ConfiguredIsComplete'
    BY <1>1, <1>4, <1>5, <1>6 DEF C!ConfiguredIsComplete, Here
  <1>8. ASSUME NEW k \in Job \ {j} PROVE Spares(k, C!NoJob)
    BY <1>1, <1>3, <1>5, <1>6 DEF Spares
  <1>9. QED
    BY <1>1, <1>3, <1>4, <1>5, <1>6, <1>7, <1>8, StepKeeps DEF C!ModelAssumption

-----------------------------------------------------------------------------
(* Migrations.                                                               *)

\* What everybody knows between steps.
LEMMA CacheKnown ==
    ASSUME CacheInv
    PROVE  /\ disk \in Disks /\ config \in Root /\ current \in Manager /\ root \in [Manager -> Root]
           /\ wanted \subseteq Model /\ astray \subseteq Model /\ C!ConfiguredIsComplete
           /\ \A m \in Here : m \in Model /\ disk[config][m] = "whole"
  BY DEF CacheInv, CacheTyped, C!ConfiguredIsComplete, Here

\* Once all is astray nothing is left to be true.
LEMMA AstraySuffices ==
    ASSUME CacheInv, C!ModelAssumption, NEW j \in Job, NEW x, Becomes(j, x), Here' = {},
           disk' \in Disks, config' \in Root, current' \in Manager, root' \in [Manager -> Root],
           wanted' \subseteq Model, astray' \subseteq Model,
           \A k \in Job \ {j} : job[k].at \in Moves => root'[job[k].by] = root[job[k].by]
    PROVE  CacheInv'
  <1>1. C!ConfiguredIsComplete'
    BY DEF C!ConfiguredIsComplete, Here
  <1>2. Steady(j)'
    BY DEF Steady
  <1>3. \A k \in Job \ {j} : job[k].at \in Moves => Spares(k, x)
    BY DEF Spares
  <1>4. QED
    BY <1>1, <1>2, <1>3, StepKeeps DEF C!ModelAssumption

LEMMA MigrateKeeps ==
    ASSUME C!ModelAssumption, CacheInv, NEW j \in Job, C!Migrate(j)
    PROVE  CacheInv'
  <1> DEFINE s == C!source(j)
             t == job[j].target
  <1>1. /\ job[j].at = "migrate" /\ opMu[job[j].by] = Nobody
        /\ UNCHANGED <<disk, current, root, wanted>>
    BY DEF C!Migrate, C!Waits
  <1>2. job[j].by \in Manager /\ t \in Root /\ s \in Root /\ job[j] \in JobSet
    BY <1>1, JobIs DEF Equipped
  <1>3. /\ disk \in Disks /\ config \in Root /\ current \in Manager /\ root \in [Manager -> Root]
        /\ wanted \subseteq Model /\ astray \subseteq Model /\ C!ConfiguredIsComplete
        /\ \A m \in Here : m \in Model /\ disk[config][m] = "whole"
    BY CacheKnown
  <1>4. CASE /\ t = s /\ config' = t /\ job' = [job EXCEPT ![j] = C!NoJob] /\ UNCHANGED opMu
             /\ astray' = IF config = t THEN astray ELSE Model
    <2>1. Becomes(j, C!NoJob) /\ C!NoJob.at \notin Moves
      BY <1>4, NoJobIs DEF Becomes, Locked, Moves
    <2>2. CASE config = t
      BY <1>1, <1>4, <2>1, <2>2, QuietKeeps DEF C!ModelAssumption
    <2>3. CASE config # t
      <3>1. astray' = Model /\ Here' = {}
        BY <1>1, <1>3, <1>4, <2>3 DEF Here
      <3>2. QED
        BY <1>1, <1>2, <1>3, <1>4, <2>1, <3>1, AstraySuffices
    <2>4. QED
      BY <2>2, <2>3
  <1>5. CASE job' = [job EXCEPT ![j] = C!NoJob] /\ UNCHANGED <<config, opMu, astray>>
    <2>1. Becomes(j, C!NoJob) /\ C!NoJob.at \notin Moves
      BY <1>5, NoJobIs DEF Becomes, Locked, Moves
    <2>2. QED
      BY <1>1, <1>5, <2>1, QuietKeeps DEF C!ModelAssumption
  <1>6. ASSUME t # s, C!Lock(j), UNCHANGED config,
               astray' = IF s # config \/ \E k \in Job : C!Moving(k) THEN Model ELSE astray,
               NEW plan \in SUBSET Model, {m \in Model : disk[s][m] = "whole"} \subseteq plan,
               job' = [job EXCEPT ![j].at = "copy", ![j].plan = plan]
        PROVE  CacheInv'
    <2> DEFINE x == [job[j] EXCEPT !.at = "copy", !.plan = plan]
    <2>1. /\ x \in JobSet /\ x.at = "copy" /\ x.by = job[j].by /\ x.target = t /\ x.plan = plan
      BY <1>2 DEF JobSet, JobPlaces
    <2>2. job' = [job EXCEPT ![j] = x] /\ job'[j] = x /\ \A k \in Job \ {j} : job'[k] = job[k]
      <3>1. job \in [Job -> JobSet]
        BY DEF CacheInv, CacheTyped
      <3>2. QED
        BY <1>6, <3>1
    <2> HIDE DEF x
    <2>3. Equipped(x)
      BY <1>2, <2>1 DEF Equipped
    <2>4. Becomes(j, x)
      BY <1>1, <1>2, <1>6, <2>1, <2>2, <2>3 DEF Becomes, C!Lock
    <2>5. CASE s # config \/ \E k \in Job : C!Moving(k)
      <3>1. astray' = Model /\ Here' = {}
        BY <1>1, <1>3, <1>6, <2>5 DEF Here
      <3>2. QED
        BY <1>1, <1>2, <1>3, <1>6, <2>4, <3>1, AstraySuffices
    <2>6. CASE s = config /\ \A k \in Job : ~C!Moving(k)
      <3>1. astray' = astray /\ Here' = Here /\ \A k \in Job : job[k].at \notin Moves
        BY <1>1, <1>6, <2>6 DEF Here, C!Moving, Moves
      <3>2. Here \subseteq plan
        BY <1>3, <1>6, <2>6
      <3>3. C!source(j)' = s
        BY <1>1, <2>1, <2>2 DEF C!source
      <3>4. Steady(j)'
        BY <1>6, <2>1, <2>2, <2>6, <3>1, <3>2, <3>3 DEF Steady
      <3>5. C!ConfiguredIsComplete'
        BY <1>1, <1>3, <1>6, <3>1 DEF C!ConfiguredIsComplete
      <3>6. QED
        BY <1>1, <1>3, <1>6, <2>4, <3>1, <3>4, <3>5, StepKeeps DEF C!ModelAssumption
    <2>7. QED
      BY <2>5, <2>6
  <1>7. QED
    <2>1. CASE /\ t # s /\ disk[t] = C!Empty /\ C!Lock(j) /\ UNCHANGED config
               /\ astray' = IF s # config \/ \E k \in Job : C!Moving(k) THEN Model ELSE astray
               /\ \E plan \in SUBSET {m \in Model : disk[s][m] # "no"} :
                    /\ {m \in Model : disk[s][m] = "whole"} \subseteq plan
                    /\ job' = [job EXCEPT ![j].at = "copy", ![j].plan = plan]
      <3>1. PICK plan \in SUBSET {m \in Model : disk[s][m] # "no"} :
                    /\ {m \in Model : disk[s][m] = "whole"} \subseteq plan
                    /\ job' = [job EXCEPT ![j].at = "copy", ![j].plan = plan]
        BY <2>1
      <3>2. plan \in SUBSET Model
        OBVIOUS
      <3>3. QED
        BY <1>6, <2>1, <3>1, <3>2
    <2>2. QED
      BY <1>4, <1>5, <2>1 DEF C!Migrate

\* The beginnings of a copy or of a removal are no news to anybody else.
LEMMA MovingIs ==
    ASSUME C!ModelAssumption, CacheInv, NEW j \in Job, job[j].at \in Moves
    PROVE  /\ Steady(j) /\ job[j] \in JobSet /\ C!source(j) \in Root /\ job[j].target \in Root
           /\ job[j].by \in Manager /\ opMu[job[j].by] = j
  BY JobIs DEF CacheInv, Equipped, Locked, Moves

\* A migration that writes to cache r, which is not where config points.
LEMMA WritesKeep ==
    ASSUME C!ModelAssumption, CacheInv, NEW j \in Job, job[j].at \in Moves,
           NEW x, Becomes(j, x), x.at \in Moves => x = job[j] /\ x.at # "save",
           UNCHANGED <<config, current, root, wanted, astray>>,
           NEW r \in Root, disk' \in Disks, \A q \in Root \ {r} : disk'[q] = disk[q],
           Here # {} => r # config
    PROVE  CacheInv'
  <1>1. /\ config \in Root /\ current \in Manager /\ root \in [Manager -> Root]
        /\ wanted \subseteq Model /\ astray \subseteq Model /\ C!ConfiguredIsComplete
        /\ \A m \in Here : m \in Model /\ disk[config][m] = "whole"
    BY CacheKnown
  <1>2. Here' = Here
    BY DEF Here
  <1>3. CASE Here = {}
    BY <1>1, <1>2, <1>3, AstraySuffices
  <1>4. CASE Here # {}
    <2>1. C!ConfiguredIsComplete'
      <3>1. disk'[config] = disk[config]
        BY <1>1, <1>4
      <3>2. QED
        BY <1>1, <3>1 DEF C!ConfiguredIsComplete
    <2>2. \A k \in Job \ {j} : job[k].at \in Moves => Spares(k, x)
      BY <1>4, TwoMigrations
    <2>3. ASSUME x.at \in Moves PROVE Steady(j)'
      <3>1. job'[j] = job[j] /\ \A k \in Job \ {j} : job'[k] = job[k]
        BY <2>3, MutexFollows DEF C!ModelAssumption
      <3>2. C!source(j)' = C!source(j) /\ Steady(j)
        BY <3>1, MovingIs DEF C!source
      <3>3. job[j].at # "save"
        BY <2>3
      <3>4. QED
        BY <1>2, <1>4, <3>1, <3>2, <3>3 DEF Steady
    <2>4. QED
      BY <1>1, <2>1, <2>2, <2>3, StepKeeps DEF C!ModelAssumption
  <1>5. QED
    BY <1>3, <1>4

\* A write of one model keeps the types and all other caches.
LEMMA WriteIs ==
    ASSUME disk \in Disks, NEW r \in Root, NEW m \in Model, NEW v \in {"no", "part", "whole"},
           disk' = [disk EXCEPT ![r][m] = v]
    PROVE  disk' \in Disks /\ \A q \in Root \ {r} : disk'[q] = disk[q]
  BY DEF Disks

LEMMA CopyKeeps ==
    ASSUME C!ModelAssumption, CacheInv, NEW j \in Job, NEW m \in Model, C!Copying(j, m) \/ C!ClearSource(j, m)
    PROVE  CacheInv'
  <1>1. /\ job[j].at \in {"copy", "clear"} /\ job[j].at \in Moves
        /\ UNCHANGED <<config, current, root, opMu, job, wanted, astray>>
    BY DEF C!Copying, C!ClearSource, Moves
  <1>2. /\ Steady(j) /\ job[j] \in JobSet /\ C!source(j) \in Root /\ job[j].target \in Root
    BY <1>1, MovingIs
  <1>3. disk \in Disks /\ job \in [Job -> JobSet] /\ Equipped(job[j])
    BY DEF CacheInv, CacheTyped
  <1>4. Becomes(j, job[j])
    BY <1>1, <1>2, <1>3 DEF Becomes
  <1>5. CASE C!Copying(j, m)
    <2>1. PICK v \in {"part", disk[C!source(j)][m]} : disk' = [disk EXCEPT ![job[j].target][m] = v]
      BY <1>5 DEF C!Copying
    <2>2. v \in {"no", "part", "whole"}
      BY <1>2, <1>3 DEF Disks
    <2>3. job[j].at = "copy" /\ (Here # {} => job[j].target # config)
      BY <1>2, <1>5 DEF C!Copying, Steady
    <2>4. QED
      BY <1>1, <1>2, <1>3, <1>4, <2>1, <2>2, <2>3, WriteIs, WritesKeep
  <1>6. CASE C!ClearSource(j, m)
    <2>1. PICK v \in {"no", "part"} : disk' = [disk EXCEPT ![C!source(j)][m] = v]
      BY <1>6 DEF C!ClearSource
    <2>2. job[j].at = "clear" /\ (Here # {} => C!source(j) # config)
      BY <1>2, <1>6 DEF C!ClearSource, Steady
    <2>3. QED
      BY <1>1, <1>2, <1>3, <1>4, <2>1, <2>2, WriteIs, WritesKeep
  <1>7. QED
    BY <1>5, <1>6

\* A migration that failed has written to its target only.
LEMMA FailsKeeps ==
    ASSUME C!ModelAssumption, CacheInv, NEW j \in Job, C!MigrateFails(j)
    PROVE  CacheInv'
  <1>1. /\ job[j].at \in {"copy", "save"} /\ job[j].at \in Moves /\ job[j].at \in Locked /\ C!Return(j)
        /\ UNCHANGED <<config, current, root, wanted, astray>>
        /\ disk' = [disk EXCEPT ![job[j].target] = C!Empty]
    BY DEF C!MigrateFails, Moves, Locked
  <1>2. Steady(j) /\ job[j].target \in Root /\ disk \in Disks
    BY <1>1, MovingIs, CacheKnown
  <1>3. Becomes(j, C!NoJob) /\ C!NoJob.at \notin Moves
    BY <1>1, ReturnIs, NoJobIs DEF Moves
  <1>4. disk' \in Disks /\ \A q \in Root \ {job[j].target} : disk'[q] = disk[q]
    BY <1>1, <1>2 DEF Disks, C!Empty
  <1>5. Here # {} => job[j].target # config
    BY <1>1, <1>2 DEF Steady
  <1>6. QED
    BY <1>1, <1>2, <1>3, <1>4, <1>5, WritesKeep

\* All that is here was in the plan, and is copied.
LEMMA CopiedKeeps ==
    ASSUME C!ModelAssumption, CacheInv, NEW j \in Job, C!Copied(j)
    PROVE  CacheInv'
  <1> DEFINE x == Moved(j, "save")
  <1>1. /\ job[j].at = "copy" /\ job[j].at \in Moves /\ job[j].at \in Locked /\ C!Goto(j, "save") /\ C!Unequal(j) = {}
        /\ UNCHANGED <<disk, config, current, root, opMu, wanted, astray>>
    BY DEF C!Copied, Moves, Locked
  <1>2. Steady(j) /\ job[j] \in JobSet /\ job[j].by \in Manager /\ job[j].target \in Root
    BY <1>1, MovingIs
  <1>3. /\ job' = [job EXCEPT ![j] = x] /\ x \in JobSet /\ x.at = "save" /\ x.by = job[j].by
        /\ x.target = job[j].target /\ x.plan = job[j].plan /\ job'[j] = x
    BY <1>1, GotoIs DEF JobPlaces
  <1>4. \A m \in Here : m \in Model /\ disk[config][m] = "whole"
    BY CacheKnown
  <1> HIDE DEF x
  <1>5. Becomes(j, x)
    <2>1. Equipped(x)
      BY <1>2, <1>3 DEF Equipped
    <2>2. QED
      BY <1>1, <1>3, <2>1 DEF Becomes
  <1>6. \A k \in Job \ {j} : job'[k] = job[k]
    BY <1>5, MutexFollows DEF C!ModelAssumption
  <1>7. Here' = Here /\ C!source(j)' = C!source(j)
    BY <1>1, <1>3 DEF Here, C!source
  <1>8. Steady(j)'
    <2>1. CASE Here = {}
      BY <1>7, <2>1 DEF Steady
    <2>2. CASE Here # {}
      <3>1. /\ \A k \in Job \ {j} : job[k].at \notin Moves
            /\ job[j].target # C!source(j) /\ C!source(j) = config /\ Here \subseteq job[j].plan
        BY <1>1, <1>2, <2>2 DEF Steady
      <3>2. \A m \in Here : disk[job[j].target][m] = "whole"
        BY <1>1, <1>4, <3>1 DEF C!Unequal
      <3>3. QED
        BY <1>1, <1>3, <1>6, <1>7, <3>1, <3>2 DEF Steady
    <2>3. QED
      BY <2>1, <2>2
  <1>9. QED
    BY <1>1, <1>5, <1>8, QuietKeeps DEF C!ModelAssumption

\* The configuration points to what was copied.
LEMMA SaveKeeps ==
    ASSUME C!ModelAssumption, CacheInv, NEW j \in Job, C!Save(j)
    PROVE  CacheInv'
  <1> DEFINE l == IF job[j].remove THEN "clear" ELSE "activate"
             x == Moved(j, l)
  <1>1. /\ job[j].at = "save" /\ job[j].at \in Moves /\ job[j].at \in Locked /\ C!Goto(j, l)
        /\ config' = job[j].target /\ UNCHANGED <<disk, current, root, opMu, wanted, astray>>
    BY DEF C!Save, Moves, Locked
  <1>2. Steady(j) /\ job[j] \in JobSet /\ job[j].by \in Manager /\ job[j].target \in Root
    BY <1>1, MovingIs
  <1>3. l \in {"clear", "activate"}
    OBVIOUS
  <1> HIDE DEF l
  <1>4. /\ job' = [job EXCEPT ![j] = x] /\ x \in JobSet /\ x.at = l /\ x.by = job[j].by
        /\ x.target = job[j].target /\ x.plan = job[j].plan /\ job'[j] = x
    BY <1>1, <1>3, GotoIs DEF JobPlaces
  <1>5. /\ disk \in Disks /\ current \in Manager /\ root \in [Manager -> Root]
        /\ wanted \subseteq Model /\ astray \subseteq Model
    BY CacheKnown
  <1> HIDE DEF x
  <1>6. Becomes(j, x)
    <2>1. Equipped(x)
      BY <1>2, <1>3, <1>4 DEF Equipped
    <2>2. QED
      BY <1>1, <1>4, <2>1 DEF Becomes
  <1>7. \A k \in Job \ {j} : job'[k] = job[k]
    BY <1>6, MutexFollows DEF C!ModelAssumption
  <1>8. Here' = Here /\ C!source(j)' = C!source(j)
    BY <1>1, <1>4 DEF Here, C!source
  <1>9. CASE Here = {}
    BY <1>1, <1>2, <1>5, <1>6, <1>8, <1>9, AstraySuffices
  <1>10. CASE Here # {}
    <2>1. /\ \A k \in Job \ {j} : job[k].at \notin Moves
          /\ job[j].target # C!source(j) /\ \A m \in Here : disk[job[j].target][m] = "whole"
      BY <1>1, <1>2, <1>10 DEF Steady
    <2>2. C!ConfiguredIsComplete'
      BY <1>1, <1>8, <2>1 DEF C!ConfiguredIsComplete, Here
    <2>3. Steady(j)' \/ x.at \notin Moves
      BY <1>1, <1>3, <1>4, <1>7, <1>8, <2>1 DEF Steady, Moves
    <2>4. QED
      BY <1>1, <1>2, <1>5, <1>6, <2>1, <2>2, <2>3, StepKeeps DEF C!ModelAssumption
  <1>11. QED
    BY <1>9, <1>10

LEMMA ClearedKeeps ==
    ASSUME C!ModelAssumption, CacheInv, NEW j \in Job, C!Cleared(j)
    PROVE  CacheInv'
  <1>1. /\ job[j].at = "clear" /\ job[j].at \in Moves /\ job[j].at \in Locked
        /\ UNCHANGED <<disk, config, current, root, wanted, astray>>
    BY DEF C!Cleared, Moves, Locked
  <1>2. CASE C!Return(j)
    <2>1. Becomes(j, C!NoJob) /\ C!NoJob.at \notin Moves
      BY <1>1, <1>2, ReturnIs, NoJobIs DEF Moves
    <2>2. QED
      BY <1>1, <2>1, QuietKeeps DEF C!ModelAssumption
  <1>3. CASE C!Goto(j, "activate") /\ UNCHANGED opMu
    <2> DEFINE x == Moved(j, "activate")
    <2>1. /\ job' = [job EXCEPT ![j] = x] /\ x \in JobSet /\ x.at = "activate" /\ x.by = job[j].by
          /\ x.target = job[j].target
      BY <1>3, GotoIs DEF JobPlaces
    <2> HIDE DEF x
    <2>2. Equipped(x)
      BY <1>1, <2>1, MovingIs DEF Equipped
    <2>3. Becomes(j, x) /\ x.at \notin Moves
      BY <1>1, <1>3, <2>1, <2>2 DEF Becomes, Moves
    <2>4. QED
      BY <1>1, <2>3, QuietKeeps DEF C!ModelAssumption
  <1>4. QED
    BY <1>2, <1>3 DEF C!Cleared

\* A new root is of a manager with which nobody migrates.
LEMMA RootKeeps ==
    ASSUME C!ModelAssumption, CacheInv, NEW j \in Job, NEW x, Becomes(j, x), x.at \notin Moves,
           UNCHANGED <<disk, config, wanted, astray>>, current' \in Manager,
           NEW n \in Manager, NEW r \in Root, root' = [root EXCEPT ![n] = r],
           \A k \in Job \ {j} : job[k].at \in Moves => job[k].by # n
    PROVE  CacheInv'
  <1>1. /\ disk \in Disks /\ config \in Root /\ root \in [Manager -> Root]
        /\ wanted \subseteq Model /\ astray \subseteq Model /\ C!ConfiguredIsComplete
    BY CacheKnown
  <1>2. root' \in [Manager -> Root] /\ \A o \in Manager \ {n} : root'[o] = root[o]
    BY <1>1
  <1>3. Here' = Here /\ C!ConfiguredIsComplete'
    BY <1>1 DEF Here, C!ConfiguredIsComplete
  <1>4. ASSUME NEW k \in Job \ {j}, job[k].at \in Moves PROVE Spares(k, x)
    <2>1. job[k].by \in Manager \ {n}
      BY <1>4, MovingIs
    <2>2. QED
      BY <1>2, <1>3, <2>1 DEF Spares
  <1>5. QED
    BY <1>1, <1>2, <1>3, <1>4, StepKeeps DEF C!ModelAssumption

LEMMA ActivateKeeps ==
    ASSUME C!ModelAssumption, CacheInv, NEW j \in Job, C!Activate(j)
    PROVE  CacheInv'
  <1> DEFINE x == Moved(j, "replace")
             n == job[j].by
  <1>1. /\ job[j].at = "activate" /\ job[j].at \in Locked /\ C!Goto(j, "replace") /\ C!Release(j)
        /\ root' = [root EXCEPT ![n] = job[j].target] /\ UNCHANGED <<disk, config, current, wanted, astray>>
    BY DEF C!Activate, Locked
  <1>2. n \in Manager /\ opMu[n] = j /\ job[j].target \in Root /\ current \in Manager
    BY <1>1, JobIs, CacheKnown DEF Equipped
  <1>3. /\ job' = [job EXCEPT ![j] = x] /\ x \in JobSet /\ x.at = "replace" /\ x.by = n
        /\ x.target = job[j].target
    BY <1>1, GotoIs DEF JobPlaces
  <1> HIDE DEF x
  <1>4. Becomes(j, x) /\ x.at \notin Moves
    <2>1. Equipped(x) /\ x.at \notin Locked /\ x.at \notin Moves
      BY <1>2, <1>3 DEF Equipped, Locked, Moves
    <2>2. QED
      BY <1>1, <1>3, <2>1 DEF Becomes, C!Release
  <1>5. \A k \in Job \ {j} : job[k].at \in Moves => job[k].by # n
    BY <1>2, MovingIs
  <1>6. QED
    BY <1>1, <1>2, <1>4, <1>5, RootKeeps

LEMMA ReplaceKeeps ==
    ASSUME C!ModelAssumption, CacheInv, NEW j \in Job, C!Replace(j)
    PROVE  CacheInv'
  <1>1. /\ job[j].at = "replace" /\ job' = [job EXCEPT ![j] = C!NoJob]
        /\ UNCHANGED <<disk, config, opMu, wanted, astray>>
    BY DEF C!Replace
  <1>2. PICK n \in Manager : /\ \A k \in Job \ {j} : job[k].by # n
                             /\ current' = n /\ root' = [root EXCEPT ![n] = job[j].target]
    BY DEF C!Replace
  <1>3. job[j].target \in Root
    BY <1>1, JobIs DEF Equipped
  <1>4. Becomes(j, C!NoJob) /\ C!NoJob.at \notin Moves
    BY <1>1, NoJobIs DEF Becomes, Locked, Moves
  <1>5. \A k \in Job \ {j} : job[k].at \in Moves => job[k].by # n
    BY <1>2
  <1>6. current' \in Manager /\ UNCHANGED <<disk, config, wanted, astray>>
    BY <1>1, <1>2
  <1>7. root' = [root EXCEPT ![n] = job[j].target]
    BY <1>2
  <1> DEFINE x == C!NoJob
             r == job[j].target
  <1>8. Becomes(j, x) /\ x.at \notin Moves /\ r \in Root /\ root' = [root EXCEPT ![n] = r]
    BY <1>3, <1>4, <1>7
  <1> HIDE DEF x, r
  <1>9. QED
    BY <1>5, <1>6, <1>8, RootKeeps

-----------------------------------------------------------------------------
LEMMA CrashKeeps ==
    ASSUME CacheInv, C!Crash
    PROVE  CacheInv'
  <1>1. /\ disk \in Disks /\ config \in Root /\ current \in Manager /\ root \in [Manager -> Root]
        /\ wanted \subseteq Model /\ astray \subseteq Model /\ C!ConfiguredIsComplete
    BY CacheKnown
  <1>2. /\ job' = [j \in Job |-> C!NoJob] /\ opMu' = [n \in Manager |-> Nobody]
        /\ root' = [root EXCEPT ![current] = config] /\ UNCHANGED <<disk, config, current, wanted, astray>>
    BY DEF C!Crash
  <1>3. CacheTyped'
    BY <1>1, <1>2, NoJobIs DEF CacheTyped
  <1>4. \A j \in Job : job'[j] = C!NoJob
    BY <1>2
  <1>5. (\A j \in Job : Equipped(job[j]))'
    BY <1>4, NoJobIs
  <1>6. C!NoJob.at \notin Locked /\ C!NoJob.at \notin Moves
    BY NoJobIs DEF Locked, Moves
  <1>7. C!ConfiguredIsComplete'
    BY <1>1, <1>2 DEF C!ConfiguredIsComplete
  <1>8. QED
    BY <1>3, <1>4, <1>5, <1>6, <1>7 DEF CacheInv

LEMMA InitCache ==
    ASSUME C!ModelAssumption, C!Init
    PROVE  CacheInv
  <1>1. CacheTyped
    BY NoJobIs DEF C!Init, CacheTyped, Disks, C!Empty, C!ModelAssumption
  <1>2. \A j \in Job : job[j] = C!NoJob
    BY DEF C!Init
  <1>3. C!NoJob.at \notin Locked /\ C!NoJob.at \notin Moves
    BY NoJobIs DEF Locked, Moves
  <1>4. C!ConfiguredIsComplete
    BY DEF C!Init, C!ConfiguredIsComplete
  <1>5. QED
    BY <1>1, <1>2, <1>3, <1>4, NoJobIs DEF CacheInv

LEMMA NextCache ==
    ASSUME C!ModelAssumption, CacheInv, [C!Next]_C!vars
    PROVE  CacheInv'
  <1>1. CASE C!Crash
    BY <1>1, CrashKeeps
  <1>2. ASSUME NEW j \in Job, C!Begin(j) \/ C!Download(j) \/ C!Install(j) \/ C!Remove(j) \/ C!Removing(j)
        PROVE  CacheInv'
    BY <1>2, BeginKeeps, DownloadKeeps, InstallKeeps, RemovingKeeps
  <1>3. ASSUME NEW j \in Job, C!Migrate(j) \/ C!Copied(j) \/ C!Save(j) \/ C!MigrateFails(j) \/ C!Cleared(j)
        PROVE  CacheInv'
    BY <1>3, MigrateKeeps, CopiedKeeps, SaveKeeps, FailsKeeps, ClearedKeeps
  <1>4. ASSUME NEW j \in Job, C!Activate(j) \/ C!Replace(j) \/ \E m \in Model : C!Copying(j, m) \/ C!ClearSource(j, m)
        PROVE  CacheInv'
    BY <1>4, ActivateKeeps, ReplaceKeeps, CopyKeeps
  <1>5. CASE UNCHANGED C!vars
    <2>1. UNCHANGED <<disk, config, current, root, opMu, job, wanted, astray>>
      BY <1>5 DEF C!vars
    <2>2. CacheTyped' /\ C!ConfiguredIsComplete' /\ (\A j \in Job : Equipped(job[j]))'
      BY <2>1 DEF CacheInv, CacheTyped, C!ConfiguredIsComplete
    <2>3. (\A j \in Job : job[j].at \in Locked => opMu[job[j].by] = j)'
      BY <2>1 DEF CacheInv
    <2>4. ASSUME NEW j \in Job, job[j].at \in Moves PROVE Steady(j)'
      <3>1. Steady(j) /\ C!source(j)' = C!source(j) /\ Here' = Here
        BY <2>1, <2>4 DEF CacheInv, C!source, Here
      <3>2. QED
        BY <2>1, <3>1 DEF Steady
    <2>5. (\A j \in Job : job[j].at \in Moves => Steady(j))'
      BY <2>1, <2>4
    <2>6. QED
      BY <2>2, <2>3, <2>5 DEF CacheInv
  <1>6. QED
    BY <1>1, <1>2, <1>3, <1>4, <1>5 DEF C!Next

LEMMA CacheHolds ==
    ASSUME C!ModelAssumption
    PROVE  C!Init /\ [][C!Next]_C!vars => []CacheInv
  <1>1. C!Init => CacheInv
    BY InitCache
  <1>2. CacheInv /\ [C!Next]_C!vars => CacheInv'
    BY NextCache
  <1>3. QED
    BY <1>1, <1>2, PTL

(* The cache that the configuration names holds every installed model whole,    *)
(* whatever ends a migration and wherever the process dies, but for models that *)
(* were installed elsewhere or left behind (MigrateContext).                    *)
THEOREM ModelsAreWhole ==
    ASSUME C!ModelAssumption
    PROVE  C!Init /\ [][C!Next]_C!vars => []C!ConfiguredIsComplete
  <1>1. CacheInv => C!ConfiguredIsComplete
    BY DEF CacheInv
  <1>2. QED
    BY <1>1, CacheHolds, PTL

-----------------------------------------------------------------------------
(* Semantic memory, for any documents, texts and numbers of versions.       *)

CONSTANTS Doc, Fact, Concept, Topic, Last, Deletable, FactsOf, HeadingsOf, ConceptOf, TopicOf, Nothing
VARIABLES doc, deletion, marking, queue, active, compiler, told, quiet

M == INSTANCE SemanticCompile

\* Units that lead to evidence in the sources S.
Evident(u, S) ==
    LET alive == {f \in Fact : u.facts[f] # {}}
        traced(x) == x.from \subseteq alive /\ x.sources \subseteq S
    IN
    /\ \A c \in Concept : traced(u.concepts[c])
    /\ \A d \in Doc : traced(u.summaries[d])
    /\ \A t \in Topic : \A c \in u.topics[t] :
           c \in Concept /\ (u.concepts[c].from # {} \/ u.concepts[c].sources # {})

Versions(v) == \A d \in Doc : v[d] \in 0 .. Last[d]

\* A compilation: the facts of its texts, all units evident, and no signature that is newer
\* than the text (a signature is read before the text is loaded).
Sound(c) ==
    /\ Versions(c.loaded) /\ Versions(c.signed)
    /\ \A d \in Doc : c.signed[d] <= c.loaded[d]
    /\ c.units.facts = M!FactUnits(M!SourcesOf(c.loaded))
    /\ Evident(c.units, M!SourcesOf(c.loaded))

\* Versions that were read once: a document that is not deleted has these or newer ones.
Earlier(v, docs, steps) == \A d \in Doc : steps[d] = "none" => v[d] <= docs[d]
SoundOrNone(c, docs, steps) == c # Nothing => Sound(c) /\ Earlier(c.loaded, docs, steps)

Documents ==
    /\ doc = [d \in Doc |-> doc[d]] /\ Versions(doc)
    /\ deletion = [d \in Doc |-> deletion[d]]
    /\ \A d \in Doc : deletion[d] # "none" => doc[d] = 0
    /\ told \subseteq Doc

\* What the compiler x has read, and built, beside documents docs whose deletes are at steps.
SoundCompiler(x, docs, steps, act, calm) ==
    /\ x = [at |-> x.at, by |-> x.by, read |-> x.read, prev |-> x.prev, pending |-> x.pending, next |-> x.next]
    /\ x.at \in {"idle", "previous", "load", "activate", "resolve"}
    /\ Versions(x.read) /\ Earlier(x.read, docs, steps)
    /\ x.at # "idle" /\ calm => x.read = docs
    /\ SoundOrNone(act, docs, steps) /\ SoundOrNone(x.prev, docs, steps)
    /\ x.at \in {"load", "activate"} => act \in {x.prev, Nothing}
    /\ x.at \in {"activate", "resolve"} =>
        /\ Sound(x.next) /\ Earlier(x.next.loaded, docs, steps)
        /\ \A d \in Doc : x.read[d] = 0 => x.next.signed[d] = 0
        /\ calm => \A d \in Doc : M!Unsigned(x.next, d) \/ x.next.loaded[d] = docs[d]
    /\ x.at = "resolve" => act \in {x.next, Nothing}

Compiling == SoundCompiler(compiler, doc, deletion, active, quiet)

\* A delete whose turn to compile has come: whoever compiles since has read that it is gone.
Forgotten(d, x, steps, t) ==
    \/ steps[d] = "retire"
    \/ steps[d] = "done" /\ d \in t
    \/ x.by = d /\ x.at # "idle"

SoundDeletes(x, steps, t, act) ==
    \A d \in Doc :
        /\ x.by = d /\ x.at # "idle" => steps[d] = "compile"
        /\ Forgotten(d, x, steps, t) => x.read[d] = 0
        /\ steps[d] = "done" /\ d \in t /\ act # Nothing => act.signed[d] = 0

Deleting == SoundDeletes(compiler, deletion, told, active)

SemanticInv == Documents /\ Compiling /\ Deleting

-----------------------------------------------------------------------------
(* What a compilation is built from.                                        *)

LEMMA SourcesAre ==
    ASSUME NEW v
    PROVE  \A s : s \in M!SourcesOf(v) <=> \E d \in Doc : v[d] # 0 /\ s = <<d, v[d]>>
  BY DEF M!SourcesOf

LEMMA SourcesAreThere ==
    ASSUME M!SemanticAssumption, NEW v, Versions(v)
    PROVE  /\ M!SourcesOf(v) \subseteq M!Source
           /\ \A s \in M!SourcesOf(v) : s[1] \in Doc /\ FactsOf[s] \subseteq Fact /\ HeadingsOf[s] \subseteq Concept
<1>1. ASSUME NEW s \in M!SourcesOf(v)
      PROVE  s \in M!Source /\ s[1] \in Doc
  <2>1. PICK d \in Doc : v[d] # 0 /\ s = <<d, v[d]>>  BY SourcesAre
  <2>2. v[d] \in 1 .. Last[d]  BY <2>1 DEF Versions, M!SemanticAssumption
  <2>3. s \in {d} \X (1 .. Last[d]) /\ s[1] = d  BY <2>1, <2>2
  <2> QED  BY <2>3 DEF M!Source
<1>2. \A s \in M!Source : FactsOf[s] \subseteq Fact /\ HeadingsOf[s] \subseteq Concept
  BY DEF M!SemanticAssumption
<1> QED  BY <1>1, <1>2

\* A document that did not change keeps its text, one that did has the text that was loaded.
Overrides(old, dirty, now, new) ==
    /\ \A d \in Doc : new[d] = IF d \in dirty THEN now[d] ELSE old[d]
    /\ \A d \in Doc : d \notin dirty => now[d] = 0

LEMMA SourcesMerge ==
    ASSUME NEW old, NEW now, NEW new, NEW dirty, Overrides(old, dirty, now, new)
    PROVE  M!SourcesOf(new) = M!Kept(M!SourcesOf(old), dirty) \cup M!SourcesOf(now)
<1>1. ASSUME NEW s
      PROVE  s \in M!SourcesOf(new) <=> s \in M!Kept(M!SourcesOf(old), dirty) \/ s \in M!SourcesOf(now)
  <2>1. s \in M!SourcesOf(new) <=> \E d \in Doc : new[d] # 0 /\ s = <<d, new[d]>>  BY SourcesAre
  <2>2. s \in M!SourcesOf(old) <=> \E d \in Doc : old[d] # 0 /\ s = <<d, old[d]>>  BY SourcesAre
  <2>3. s \in M!SourcesOf(now) <=> \E d \in Doc : now[d] # 0 /\ s = <<d, now[d]>>  BY SourcesAre
  <2>4. s \in M!Kept(M!SourcesOf(old), dirty) <=> \E d \in Doc : d \notin dirty /\ old[d] # 0 /\ s = <<d, old[d]>>
    BY <2>2 DEF M!Kept
  <2> QED  BY <2>1, <2>3, <2>4 DEF Overrides
<1> QED  BY <1>1

\* The units of a compilation from nothing.
LEMMA CompileIsEvident ==
    ASSUME NEW S, \A s \in S : s[1] \in Doc /\ FactsOf[s] \subseteq Fact /\ HeadingsOf[s] \subseteq Concept
    PROVE  M!Compile(S).facts = M!FactUnits(S) /\ Evident(M!Compile(S), S)
<1> DEFINE facts == M!FactUnits(S)
           named == UNION {HeadingsOf[s] : s \in S}
           about(c) == {f \in Fact : facts[f] # {} /\ ConceptOf[f] = c}
           own(s) == {f \in FactsOf[s] : ConceptOf[f] \in HeadingsOf[s]}
           concepts == [c \in Concept |->
              IF c \notin named THEN [from |-> {}, sources |-> {}]
              ELSE [from |-> about(c), sources |-> IF about(c) = {} THEN {s \in S : c \in HeadingsOf[s]} ELSE {}]]
           topics == [t \in Topic |-> {c \in named : TopicOf[c] = t}]
           summaries == [d \in Doc |->
              [from |-> UNION {own(s) : s \in {x \in S : x[1] = d}},
               sources |-> {s \in S : s[1] = d /\ own(s) = {}}]]
<1>1. PICK u : u = M!Compile(S)  OBVIOUS
<1>2. u = [facts |-> facts, concepts |-> concepts, topics |-> topics, summaries |-> summaries]
  BY <1>1 DEF M!Compile
<1>3. u.facts = facts /\ u.concepts = concepts /\ u.topics = topics /\ u.summaries = summaries
  <2> HIDE DEF facts, concepts, topics, summaries
  <2> QED  BY <1>2
<1>4. PICK alive : alive = {f \in Fact : facts[f] # {}}  OBVIOUS
<1>5. \A f \in Fact : facts[f] = {s \in S : f \in FactsOf[s]}  BY DEF M!FactUnits
<1>6. ASSUME NEW c \in Concept
      PROVE  concepts[c].from \subseteq alive /\ concepts[c].sources \subseteq S
  BY <1>4
<1>7. ASSUME NEW d \in Doc
      PROVE  summaries[d].from \subseteq alive /\ summaries[d].sources \subseteq S
  <2>1. ASSUME NEW s \in S, NEW f \in own(s)
        PROVE  f \in alive
    <3>1. f \in Fact /\ f \in FactsOf[s]  OBVIOUS
    <3> HIDE DEF facts
    <3> QED  BY <1>4, <1>5, <3>1
  <2>2. summaries[d].from = UNION {own(s) : s \in {x \in S : x[1] = d}}
        /\ summaries[d].sources = {s \in S : s[1] = d /\ own(s) = {}}
    OBVIOUS
  <2> HIDE DEF summaries, own
  <2> QED  BY <2>1, <2>2
<1>8. ASSUME NEW t \in Topic, NEW c \in topics[t]
      PROVE  c \in Concept /\ (concepts[c].from # {} \/ concepts[c].sources # {})
  <2>1. PICK s \in S : c \in HeadingsOf[s]  OBVIOUS
  <2>2. c \in Concept /\ c \in named  BY <2>1
  <2>3. /\ concepts[c].from = about(c)
        /\ concepts[c].sources = IF about(c) = {} THEN {z \in S : c \in HeadingsOf[z]} ELSE {}
    BY <2>2
  <2>4. CASE about(c) = {}  BY <2>1, <2>3, <2>4
  <2>5. CASE about(c) # {}  BY <2>3, <2>5
  <2> QED  BY <2>2, <2>4, <2>5
<1> HIDE DEF facts, named, about, own, concepts, topics, summaries
<1>9. facts = M!FactUnits(S)  BY DEF facts
<1> QED  BY <1>1, <1>3, <1>4, <1>6, <1>7, <1>8, <1>9 DEF Evident

\* Units that are sanitized lead to what is left, and lose no fact that is in it.
LEMMA SanitizedIsEvident ==
    ASSUME NEW u, NEW S, NEW dirty, u.facts = M!FactUnits(S), Evident(u, S)
    PROVE  /\ \A f \in Fact : M!Sanitized(u, dirty).facts[f] = {s \in M!Kept(S, dirty) : f \in FactsOf[s]}
           /\ Evident(M!Sanitized(u, dirty), M!Kept(S, dirty))
<1> DEFINE facts == [f \in Fact |-> M!Kept(u.facts[f], dirty)]
           alive == {f \in Fact : facts[f] # {}}
           part(x) == [from |-> x.from \cap alive, sources |-> M!Kept(x.sources, dirty)]
           concepts == [c \in Concept |-> part(u.concepts[c])]
           topics == [t \in Topic |-> u.topics[t] \cap M!Supported([concepts |-> concepts])]
           summaries == [d \in Doc |-> IF d \in dirty THEN [from |-> {}, sources |-> {}] ELSE part(u.summaries[d])]
<1>1. PICK w : w = M!Sanitized(u, dirty)  OBVIOUS
<1>2. w = [facts |-> facts, concepts |-> concepts, topics |-> topics, summaries |-> summaries]
  BY <1>1 DEF M!Sanitized
<1>3. w.facts = facts /\ w.concepts = concepts /\ w.topics = topics /\ w.summaries = summaries
  <2> HIDE DEF facts, concepts, topics, summaries
  <2> QED  BY <1>2
<1>4. ASSUME NEW f \in Fact
      PROVE  facts[f] = {s \in M!Kept(S, dirty) : f \in FactsOf[s]}
  BY DEF M!FactUnits, M!Kept
<1>5. /\ \A c \in Concept : u.concepts[c].sources \subseteq S
      /\ \A d \in Doc : u.summaries[d].sources \subseteq S
  BY DEF Evident
<1>6. \A X : X \subseteq S => M!Kept(X, dirty) \subseteq M!Kept(S, dirty)  BY DEF M!Kept
<1>7. \A x : part(x).from = x.from \cap alive /\ part(x).sources = M!Kept(x.sources, dirty)  OBVIOUS
<1>8. ASSUME NEW c \in Concept
      PROVE  concepts[c].from \subseteq alive /\ concepts[c].sources \subseteq M!Kept(S, dirty)
  <2>1. concepts[c] = part(u.concepts[c])  OBVIOUS
  <2> HIDE DEF part, concepts, alive
  <2> QED  BY <1>5, <1>6, <1>7, <2>1
<1>9. ASSUME NEW d \in Doc
      PROVE  summaries[d].from \subseteq alive /\ summaries[d].sources \subseteq M!Kept(S, dirty)
  <2>1. CASE d \in dirty  BY <2>1
  <2>2. CASE d \notin dirty
    <3>1. summaries[d] = part(u.summaries[d])  BY <2>2
    <3> HIDE DEF part, summaries, alive
    <3> QED  BY <1>5, <1>6, <1>7, <3>1
  <2> QED  BY <2>1, <2>2
<1>10. ASSUME NEW t \in Topic, NEW c \in topics[t]
       PROVE  c \in Concept /\ (concepts[c].from # {} \/ concepts[c].sources # {})
  <2>1. c \in M!Supported([concepts |-> concepts])  OBVIOUS
  <2> HIDE DEF concepts, topics
  <2> QED  BY <2>1 DEF M!Supported
<1>11. alive = {f \in Fact : w.facts[f] # {}}  BY <1>3
<1> HIDE DEF facts, alive, part, concepts, topics, summaries
<1>12. Evident(w, M!Kept(S, dirty))  BY <1>3, <1>8, <1>9, <1>10, <1>11 DEF Evident
<1>13. \A f \in Fact : w.facts[f] = {s \in M!Kept(S, dirty) : f \in FactsOf[s]}  BY <1>3, <1>4
<1> QED  BY <1>1, <1>12, <1>13

\* A merge has the units of both, over the sources of both.
LEMMA MergeIsEvident ==
    ASSUME NEW u, NEW delta, NEW S, NEW T, NEW dirty,
           u.facts = M!FactUnits(S), Evident(u, S), delta.facts = M!FactUnits(T), Evident(delta, T)
    PROVE  LET all == M!Kept(S, dirty) \cup T
           IN  M!Merge(u, delta, dirty).facts = M!FactUnits(all) /\ Evident(M!Merge(u, delta, dirty), all)
<1>1. PICK w, old, all : w = M!Merge(u, delta, dirty) /\ old = M!Sanitized(u, dirty) /\ all = M!Kept(S, dirty) \cup T
  OBVIOUS
<1>2. /\ \A f \in Fact : old.facts[f] = {s \in M!Kept(S, dirty) : f \in FactsOf[s]}
      /\ Evident(old, M!Kept(S, dirty))
  BY <1>1, SanitizedIsEvident
<1> DEFINE join(x, y) == [from |-> x.from \cup y.from, sources |-> x.sources \cup y.sources]
           facts == [f \in Fact |-> old.facts[f] \cup delta.facts[f]]
           concepts == [c \in Concept |-> join(old.concepts[c], delta.concepts[c])]
           topics == [t \in Topic |-> old.topics[t] \cup delta.topics[t]]
           summaries == [d \in Doc |-> join(old.summaries[d], delta.summaries[d])]
<1>3. w = [facts |-> facts, concepts |-> concepts, topics |-> topics, summaries |-> summaries]
  BY <1>1 DEF M!Merge
<1>4. w.facts = facts /\ w.concepts = concepts /\ w.topics = topics /\ w.summaries = summaries
  <2> HIDE DEF facts, concepts, topics, summaries
  <2> QED  BY <1>3
<1>5. ASSUME NEW f \in Fact
      PROVE  w.facts[f] = {s \in all : f \in FactsOf[s]} /\ w.facts[f] = old.facts[f] \cup delta.facts[f]
  <2>1. w.facts[f] = old.facts[f] \cup delta.facts[f]  BY <1>4
  <2>2. delta.facts[f] = {s \in T : f \in FactsOf[s]}  BY DEF M!FactUnits
  <2>3. old.facts[f] = {s \in M!Kept(S, dirty) : f \in FactsOf[s]}  BY <1>2
  <2> QED  BY <1>1, <2>1, <2>2, <2>3
<1>6. w.facts = M!FactUnits(all)
  <2>1. w.facts = [f \in Fact |-> w.facts[f]]  BY <1>4
  <2> QED  BY <1>5, <2>1 DEF M!FactUnits
<1>7. PICK alive : alive = {f \in Fact : w.facts[f] # {}}  OBVIOUS
<1>8. {f \in Fact : old.facts[f] # {}} \subseteq alive /\ {f \in Fact : delta.facts[f] # {}} \subseteq alive
  BY <1>5, <1>7
<1>9. ASSUME NEW x, NEW y, x.from \subseteq {f \in Fact : old.facts[f] # {}}, x.sources \subseteq M!Kept(S, dirty),
             y.from \subseteq {f \in Fact : delta.facts[f] # {}}, y.sources \subseteq T
      PROVE  join(x, y).from \subseteq alive /\ join(x, y).sources \subseteq all
  <2>1. join(x, y).from = x.from \cup y.from /\ join(x, y).sources = x.sources \cup y.sources  OBVIOUS
  <2> HIDE DEF join
  <2> QED  BY <1>1, <1>8, <1>9, <2>1
<1>10. ASSUME NEW c \in Concept
       PROVE  w.concepts[c].from \subseteq alive /\ w.concepts[c].sources \subseteq all
  <2>1. w.concepts[c] = join(old.concepts[c], delta.concepts[c])  BY <1>4
  <2> HIDE DEF join
  <2> QED  BY <1>2, <1>9, <2>1 DEF Evident
<1>11. ASSUME NEW d \in Doc
       PROVE  w.summaries[d].from \subseteq alive /\ w.summaries[d].sources \subseteq all
  <2>1. w.summaries[d] = join(old.summaries[d], delta.summaries[d])  BY <1>4
  <2> HIDE DEF join
  <2> QED  BY <1>2, <1>9, <2>1 DEF Evident
<1>12. ASSUME NEW t \in Topic, NEW c \in w.topics[t]
       PROVE  c \in Concept /\ (w.concepts[c].from # {} \/ w.concepts[c].sources # {})
  <2>1. c \in old.topics[t] \/ c \in delta.topics[t]  BY <1>4
  <2>2. \/ old.concepts[c].from # {} \/ old.concepts[c].sources # {}
        \/ delta.concepts[c].from # {} \/ delta.concepts[c].sources # {}
    BY <1>2, <2>1 DEF Evident
  <2>3. c \in Concept  BY <1>2, <2>1 DEF Evident
  <2>4. w.concepts[c].from = old.concepts[c].from \cup delta.concepts[c].from
        /\ w.concepts[c].sources = old.concepts[c].sources \cup delta.concepts[c].sources
    BY <1>4, <2>3
  <2> QED  BY <2>2, <2>3, <2>4
<1> HIDE DEF facts, join, concepts, topics, summaries
<1>13. Evident(w, all)  BY <1>7, <1>10, <1>11, <1>12 DEF Evident
<1> QED  BY <1>1, <1>6, <1>13

-----------------------------------------------------------------------------
(* The compiler.                                                            *)

Holder(at, by, read, prev, pending, next) ==
    [at |-> at, by |-> by, read |-> read, prev |-> prev, pending |-> pending, next |-> next]
MemoryMoved(x, at) == [x EXCEPT !.at = at]
Built(x, at, next) == [x EXCEPT !.at = at, !.next = next]
WithPrevious(x, prev, pending) == [x EXCEPT !.at = "load", !.prev = prev, !.pending = pending]
WithRead(by, read) == [M!Idle EXCEPT !.at = "previous", !.by = by, !.read = read]
WellFormed(x) == x = Holder(x.at, x.by, x.read, x.prev, x.pending, x.next)

LEMMA HolderFields ==
    ASSUME NEW a, NEW b, NEW r, NEW p, NEW q, NEW n, NEW h, h = Holder(a, b, r, p, q, n)
    PROVE  /\ h.at = a /\ h.by = b /\ h.read = r /\ h.prev = p /\ h.pending = q /\ h.next = n
           /\ WellFormed(h)
  BY DEF Holder, WellFormed

LEMMA IdleIs == M!Idle = Holder("idle", Nobody, [d \in Doc |-> 0], Nothing, {}, Nothing)
  BY DEF M!Idle, Holder

LEMMA MovedIs ==
    ASSUME NEW x, WellFormed(x), NEW at
    PROVE  MemoryMoved(x, at) = Holder(at, x.by, x.read, x.prev, x.pending, x.next)
  BY DEF WellFormed, MemoryMoved, Holder

LEMMA BuiltIs ==
    ASSUME NEW x, WellFormed(x), NEW at, NEW next
    PROVE  Built(x, at, next) = Holder(at, x.by, x.read, x.prev, x.pending, next)
<1>1. PICK y : y = MemoryMoved(x, at)  OBVIOUS
<1>2. y = Holder(at, x.by, x.read, x.prev, x.pending, x.next)  BY <1>1, MovedIs
<1>3. PICK z : z = [y EXCEPT !.next = next]  OBVIOUS
<1>4. z = Holder(at, x.by, x.read, x.prev, x.pending, next)  BY <1>2, <1>3 DEF Holder
<1>5. Built(x, at, next) = z  BY <1>1, <1>3 DEF Built, MemoryMoved
<1> QED  BY <1>4, <1>5

LEMMA WithPreviousIs ==
    ASSUME NEW x, WellFormed(x), NEW prev, NEW pending
    PROVE  WithPrevious(x, prev, pending) = Holder("load", x.by, x.read, prev, pending, x.next)
<1>1. PICK y : y = MemoryMoved(x, "load")  OBVIOUS
<1>2. y = Holder("load", x.by, x.read, x.prev, x.pending, x.next)  BY <1>1, MovedIs
<1>3. PICK z : z = [y EXCEPT !.prev = prev]  OBVIOUS
<1>4. z = Holder("load", x.by, x.read, prev, x.pending, x.next)  BY <1>2, <1>3 DEF Holder
<1>5. PICK w : w = [z EXCEPT !.pending = pending]  OBVIOUS
<1>6. w = Holder("load", x.by, x.read, prev, pending, x.next)  BY <1>4, <1>5 DEF Holder
<1>7. WithPrevious(x, prev, pending) = w  BY <1>1, <1>3, <1>5 DEF WithPrevious, MemoryMoved
<1> QED  BY <1>6, <1>7

LEMMA WithReadIs ==
    ASSUME NEW by, NEW read
    PROVE  WithRead(by, read) = Holder("previous", by, read, Nothing, {}, Nothing)
<1>1. PICK x : x = [d \in Doc |-> 0]  OBVIOUS
<1>2. PICK y : y = [M!Idle EXCEPT !.at = "previous"]  OBVIOUS
<1>3. y = Holder("previous", Nobody, x, Nothing, {}, Nothing)  BY <1>1, <1>2, IdleIs DEF Holder
<1>4. PICK z : z = [y EXCEPT !.by = by]  OBVIOUS
<1>5. z = Holder("previous", by, x, Nothing, {}, Nothing)  BY <1>3, <1>4 DEF Holder
<1>6. PICK w : w = [z EXCEPT !.read = read]  OBVIOUS
<1>7. w = Holder("previous", by, read, Nothing, {}, Nothing)  BY <1>5, <1>6 DEF Holder
<1>8. WithRead(by, read) = w  BY <1>2, <1>4, <1>6 DEF WithRead
<1> QED  BY <1>7, <1>8

\* No document goes back: one that is deleted stays so, one that is not has what it had or a
\* newer version.
NotBack(docs, steps, docs2, steps2) ==
    \A d \in Doc : steps2[d] = "none" => steps[d] = "none" /\ docs[d] <= docs2[d]

LEMMA EarlierStays ==
    ASSUME M!SemanticAssumption, NEW docs, NEW steps, NEW docs2, NEW steps2, NEW v,
           Versions(docs), Versions(docs2), Versions(v),
           NotBack(docs, steps, docs2, steps2), Earlier(v, docs, steps)
    PROVE  Earlier(v, docs2, steps2)
<1> SUFFICES ASSUME NEW d \in Doc, steps2[d] = "none"
             PROVE  v[d] <= docs2[d]
  BY DEF Earlier
<1>1. v[d] <= docs[d] /\ docs[d] <= docs2[d]  BY DEF Earlier, NotBack
<1>2. v[d] \in Int /\ docs[d] \in Int /\ docs2[d] \in Int  BY DEF Versions, M!SemanticAssumption
<1> QED  BY <1>1, <1>2

LEMMA SoundOrNoneStays ==
    ASSUME M!SemanticAssumption, NEW docs, NEW steps, NEW docs2, NEW steps2, NEW c,
           Versions(docs), Versions(docs2), NotBack(docs, steps, docs2, steps2),
           SoundOrNone(c, docs, steps)
    PROVE  SoundOrNone(c, docs2, steps2)
  BY EarlierStays DEF SoundOrNone, Sound

\* What happens to documents beside the compiler, and to the active compilation.
LEMMA BesideCompiler ==
    ASSUME M!SemanticAssumption, NEW x, NEW docs, NEW steps, NEW act, NEW calm,
           NEW docs2, NEW steps2, NEW act2, NEW calm2,
           Versions(docs), Versions(docs2), NotBack(docs, steps, docs2, steps2),
           SoundCompiler(x, docs, steps, act, calm),
           act2 = act \/ act2 = Nothing, calm2 => calm /\ docs2 = docs
    PROVE  SoundCompiler(x, docs2, steps2, act2, calm2)
<1>1. SoundOrNone(act2, docs2, steps2)
  <2>1. SoundOrNone(act, docs2, steps2)  BY SoundOrNoneStays DEF SoundCompiler
  <2> QED  BY <2>1 DEF SoundOrNone
<1>2. SoundOrNone(x.prev, docs2, steps2)  BY SoundOrNoneStays DEF SoundCompiler
<1>3. Earlier(x.read, docs2, steps2)  BY EarlierStays DEF SoundCompiler
<1>4. x.at \in {"activate", "resolve"} => Earlier(x.next.loaded, docs2, steps2)
  BY EarlierStays DEF SoundCompiler, Sound
<1>5. x.at # "idle" /\ calm2 => x.read = docs2  BY DEF SoundCompiler
<1>6. /\ x.at \in {"load", "activate"} => act2 \in {x.prev, Nothing}
      /\ x.at = "resolve" => act2 \in {x.next, Nothing}
  BY DEF SoundCompiler
<1>7. x.at \in {"activate", "resolve"} /\ calm2 =>
          \A d \in Doc : M!Unsigned(x.next, d) \/ x.next.loaded[d] = docs2[d]
  BY DEF SoundCompiler
<1>8. x.at \in {"activate", "resolve"} => Sound(x.next) /\ \A d \in Doc : x.read[d] = 0 => x.next.signed[d] = 0
  BY DEF SoundCompiler
<1> QED  BY <1>1, <1>2, <1>3, <1>4, <1>5, <1>6, <1>7, <1>8 DEF SoundCompiler

\* A compiler that gives the mutex back.
LEMMA IdleIsSound ==
    ASSUME M!SemanticAssumption, NEW docs, NEW steps, NEW act, NEW calm, Versions(docs),
           SoundOrNone(act, docs, steps)
    PROVE  SoundCompiler(M!Idle, docs, steps, act, calm)
<1>1. PICK x : x = M!Idle  OBVIOUS
<1>2. /\ x.at = "idle" /\ x.by = Nobody /\ x.read = [d \in Doc |-> 0] /\ x.prev = Nothing
      /\ x.pending = {} /\ x.next = Nothing /\ WellFormed(x)
  BY <1>1, IdleIs, HolderFields
<1>3. Versions(x.read)  BY <1>2 DEF Versions, M!SemanticAssumption
<1>4. Earlier(x.read, docs, steps)
  <2>1. \A d \in Doc : docs[d] \in Nat /\ x.read[d] = 0  BY <1>2 DEF Versions, M!SemanticAssumption
  <2> QED  BY <2>1 DEF Earlier
<1>5. SoundOrNone(x.prev, docs, steps)  BY <1>2 DEF SoundOrNone
<1>6. x = [at |-> x.at, by |-> x.by, read |-> x.read, prev |-> x.prev, pending |-> x.pending, next |-> x.next]
  BY <1>2 DEF WellFormed, Holder
<1>7. SoundCompiler(x, docs, steps, act, calm)  BY <1>2, <1>3, <1>4, <1>5, <1>6 DEF SoundCompiler
<1> QED  BY <1>1, <1>7

-----------------------------------------------------------------------------
(* Steps beside the compiler.                                               *)

LEMMA BesideKeeps ==
    ASSUME M!SemanticAssumption, SemanticInv, compiler' = compiler, active' = active \/ active' = Nothing,
           Documents', NotBack(doc, deletion, doc', deletion'), quiet' => quiet /\ doc' = doc,
           \A d \in Doc : deletion[d] = "compile" => deletion'[d] = "compile",
           \A d \in Doc : Forgotten(d, compiler, deletion', told') => Forgotten(d, compiler, deletion, told),
           \A d \in Doc : deletion'[d] = "done" /\ d \in told' /\ active' # Nothing =>
               active' = active /\ deletion[d] = "done" /\ d \in told
    PROVE  SemanticInv'
<1>1. SoundCompiler(compiler, doc', deletion', active', quiet')
  <2>1. Versions(doc) /\ Versions(doc')  BY DEF SemanticInv, Documents
  <2>2. SoundCompiler(compiler, doc, deletion, active, quiet)  BY DEF SemanticInv, Compiling
  <2> QED  BY <2>1, <2>2, BesideCompiler
<1>2. SoundDeletes(compiler, deletion', told', active')  BY DEF SemanticInv, Deleting, SoundDeletes
<1> QED  BY <1>1, <1>2 DEF SemanticInv, Compiling, Deleting

LEMMA PublishKeeps == ASSUME M!SemanticAssumption, SemanticInv, NEW d \in Doc, M!Publish(d) PROVE SemanticInv'
<1>1. Last[d] \in Nat /\ doc[d] \in 0 .. Last[d]  BY DEF SemanticInv, Documents, Versions, M!SemanticAssumption
<1>2. \A z \in Doc : doc[z] \in Int  BY DEF SemanticInv, Documents, Versions, M!SemanticAssumption
<1>3. /\ doc' = [doc EXCEPT ![d] = @ + 1] /\ deletion' = deletion /\ deletion[d] = "none" /\ doc[d] < Last[d]
      /\ compiler' = compiler /\ active' = active /\ told' = told /\ quiet' = FALSE
  BY DEF M!Publish, M!Changed
<1>4. doc' = [z \in Doc |-> IF z = d THEN doc[z] + 1 ELSE doc[z]]
  BY <1>3 DEF SemanticInv, Documents
<1>5. \A z \in Doc : doc'[z] = IF z = d THEN doc[z] + 1 ELSE doc[z]  BY <1>4
<1>6. Documents'
  <2>1. doc' = [z \in Doc |-> doc'[z]]  BY <1>4
  <2>2. Versions(doc')  BY <1>1, <1>3, <1>5 DEF SemanticInv, Documents, Versions
  <2>3. \A z \in Doc : deletion'[z] # "none" => doc'[z] = 0  BY <1>3, <1>5 DEF SemanticInv, Documents
  <2> QED  BY <1>3, <2>1, <2>2, <2>3 DEF SemanticInv, Documents
<1>7. NotBack(doc, deletion, doc', deletion')  BY <1>2, <1>3, <1>5 DEF NotBack
<1> QED  BY <1>3, <1>6, <1>7, BesideKeeps

\* Steps of a delete, and the retirement of the compilation.
LEMMA DeleteKeeps ==
    ASSUME M!SemanticAssumption, SemanticInv, NEW d \in Doc,
           M!FenceDocument(d) \/ M!CheckSemantic(d) \/ M!MarkDeleted(d) \/ M!Retire(d)
    PROVE  SemanticInv'
<1>1. /\ deletion = [z \in Doc |-> deletion[z]] /\ doc = [z \in Doc |-> doc[z]]
      /\ \A z \in Doc : deletion[z] # "none" => doc[z] = 0
      /\ \A z \in Doc : doc[z] \in 0 .. Last[z] /\ Last[z] \in Nat
      /\ told \subseteq Doc
  BY DEF SemanticInv, Documents, Versions, M!SemanticAssumption
<1>2. PICK step :
      /\ deletion' = [deletion EXCEPT ![d] = step]
      /\ deletion[d] # "compile" /\ step # "none" /\ step # "retire"
      /\ (step = "done" => d \notin told' \/ active' = Nothing)
      /\ step = "done" /\ d \in told' => deletion[d] = "retire"
      /\ told' \subseteq told \cup {d} /\ \A z \in Doc : z # d => (z \in told' <=> z \in told)
      /\ compiler' = compiler /\ (active' = active \/ active' = Nothing)
      /\ doc' = [doc EXCEPT ![d] = 0] /\ (quiet' => quiet /\ doc' = doc)
  <2>1. CASE M!FenceDocument(d)  BY <2>1 DEF M!FenceDocument, M!Changed
  <2>2. deletion[d] # "none" => doc = [doc EXCEPT ![d] = 0]  BY <1>1
  <2>3. CASE M!CheckSemantic(d)  BY <2>2, <2>3 DEF M!CheckSemantic
  <2>4. CASE M!MarkDeleted(d)  BY <2>2, <2>4 DEF M!MarkDeleted
  <2>5. CASE M!Retire(d)  BY <2>2, <2>5 DEF M!Retire, M!retireActive
  <2> QED  BY <2>1, <2>3, <2>4, <2>5
<1>3. /\ \A z \in Doc : deletion'[z] = IF z = d THEN step ELSE deletion[z]
      /\ \A z \in Doc : doc'[z] = IF z = d THEN 0 ELSE doc[z]
      /\ deletion' = [z \in Doc |-> deletion'[z]] /\ doc' = [z \in Doc |-> doc'[z]]
  BY <1>1, <1>2
<1>4. Documents'  BY <1>1, <1>2, <1>3 DEF Documents, Versions
<1>5. NotBack(doc, deletion, doc', deletion')
  <2>1. \A z \in Doc : doc[z] \in Int  BY <1>1
  <2>2. \A z \in Doc : z # d => doc'[z] = doc[z] /\ deletion'[z] = deletion[z]  BY <1>3
  <2>3. deletion'[d] # "none"  BY <1>2, <1>3
  <2> QED  BY <2>1, <2>2, <2>3 DEF NotBack
<1>6. \A z \in Doc : Forgotten(z, compiler, deletion', told') => Forgotten(z, compiler, deletion, told)
  BY <1>2, <1>3 DEF Forgotten
<1>7. \A z \in Doc : deletion'[z] = "done" /\ z \in told' /\ active' # Nothing =>
          active' = active /\ deletion[z] = "done" /\ z \in told
  BY <1>2, <1>3
<1>8. \A z \in Doc : deletion[z] = "compile" => deletion'[z] = "compile"  BY <1>2, <1>3
<1> QED  BY <1>2, <1>4, <1>5, <1>6, <1>7, <1>8, BesideKeeps

-----------------------------------------------------------------------------
(* Steps of the compiler.                                                   *)

\* A compiler that ends: deletes it worked for are over, or must retire the compilation.
LEMMA EndKeeps ==
    ASSUME M!SemanticAssumption, SemanticInv, compiler' = M!Idle, active' = active, doc' = doc, told' = told,
           deletion' = [d \in Doc |-> deletion'[d]],
           \A d \in Doc : deletion'[d] = "none" <=> deletion[d] = "none",
           \A d \in Doc : deletion'[d] = "done" /\ d \in told /\ active # Nothing =>
               deletion[d] = "done" \/ active.signed[d] = 0
    PROVE  SemanticInv'
<1>1. Documents'  BY DEF SemanticInv, Documents
<1>2. Compiling'
  <2>1. Versions(doc) /\ SoundOrNone(active, doc, deletion)
    BY DEF SemanticInv, Documents, Compiling, SoundCompiler
  <2>2. \A d \in Doc : doc[d] \in Int  BY <2>1 DEF Versions, M!SemanticAssumption
  <2>3. NotBack(doc, deletion, doc, deletion')  BY <2>2 DEF NotBack
  <2>4. SoundOrNone(active, doc, deletion')  BY <2>1, <2>3, SoundOrNoneStays
  <2>5. SoundCompiler(M!Idle, doc, deletion', active, quiet')  BY <2>1, <2>4, IdleIsSound
  <2> QED  BY <2>5 DEF Compiling
<1>3. Deleting'
  <2>1. PICK x : x = M!Idle  OBVIOUS
  <2>2. x.at = "idle" /\ \A d \in Doc : x.read[d] = 0
    <3>1. x.at = "idle" /\ x.read = [d \in Doc |-> 0]  BY <2>1, IdleIs, HolderFields
    <3> QED  BY <3>1
  <2>3. \A d \in Doc : deletion'[d] = "done" /\ d \in told /\ active # Nothing => active.signed[d] = 0
    BY DEF SemanticInv, Deleting, SoundDeletes
  <2>4. SoundDeletes(x, deletion', told', active')  BY <2>2, <2>3 DEF SoundDeletes
  <2> QED  BY <2>1, <2>4 DEF Deleting
<1> QED  BY <1>1, <1>2, <1>3 DEF SemanticInv

\* What the holder of the mutex worked for.
LEMMA HolderIs ==
    ASSUME SemanticInv, compiler.at # "idle", NEW d \in Doc, d = compiler.by
    PROVE  compiler.read[d] = 0 /\ deletion[d] = "compile"
  BY DEF SemanticInv, Deleting, SoundDeletes, Forgotten

LEMMA ResolveKeeps == ASSUME M!SemanticAssumption, SemanticInv, M!Resolve PROVE SemanticInv'
<1>1. /\ compiler' = M!Idle /\ active' = active /\ doc' = doc /\ told' = told /\ compiler.at = "resolve"
      /\ deletion' = IF compiler.by = Nobody THEN deletion ELSE [deletion EXCEPT ![compiler.by] = "done"]
  BY DEF M!Resolve
<1>2. deletion = [d \in Doc |-> deletion[d]]  BY DEF SemanticInv, Documents
<1>3. /\ deletion' = [d \in Doc |-> deletion'[d]]
      /\ \A d \in Doc : \/ deletion'[d] = deletion[d]
                        \/ d = compiler.by /\ deletion'[d] = "done"
  BY <1>1, <1>2
<1>4. /\ active # Nothing => active = compiler.next
      /\ \A d \in Doc : compiler.read[d] = 0 => compiler.next.signed[d] = 0
  BY <1>1 DEF SemanticInv, Compiling, SoundCompiler
<1> QED  BY <1>1, <1>3, <1>4, HolderIs, EndKeeps

LEMMA CompileFailsKeeps == ASSUME M!SemanticAssumption, SemanticInv, M!CompileFails PROVE SemanticInv'
<1>1. /\ compiler' = M!Idle /\ active' = active /\ doc' = doc /\ told' = told /\ compiler.at # "idle"
      /\ deletion' = IF compiler.by = Nobody THEN deletion ELSE [deletion EXCEPT ![compiler.by] = "retire"]
  BY DEF M!CompileFails
<1>2. deletion = [d \in Doc |-> deletion[d]]  BY DEF SemanticInv, Documents
<1>3. /\ deletion' = [d \in Doc |-> deletion'[d]]
      /\ \A d \in Doc : \/ deletion'[d] = deletion[d]
                        \/ d = compiler.by /\ deletion'[d] = "retire"
  BY <1>1, <1>2
<1> QED  BY <1>1, <1>3, HolderIs, EndKeeps

LEMMA MemoryCrashKeeps == ASSUME M!SemanticAssumption, SemanticInv, M!Crash PROVE SemanticInv'
<1>1. /\ compiler' = M!Idle /\ active' = active /\ doc' = doc /\ told' = told
      /\ deletion' = [d \in Doc |-> IF deletion[d] \in {"none", "done"} THEN deletion[d] ELSE "check"]
  BY DEF M!Crash
<1>2. deletion' = [d \in Doc |-> deletion'[d]]  BY <1>1
<1>3. \A d \in Doc : deletion'[d] = IF deletion[d] \in {"none", "done"} THEN deletion[d] ELSE "check"
  BY <1>1
<1> QED  BY <1>1, <1>2, <1>3, EndKeeps

\* ReadDocuments: what it reads is what there is.
LEMMA ReadDocumentsKeeps ==
    ASSUME M!SemanticAssumption, SemanticInv, NEW by, M!ReadDocuments(by)
    PROVE  SemanticInv'
<1>1. /\ by \in Doc => deletion[by] = "compile"
      /\ compiler' = WithRead(by, doc) /\ quiet' = TRUE
      /\ doc' = doc /\ deletion' = deletion /\ active' = active /\ told' = told
  BY DEF M!ReadDocuments, WithRead
<1>2. PICK x : x = compiler'  OBVIOUS
<1>3. /\ x.at = "previous" /\ x.by = by /\ x.read = doc /\ x.prev = Nothing /\ WellFormed(x)
  BY <1>1, <1>2, WithReadIs, HolderFields
<1>4. /\ Versions(doc) /\ SoundOrNone(active, doc, deletion)
      /\ \A d \in Doc : deletion[d] # "none" => doc[d] = 0
      /\ \A d \in Doc : doc[d] \in Int
  BY DEF SemanticInv, Documents, Compiling, SoundCompiler, Versions, M!SemanticAssumption
<1>5. SoundCompiler(x, doc, deletion, active, TRUE)
  <2>1. Earlier(x.read, doc, deletion)  BY <1>3, <1>4 DEF Earlier
  <2>2. SoundOrNone(x.prev, doc, deletion)  BY <1>3 DEF SoundOrNone
  <2>3. x = [at |-> x.at, by |-> x.by, read |-> x.read, prev |-> x.prev, pending |-> x.pending, next |-> x.next]
    BY <1>3 DEF WellFormed, Holder
  <2> QED  BY <1>3, <1>4, <2>1, <2>2, <2>3 DEF SoundCompiler
<1>6. SoundDeletes(x, deletion, told, active)
  BY <1>1, <1>3, <1>4 DEF SemanticInv, Deleting, SoundDeletes, Forgotten
<1>7. Compiling' /\ Deleting'  BY <1>1, <1>2, <1>5, <1>6 DEF Compiling, Deleting
<1>8. Documents'  BY <1>1 DEF SemanticInv, Documents
<1> QED  BY <1>7, <1>8 DEF SemanticInv

\* A step in which the holder of the mutex only reads or writes: documents stay, what it works
\* for and has read too.
LEMMA HolderKeeps ==
    ASSUME SemanticInv, doc' = doc, deletion' = deletion, told' = told, quiet' = quiet,
           compiler.at # "idle", NEW x, x = compiler', x.by = compiler.by, x.read = compiler.read,
           SoundCompiler(x, doc, deletion, active', quiet),
           active' = active \/ \A d \in Doc : compiler.read[d] = 0 => active'.signed[d] = 0
    PROVE  SemanticInv'
<1>1. SoundDeletes(x, deletion, told, active')
  BY DEF SemanticInv, Deleting, SoundDeletes, Forgotten
<1>2. Compiling' /\ Deleting'  BY <1>1 DEF Compiling, Deleting
<1>3. Documents'  BY DEF SemanticInv, Documents
<1> QED  BY <1>2, <1>3 DEF SemanticInv

LEMMA ReadPreviousKeeps == ASSUME M!SemanticAssumption, SemanticInv, M!ReadPrevious PROVE SemanticInv'
<1>1. /\ compiler.at = "previous" /\ compiler' = WithPrevious(compiler, active, queue)
      /\ doc' = doc /\ deletion' = deletion /\ active' = active /\ told' = told /\ quiet' = quiet
  BY DEF M!ReadPrevious, WithPrevious
<1>2. SoundCompiler(compiler, doc, deletion, active, quiet) /\ WellFormed(compiler)
  BY DEF SemanticInv, Compiling, SoundCompiler, WellFormed, Holder
<1>3. PICK x : x = compiler'  OBVIOUS
<1>4. /\ x.at = "load" /\ x.by = compiler.by /\ x.read = compiler.read /\ x.prev = active /\ WellFormed(x)
  BY <1>1, <1>2, <1>3, WithPreviousIs, HolderFields
<1>5. x = [at |-> x.at, by |-> x.by, read |-> x.read, prev |-> x.prev, pending |-> x.pending, next |-> x.next]
  BY <1>4 DEF WellFormed, Holder
<1>6. SoundCompiler(x, doc, deletion, active', quiet)
  BY <1>1, <1>2, <1>4, <1>5 DEF SoundCompiler
<1> QED  BY <1>1, <1>3, <1>4, <1>6, HolderKeeps

LEMMA MemoryActivateKeeps == ASSUME M!SemanticAssumption, SemanticInv, M!Activate PROVE SemanticInv'
<1>1. /\ compiler.at = "activate" /\ compiler' = MemoryMoved(compiler, "resolve") /\ active' = compiler.next
      /\ doc' = doc /\ deletion' = deletion /\ told' = told /\ quiet' = quiet
  BY DEF M!Activate, MemoryMoved
<1>2. SoundCompiler(compiler, doc, deletion, active, quiet) /\ WellFormed(compiler)
  BY DEF SemanticInv, Compiling, SoundCompiler, WellFormed, Holder
<1>3. PICK x : x = compiler'  OBVIOUS
<1>4. /\ x.at = "resolve" /\ x.by = compiler.by /\ x.read = compiler.read /\ x.prev = compiler.prev
      /\ x.next = compiler.next /\ WellFormed(x)
  BY <1>1, <1>2, <1>3, MovedIs, HolderFields
<1>5. x = [at |-> x.at, by |-> x.by, read |-> x.read, prev |-> x.prev, pending |-> x.pending, next |-> x.next]
  BY <1>4 DEF WellFormed, Holder
<1>6. SoundCompiler(x, doc, deletion, active', quiet)
  <2>1. SoundOrNone(compiler.next, doc, deletion)  BY <1>1, <1>2 DEF SoundCompiler, SoundOrNone
  <2> QED  BY <1>1, <1>2, <1>4, <1>5, <2>1 DEF SoundCompiler
<1>7. \A d \in Doc : compiler.read[d] = 0 => active'.signed[d] = 0  BY <1>1, <1>2 DEF SoundCompiler
<1> QED  BY <1>1, <1>3, <1>4, <1>6, <1>7, HolderKeeps

-----------------------------------------------------------------------------
(* Load: the text that is loaded, and the compilation that is built from it. *)

\* The documents that are dirty, the versions that are loaded of them, and what the
\* compilation is then built from.
Loads(x, docs, dirty, now, loaded, signed) ==
    /\ \A d \in Doc : now[d] = IF d \in dirty /\ (M!Full(x) \/ x.read[d] # 0) THEN docs[d] ELSE 0
    /\ \A d \in Doc : loaded[d] = IF d \in dirty THEN now[d] ELSE x.prev.loaded[d]
    /\ \A d \in Doc : signed[d] = IF loaded[d] # 0 THEN x.read[d] ELSE 0
    /\ x.prev = Nothing => dirty = Doc
    /\ x.prev # Nothing /\ M!Full(x) => \A d \in Doc : d \notin dirty => docs[d] = x.prev.loaded[d]
    /\ ~M!Full(x) => \A d \in Doc : d \notin dirty => x.read[d] = x.prev.signed[d]

\* What is known of one document when its text is loaded.
Numbers(x, docs, steps) ==
    /\ \A d \in Doc : docs[d] \in 0 .. Last[d] /\ x.read[d] \in 0 .. Last[d] /\ Last[d] \in Nat
    /\ \A d \in Doc : steps[d] # "none" => docs[d] = 0
    /\ \A d \in Doc : steps[d] = "none" => x.read[d] <= docs[d]
    /\ x.prev # Nothing => \A d \in Doc :
          /\ x.prev.loaded[d] \in 0 .. Last[d] /\ x.prev.signed[d] \in 0 .. Last[d]
          /\ x.prev.signed[d] <= x.prev.loaded[d]
          /\ steps[d] = "none" => x.prev.loaded[d] <= docs[d]

LEMMA NumbersHold ==
    ASSUME M!SemanticAssumption, SemanticInv
    PROVE  Numbers(compiler, doc, deletion)
<1>1. \A d \in Doc : doc[d] \in 0 .. Last[d] /\ compiler.read[d] \in 0 .. Last[d] /\ Last[d] \in Nat
  BY DEF SemanticInv, Documents, Compiling, SoundCompiler, Versions, M!SemanticAssumption
<1>2. \A d \in Doc : deletion[d] # "none" => doc[d] = 0  BY DEF SemanticInv, Documents
<1>3. \A d \in Doc : deletion[d] = "none" => compiler.read[d] <= doc[d]
  BY DEF SemanticInv, Compiling, SoundCompiler, Earlier
<1>4. compiler.prev # Nothing => Sound(compiler.prev) /\ Earlier(compiler.prev.loaded, doc, deletion)
  BY DEF SemanticInv, Compiling, SoundCompiler, SoundOrNone
<1>5. compiler.prev # Nothing => \A d \in Doc :
          /\ compiler.prev.loaded[d] \in 0 .. Last[d] /\ compiler.prev.signed[d] \in 0 .. Last[d]
          /\ compiler.prev.signed[d] <= compiler.prev.loaded[d]
          /\ deletion[d] = "none" => compiler.prev.loaded[d] <= doc[d]
  BY <1>4 DEF Sound, Versions, Earlier
<1> QED  BY <1>1, <1>2, <1>3, <1>5 DEF Numbers

\* Texts are there, no older than the signatures they get, and earlier than what is there now.
\* Beside no change they are the texts that are there now.
SoundVersions(x, docs, steps, loaded, signed) ==
    /\ Versions(loaded) /\ Versions(signed)
    /\ \A d \in Doc : signed[d] <= loaded[d]
    /\ Earlier(loaded, docs, steps)
    /\ \A d \in Doc : x.read[d] = 0 => signed[d] = 0
    /\ (\A d \in Doc : x.read[d] = docs[d]) =>
           \A d \in Doc : (loaded[d] # 0 /\ signed[d] = 0) \/ loaded[d] = docs[d]

LEMMA LoadedIsSound ==
    ASSUME M!SemanticAssumption, NEW x, NEW docs, NEW steps, NEW dirty, NEW now, NEW loaded, NEW signed,
           Numbers(x, docs, steps), Loads(x, docs, dirty, now, loaded, signed)
    PROVE  Versions(now) /\ SoundVersions(x, docs, steps, loaded, signed)
<1>1. x.prev = Nothing => M!Full(x)  BY DEF M!Full
<1>2. SUFFICES ASSUME NEW d \in Doc
               PROVE  /\ now[d] \in 0 .. Last[d] /\ loaded[d] \in 0 .. Last[d] /\ signed[d] \in 0 .. Last[d]
                      /\ signed[d] <= loaded[d]
                      /\ steps[d] = "none" => loaded[d] <= docs[d]
                      /\ x.read[d] = 0 => signed[d] = 0
                      /\ x.read[d] = docs[d] => (loaded[d] # 0 /\ signed[d] = 0) \/ loaded[d] = docs[d]
  BY DEF SoundVersions, Versions, Earlier
<1> DEFINE n == now[d]
           l == loaded[d]
           s == signed[d]
           r == x.read[d]
           k == docs[d]
           pl == x.prev.loaded[d]
           ps == x.prev.signed[d]
           in == d \in dirty
           first == x.prev = Nothing
           full == M!Full(x)
<1>3. /\ n = IF in /\ (full \/ r # 0) THEN k ELSE 0
      /\ l = IF in THEN n ELSE pl
      /\ s = IF l # 0 THEN r ELSE 0
      /\ first => in
      /\ ~first /\ full /\ ~in => k = pl
      /\ ~full /\ ~in => r = ps
  BY DEF Loads
<1>4. /\ k \in 0 .. Last[d] /\ r \in 0 .. Last[d] /\ Last[d] \in Nat
      /\ steps[d] # "none" => k = 0
      /\ steps[d] = "none" => r <= k
      /\ ~first => pl \in 0 .. Last[d] /\ ps \in 0 .. Last[d] /\ ps <= pl /\ (steps[d] = "none" => pl <= k)
  BY DEF Numbers
<1>5. first => full  BY <1>1
<1> HIDE DEF n, l, s, r, k, pl, ps, in, first, full
<1>6. CASE in  BY <1>3, <1>4, <1>6 DEF n, l, s, r, k
<1>7. CASE ~in  
  <2>1. ~first  BY <1>3, <1>7
  <2>2. CASE full
    <3>1. n = 0 /\ l = k /\ s = IF k # 0 THEN r ELSE 0  BY <1>3, <1>7, <2>1, <2>2
    <3>2. s \in 0 .. Last[d] /\ s <= l  BY <1>4, <3>1
    <3> QED  BY <1>4, <3>1, <3>2 DEF n, l, s, r, k
  <2>3. CASE ~full
    <3>1. n = 0 /\ l = pl /\ r = ps /\ s = IF pl # 0 THEN r ELSE 0  BY <1>3, <1>7, <2>1, <2>3
    <3>2. s \in 0 .. Last[d] /\ s <= l /\ l \in 0 .. Last[d]  BY <1>4, <2>1, <3>1
    <3>3. r = k => (l # 0 /\ s = 0) \/ l = k  BY <1>4, <2>1, <3>1
    <3> QED  BY <1>4, <2>1, <3>1, <3>2, <3>3 DEF n, l, s, r, k
  <2> QED  BY <2>2, <2>3
<1> QED  BY <1>6, <1>7

\* Units of a first compilation, or of one that merges what was loaded into the previous one.
Replaces(prev, dirty, now, loaded) ==
    (prev = Nothing => dirty = Doc) /\ Overrides(prev.loaded, dirty, now, loaded)

UnitsOf(prev, dirty, now) ==
    IF prev = Nothing THEN M!Compile(M!SourcesOf(now)) ELSE M!Merge(prev.units, M!Compile(M!SourcesOf(now)), dirty)

LEMMA UnitsAreSound ==
    ASSUME M!SemanticAssumption, NEW prev, NEW dirty, NEW now, NEW loaded,
           Versions(now), Versions(loaded), prev # Nothing => Sound(prev), Replaces(prev, dirty, now, loaded)
    PROVE  LET units == UnitsOf(prev, dirty, now)
           IN  units.facts = M!FactUnits(M!SourcesOf(loaded)) /\ Evident(units, M!SourcesOf(loaded))
<1>1. PICK S, delta, units : S = M!SourcesOf(now) /\ delta = M!Compile(S) /\ units = UnitsOf(prev, dirty, now)
  OBVIOUS
<1>2. delta.facts = M!FactUnits(S) /\ Evident(delta, S)
  <2>1. \A s \in S : s[1] \in Doc /\ FactsOf[s] \subseteq Fact /\ HeadingsOf[s] \subseteq Concept
    BY <1>1, SourcesAreThere
  <2> QED  BY <1>1, <2>1, CompileIsEvident
<1>3. CASE prev = Nothing
  <2>1. \A d \in Doc : loaded[d] = now[d]  BY <1>3 DEF Replaces, Overrides
  <2>2. \A s : s \in M!SourcesOf(loaded) <=> s \in M!SourcesOf(now)  BY <2>1, SourcesAre
  <2>3. M!SourcesOf(loaded) = S  BY <1>1, <2>2
  <2> QED  BY <1>1, <1>2, <1>3, <2>3 DEF UnitsOf
<1>4. CASE prev # Nothing
  <2>1. M!SourcesOf(loaded) = M!Kept(M!SourcesOf(prev.loaded), dirty) \cup S  BY <1>1, SourcesMerge DEF Replaces
  <2>2. prev.units.facts = M!FactUnits(M!SourcesOf(prev.loaded)) /\ Evident(prev.units, M!SourcesOf(prev.loaded))
    BY <1>4 DEF Sound
  <2>3. units = M!Merge(prev.units, delta, dirty)  BY <1>1, <1>4 DEF UnitsOf
  <2>4. /\ M!Merge(prev.units, delta, dirty).facts = M!FactUnits(M!Kept(M!SourcesOf(prev.loaded), dirty) \cup S)
        /\ Evident(M!Merge(prev.units, delta, dirty), M!Kept(M!SourcesOf(prev.loaded), dirty) \cup S)
    BY <1>2, <2>2, MergeIsEvident
  <2> QED  BY <1>1, <2>1, <2>3, <2>4
<1> QED  BY <1>1, <1>3, <1>4

\* The compilation that is built from both.
SoundNext(x, docs, steps, next) ==
    /\ Sound(next) /\ Earlier(next.loaded, docs, steps)
    /\ \A d \in Doc : x.read[d] = 0 => next.signed[d] = 0
    /\ x.read = docs => \A d \in Doc : M!Unsigned(next, d) \/ next.loaded[d] = docs[d]

LEMMA AssembledIsSound ==
    ASSUME NEW x, NEW docs, NEW steps, NEW loaded, NEW signed, NEW units, NEW next,
           next.signed = signed /\ next.loaded = loaded /\ next.units = units,
           SoundVersions(x, docs, steps, loaded, signed),
           units.facts = M!FactUnits(M!SourcesOf(loaded)) /\ Evident(units, M!SourcesOf(loaded))
    PROVE  SoundNext(x, docs, steps, next)
<1>1. Sound(next)  BY DEF Sound, SoundVersions
<1>2. Earlier(next.loaded, docs, steps)  BY DEF SoundVersions
<1>3. \A d \in Doc : x.read[d] = 0 => next.signed[d] = 0  BY DEF SoundVersions
<1>4. x.read = docs => \A d \in Doc : M!Unsigned(next, d) \/ next.loaded[d] = docs[d]
  BY DEF SoundVersions, M!Unsigned
<1> QED  BY <1>1, <1>2, <1>3, <1>4 DEF SoundNext

\* A compiler that has built next, to be activated, or has found nothing to do.
LEMMA BuiltIsSound ==
    ASSUME SemanticInv, compiler.at = "load", NEW at, at \in {"activate", "resolve"},
           NEW next, compiler' = Built(compiler, at, next),
           doc' = doc, deletion' = deletion, active' = active, told' = told, quiet' = quiet,
           SoundNext(compiler, doc, deletion, next),
           at = "resolve" => next = compiler.prev
    PROVE  SemanticInv'
<1>1. SoundCompiler(compiler, doc, deletion, active, quiet) /\ WellFormed(compiler)
  BY DEF SemanticInv, Compiling, SoundCompiler, WellFormed, Holder
<1>2. PICK x : x = compiler'  OBVIOUS
<1>3. /\ x.at = at /\ x.by = compiler.by /\ x.read = compiler.read /\ x.prev = compiler.prev
      /\ x.next = next /\ WellFormed(x)
  BY <1>1, <1>2, BuiltIs, HolderFields
<1>4. x = [at |-> x.at, by |-> x.by, read |-> x.read, prev |-> x.prev, pending |-> x.pending, next |-> x.next]
  BY <1>3 DEF WellFormed, Holder
<1>5. /\ Versions(x.read) /\ Earlier(x.read, doc, deletion) /\ (quiet => x.read = doc)
      /\ SoundOrNone(active, doc, deletion) /\ SoundOrNone(x.prev, doc, deletion)
      /\ active \in {x.prev, Nothing}
  BY <1>1, <1>3 DEF SoundCompiler
<1>6. quiet => \A d \in Doc : M!Unsigned(x.next, d) \/ x.next.loaded[d] = doc[d]
  BY <1>3, <1>5 DEF SoundNext
<1>7. Sound(x.next) /\ Earlier(x.next.loaded, doc, deletion) /\ \A d \in Doc : x.read[d] = 0 => x.next.signed[d] = 0
  BY <1>3 DEF SoundNext
<1>8. SoundCompiler(x, doc, deletion, active', quiet)
  BY <1>3, <1>4, <1>5, <1>6, <1>7 DEF SoundCompiler
<1> QED  BY <1>2, <1>3, <1>8, HolderKeeps

LEMMA LoadKeeps == ASSUME M!SemanticAssumption, SemanticInv, M!Load PROVE SemanticInv'
<1> DEFINE c == compiler
           first == c.prev = Nothing
           dirty == M!Changes(c)
           now == [d \in Doc |-> IF d \in dirty /\ (M!Full(c) \/ c.read[d] # 0) THEN doc[d] ELSE 0]
           loaded == [d \in Doc |-> IF d \in dirty THEN now[d] ELSE c.prev.loaded[d]]
           signed == [d \in Doc |-> IF loaded[d] # 0 THEN c.read[d] ELSE 0]
           delta == M!Compile(M!SourcesOf(now))
           units == IF first THEN delta ELSE M!Merge(c.prev.units, delta, dirty)
           next == [signed |-> signed, loaded |-> loaded, units |-> units]
<1>1. /\ c.at = "load"
      /\ compiler' = IF ~first /\ dirty = {} THEN Built(c, "resolve", c.prev) ELSE Built(c, "activate", next)
      /\ doc' = doc /\ deletion' = deletion /\ active' = active /\ told' = told /\ quiet' = quiet
  BY DEF M!Load, Built
<1>2. Loads(c, doc, dirty, now, loaded, signed)
  <2>1. first => M!Full(c)  BY DEF M!Full
  <2>2. first => dirty = Doc  BY DEF M!Changes
  <2>3. ~first /\ M!Full(c) => \A d \in Doc : d \notin dirty => doc[d] = c.prev.loaded[d]  BY DEF M!Changes
  <2>4. ~M!Full(c) => \A d \in Doc : d \notin dirty => c.read[d] = c.prev.signed[d]  BY <2>1 DEF M!Changes
  <2>5. \A d \in Doc : now[d] = IF d \in dirty /\ (M!Full(c) \/ c.read[d] # 0) THEN doc[d] ELSE 0  OBVIOUS
  <2>6. \A d \in Doc : loaded[d] = IF d \in dirty THEN now[d] ELSE c.prev.loaded[d]  OBVIOUS
  <2>7. \A d \in Doc : signed[d] = IF loaded[d] # 0 THEN c.read[d] ELSE 0  OBVIOUS
  <2> HIDE DEF dirty, now, loaded, signed
  <2> QED  BY <2>2, <2>3, <2>4, <2>5, <2>6, <2>7 DEF Loads
<1>3. Numbers(c, doc, deletion)  BY NumbersHold
<1>4. next.signed = signed /\ next.loaded = loaded /\ next.units = units
  <2> HIDE DEF signed, loaded, units
  <2> QED  OBVIOUS
<1>5. units = UnitsOf(c.prev, dirty, now)  BY DEF UnitsOf
<1>6. Replaces(c.prev, dirty, now, loaded)
  <2>1. \A d \in Doc : d \notin dirty => now[d] = 0  OBVIOUS
  <2>2. \A d \in Doc : loaded[d] = IF d \in dirty THEN now[d] ELSE c.prev.loaded[d]  OBVIOUS
  <2>3. c.prev = Nothing => dirty = Doc  BY DEF M!Changes
  <2> HIDE DEF dirty, now, loaded
  <2> QED  BY <2>1, <2>2, <2>3 DEF Replaces, Overrides
<1>7. ~first => Sound(c.prev) /\ Earlier(c.prev.loaded, doc, deletion)
  BY DEF SemanticInv, Compiling, SoundCompiler, SoundOrNone
<1>8. first <=> c.prev = Nothing  OBVIOUS
<1> HIDE DEF c, first, dirty, now, loaded, signed, delta, units, next
<1>9. Versions(now) /\ SoundVersions(c, doc, deletion, loaded, signed)
  BY <1>2, <1>3, LoadedIsSound
<1>10. units.facts = M!FactUnits(M!SourcesOf(loaded)) /\ Evident(units, M!SourcesOf(loaded))
  <2>1. Versions(loaded)  BY <1>9 DEF SoundVersions
  <2> QED  BY <1>5, <1>6, <1>7, <1>8, <1>9, <2>1, UnitsAreSound
<1>11. SoundNext(c, doc, deletion, next)
  BY <1>4, <1>9, <1>10, AssembledIsSound
<1>12. CASE ~(~first /\ dirty = {})
  <2>1. compiler' = Built(c, "activate", next)  BY <1>1, <1>12
  <2> QED  BY <1>1, <1>11, <2>1, BuiltIsSound DEF c
\* Nothing is dirty: what was compiled is what there is.
<1>13. CASE ~first /\ dirty = {}
  <2>1. compiler' = Built(c, "resolve", c.prev)  BY <1>1, <1>13
  <2>2. /\ M!Full(c) => \A d \in Doc : c.prev.signed[d] = 0 /\ doc[d] = c.prev.loaded[d]
        /\ ~M!Full(c) => \A d \in Doc : c.read[d] = c.prev.signed[d]
    BY <1>2, <1>8, <1>13 DEF Loads, M!Full
  <2>3. \A d \in Doc : c.read[d] = 0 => c.prev.signed[d] = 0  BY <2>2
  <2>4. ASSUME c.read = doc, NEW d \in Doc
        PROVE  M!Unsigned(c.prev, d) \/ c.prev.loaded[d] = doc[d]
    <3>1. CASE M!Full(c)  BY <2>2, <3>1
    <3>2. CASE ~M!Full(c)
      <4>1. c.prev.signed[d] = doc[d]  BY <2>2, <2>4, <3>2
      <4>2. /\ doc[d] \in Nat /\ (deletion[d] # "none" => doc[d] = 0)
            /\ c.prev.loaded[d] \in Int /\ c.prev.signed[d] <= c.prev.loaded[d]
            /\ deletion[d] = "none" => c.prev.loaded[d] <= doc[d]
        BY <1>3, <1>8, <1>13 DEF Numbers
      <4> QED  BY <4>1, <4>2 DEF M!Unsigned
    <3> QED  BY <3>1, <3>2
  <2>5. SoundNext(c, doc, deletion, c.prev)  BY <1>7, <1>13, <2>3, <2>4 DEF SoundNext
  <2> QED  BY <1>1, <2>1, <2>5, BuiltIsSound DEF c
<1> QED  BY <1>12, <1>13

-----------------------------------------------------------------------------
(* Semantic memory, always.                                                 *)

LEMMA InitIsSound == ASSUME M!SemanticAssumption, M!Init PROVE SemanticInv
<1>1. /\ doc = [d \in Doc |-> 0] /\ deletion = [d \in Doc |-> "none"] /\ active = Nothing
      /\ compiler = M!Idle /\ told = {}
  BY DEF M!Init
<1>2. Documents  BY <1>1 DEF Documents, Versions, M!SemanticAssumption
<1>3. Compiling
  <2>1. Versions(doc)  BY <1>2 DEF Documents
  <2>2. SoundOrNone(active, doc, deletion)  BY <1>1 DEF SoundOrNone
  <2> QED  BY <1>1, <2>1, <2>2, IdleIsSound DEF Compiling
<1>4. Deleting
  <2>1. compiler.at = "idle" /\ \A d \in Doc : deletion[d] = "none"  BY <1>1, IdleIs, HolderFields
  <2> QED  BY <1>1, <2>1 DEF Deleting, SoundDeletes, Forgotten
<1> QED  BY <1>2, <1>3, <1>4 DEF SemanticInv

LEMMA NextKeeps == ASSUME M!SemanticAssumption, SemanticInv, [M!Next]_M!vars PROVE SemanticInv'
<1>1. ASSUME NEW d \in Doc, M!Publish(d)  PROVE SemanticInv'  BY <1>1, PublishKeeps
<1>2. ASSUME NEW d \in Doc, M!MarkUpdated(d)  PROVE SemanticInv'
  <2>1. /\ doc' = doc /\ deletion' = deletion /\ active' = active /\ told' = told /\ quiet' = quiet
        /\ compiler' = compiler
    BY <1>2 DEF M!MarkUpdated
  <2> QED
    BY <2>1 DEF SemanticInv, Documents, Compiling, Deleting
<1>3. ASSUME NEW d \in Doc, M!FenceDocument(d) \/ M!CheckSemantic(d) \/ M!MarkDeleted(d) \/ M!Retire(d)
      PROVE  SemanticInv'
  BY <1>3, DeleteKeeps
<1>4. ASSUME NEW by, M!ReadDocuments(by)  PROVE SemanticInv'  BY <1>4, ReadDocumentsKeeps
<1>5. CASE M!ReadPrevious \/ M!Load \/ M!Activate \/ M!Resolve \/ M!CompileFails \/ M!Crash
  BY <1>5, ReadPreviousKeeps, LoadKeeps, MemoryActivateKeeps, ResolveKeeps, CompileFailsKeeps, MemoryCrashKeeps
<1>6. CASE UNCHANGED M!vars  BY <1>6 DEF M!vars, SemanticInv, Documents, Compiling, Deleting
<1> QED  BY <1>1, <1>2, <1>3, <1>4, <1>5, <1>6 DEF M!Next

\* However compilations, publications, deletes and crashes interleave, the active compilation
\* has the facts of its texts and no unit without evidence, a compilation beside which nothing
\* changed is of the documents as they are, and a document whose delete is over is not in it
\* (FactsAreRecompiled, EvidenceClosed, CompileIsCurrent and DeletedIsForgotten).
THEOREM MemoryStaysSound ==
    ASSUME M!SemanticAssumption
    PROVE  M!Init /\ [][M!Next]_M!vars =>
               [](M!FactsAreRecompiled /\ M!EvidenceClosed /\ M!CompileIsCurrent /\ M!DeletedIsForgotten)
<1>1. M!Init => SemanticInv  BY InitIsSound
<1>2. SemanticInv /\ [M!Next]_M!vars => SemanticInv'  BY NextKeeps
<1>3. SemanticInv => M!FactsAreRecompiled /\ M!EvidenceClosed /\ M!CompileIsCurrent /\ M!DeletedIsForgotten
  <2> SUFFICES ASSUME SemanticInv
               PROVE  M!FactsAreRecompiled /\ M!EvidenceClosed /\ M!CompileIsCurrent /\ M!DeletedIsForgotten
    OBVIOUS
  <2>1. active # Nothing => Sound(active)  BY DEF SemanticInv, Compiling, SoundCompiler, SoundOrNone
  <2>2. M!FactsAreRecompiled  BY <2>1 DEF M!FactsAreRecompiled, Sound
  <2>3. M!EvidenceClosed  BY <2>1 DEF M!EvidenceClosed, Sound, Evident
  <2>4. M!CompileIsCurrent  BY DEF SemanticInv, Compiling, SoundCompiler, M!CompileIsCurrent
  <2>5. ASSUME NEW d \in told, deletion[d] = "done", active # Nothing
        PROVE  M!Unsigned(active, d) \/ active.loaded[d] = 0
    BY <2>5 DEF SemanticInv, Documents, Deleting, SoundDeletes, M!Unsigned
  <2> QED  BY <2>2, <2>3, <2>4, <2>5 DEF M!DeletedIsForgotten
<1> QED  BY <1>1, <1>2, <1>3, PTL

=============================================================================
