---------------------------- MODULE AppLifecycle ----------------------------
(***************************************************************************)
(* A process of this program from its start to its end (app.App, the         *)
(* commands serve, extension, mcp and doctor), on a data directory that       *)
(* other processes want too: the instance lock, the migrations, the services  *)
(* and the helpers they call, changes of the configuration while it runs, and *)
(* a shutdown whose steps share one deadline.                                *)
(*                                                                         *)
(* A helper is a command or a service of a configuration, or is called through *)
(* a runtime manager; the processes of managers are RuntimeHelper, what the    *)
(* workers do is OperationQueue.                                             *)
(***************************************************************************)
EXTENDS Integers, FiniteSets

CONSTANTS
    Process, Mode, Nobody,
    Supports,       \* [Process -> the number of migrations its binary knows]
    Config,         \* names of configurations
    Settings,       \* [Config -> what they say]
    MaxUpdates,     \* [Process -> how often its configuration changes]
    MaxEvents       \* failures, crashes, deadlines that pass, changes of the OCR model

\* The assumptions of the theorems.
LifecycleAssumption ==
    /\ Nobody \notin Process
    /\ Supports \in [Process -> Nat] /\ MaxUpdates \in [Process -> Nat] /\ MaxEvents \in Nat

VARIABLES
    lock,           \* the process that holds instance.lock.db
    applied,        \* migrations committed to the database
    disk,           \* config.yaml
    bundle,         \* whether the OCR model is installed
    proc,           \* what each process is doing and holds
    events

vars == <<lock, applied, disk, bundle, proc, events>>

NoConfig == "none"
NoAdapter == [by |-> "none", manager |-> 0, config |-> NoConfig]
NoManager == [id |-> 0, config |-> NoConfig, managed |-> FALSE]

Off == [step |-> "off", mode |-> "none", config |-> NoConfig,
        stale |-> FALSE,        \* its configuration was loaded before another process saved one
        opened |-> FALSE, writing |-> FALSE, workers |-> FALSE,
        tasks |-> {}, recovery |-> "unstarted",
        manager |-> NoManager, running |-> {},      \* the managers that are not closed
        gated |-> FALSE,        \* SetOCRArtifactProvider was called
        parts |-> [part \in {"embedder", "reranker", "renderer", "ocr", "office", "content", "decoder"} |-> NoAdapter],
        update |-> "none", next |-> NoConfig, updates |-> 0,
        halfway |-> FALSE,      \* an update failed after it was saved
        overdue |-> FALSE]      \* the deadline of the shutdown has passed

-----------------------------------------------------------------------------
(* What the helpers are made of (knowledge/service_base.go).                *)

\* One command serves all capabilities, a special one only its own.
Configured(m, capability) ==
    \/ m.managed
    \/ m.id # 0 /\ (Settings[m.config].command \/ capability \in Settings[m.config].only)

Command(c) == [by |-> "command", manager |-> 0, config |-> c]
Through(m) == [by |-> "runtime", manager |-> m.id, config |-> m.config]

Embedder(c, m) ==
    CASE Settings[c].embedding = "remote" -> Command(c)
      [] Settings[c].embedding = "local" /\ Configured(m, "embedding") -> Through(m)
      [] OTHER -> NoAdapter

Reranker(c, m) ==
    CASE Settings[c].rerank = "remote" -> Command(c)
      [] Settings[c].rerank = "local" /\ Configured(m, "rerank") -> Through(m)
      [] OTHER -> NoAdapter

Renderer(c, m) ==
    IF "renderer" \in Settings[c].helpers THEN Command(c)
    ELSE IF Configured(m, "pdf_render") THEN Through(m) ELSE NoAdapter

\* An adapter of LibreOffice is never installed: the nil of NewRuntimeOfficeHelper is
\* not the nil of the interface it is assigned to.
Office(c, m) ==
    IF "office" \in Settings[c].helpers THEN Command(c)
    ELSE IF Configured(m, "office") THEN Through(m) ELSE NoAdapter

\* selectOCR asks once whether the bundle is installed.
OCR(c, m, gated) ==
    IF Configured(m, "ocr") /\ (gated => bundle) THEN Through(m)
    ELSE IF Settings[c].helpers \cap {"ocr", "ocr fallback"} # {} THEN Command(c) ELSE NoAdapter

Helper(c, name) == IF name \in Settings[c].helpers THEN Command(c) ELSE NoAdapter

Providers(parts, c, m) ==
    [parts EXCEPT !["embedder"] = Embedder(c, m), !["reranker"] = Reranker(c, m)]

NewService(c) ==
    [Providers(Off.parts, c, NoManager) EXCEPT
        !["renderer"] = Helper(c, "renderer"), !["ocr"] = OCR(c, NoManager, FALSE),
        !["office"] = Helper(c, "office"), !["content"] = Helper(c, "content"),
        !["decoder"] = Helper(c, "decoder")]

\* c is the configuration the service has, which may not be the one of m.
SetRuntime(parts, c, m, gated) ==
    [Providers(parts, c, m) EXCEPT
        !["renderer"] = IF "renderer" \in Settings[c].helpers THEN @ ELSE Renderer(c, m),
        !["ocr"] = OCR(c, m, gated)]

SetLegacyOfficeRunner(parts, c, m) ==
    IF "office" \in Settings[c].helpers THEN parts ELSE [parts EXCEPT !["office"] = Office(c, m)]

\* mutant: the office helper is left as it was
OfficeKept(parts, c, m, gated) ==
    [Providers(parts, c, m) EXCEPT
        !["renderer"] = Renderer(c, m), !["ocr"] = OCR(c, m, gated),
        !["content"] = Helper(c, "content"), !["decoder"] = Helper(c, "decoder")]

SetGlobalConfig(parts, c, m, gated) ==
    [Providers(parts, c, m) EXCEPT
        !["renderer"] = Renderer(c, m), !["ocr"] = OCR(c, m, gated), !["office"] = Office(c, m),
        !["content"] = Helper(c, "content"), !["decoder"] = Helper(c, "decoder")]

\* providersForBase: a base may ask for other providers than the configuration.
BaseProviders(p, overrides) ==
    [part \in {"embedder", "reranker"} |->
        IF overrides[part] = "inherited" THEN proc[p].parts[part]
        ELSE IF overrides[part] = "remote" THEN Command(proc[p].config)
        ELSE IF Configured(proc[p].manager, IF part = "embedder" THEN "embedding" ELSE "rerank")
        THEN Through(proc[p].manager) ELSE NoAdapter]

-----------------------------------------------------------------------------
(* Starting.                                                                *)

Is(p, step) == proc[p].step = step
Becomes(p, r) == proc' = [proc EXCEPT ![p] = r]
Happens == events < MaxEvents /\ events' = events + 1
Fine == UNCHANGED events

\* The configuration is read before the lock is taken.
Load(p) ==
    /\ Is(p, "off")
    /\ Becomes(p, [Off EXCEPT !.step = "loaded", !.config = disk])
    /\ UNCHANGED <<lock, applied, disk, bundle, events>>

AcquireInstanceLock(p) ==
    /\ Is(p, "loaded")
    /\ IF lock = Nobody
       THEN lock' = p /\ \E mode \in Mode : Becomes(p, [proc[p] EXCEPT !.step = "migrating", !.mode = mode])
       ELSE UNCHANGED lock /\ Becomes(p, Off)
    /\ UNCHANGED <<applied, disk, bundle, events>>

\* What a failing step gives back.
GiveUp(p) == lock' = Nobody /\ Becomes(p, Off)

\* A migration and its record are one transaction; a newer schema is refused.
Migrate(p) ==
    /\ Is(p, "migrating")
    /\ \/ applied > Supports[p] /\ GiveUp(p) /\ Fine /\ UNCHANGED applied
       \/ applied < Supports[p] /\ applied' = applied + 1 /\ Fine /\ UNCHANGED <<lock, proc>>
       \/ applied < Supports[p] /\ Happens /\ GiveUp(p) /\ UNCHANGED applied
       \/ /\ applied = Supports[p] /\ Fine
          /\ Becomes(p, [proc[p] EXCEPT !.step = "opened", !.opened = TRUE]) /\ UNCHANGED <<lock, applied>>
    /\ UNCHANGED <<disk, bundle>>

\* newRuntimeManager: a managed runtime when nothing else was configured, if it can
\* be installed.
NewManager(p, c) ==
    {[id |-> proc[p].manager.id + 1, config |-> c, managed |-> managed] :
        managed \in {FALSE} \cup (IF Settings[c].command \/ Settings[c].only # {} THEN {} ELSE {TRUE})}

\* NewWithOptions, up to the start of the workers; nobody else sees the parts yet.
Wire(p) ==
    /\ Is(p, "opened")
    /\ LET c == proc[p].config
       IN \/ Happens /\ GiveUp(p)
          \/ /\ Fine /\ UNCHANGED lock
             /\ \E m \in NewManager(p, c) :
                LET wired == SetLegacyOfficeRunner(SetRuntime(NewService(c), c, m, FALSE), c, m)
                    gated == ~m.managed
                IN Becomes(p, [proc[p] EXCEPT !.step = "wired", !.manager = m, !.running = {m.id},
                        !.gated = gated,
                        !.parts = IF gated THEN [wired EXCEPT !["ocr"] = OCR(c, m, TRUE)] ELSE wired])
    /\ UNCHANGED <<applied, disk, bundle>>

\* Operations.Start. The doctor recovers before it goes on, and looks around; the others
\* listen first.
Start(p) ==
    /\ Is(p, "wired")
    /\ \/ Happens /\ GiveUp(p)
       \/ /\ Fine /\ UNCHANGED lock
          /\ LET started == [proc[p] EXCEPT !.workers = TRUE]
             IN IF proc[p].mode = "doctor"
                THEN \E ended \in {"done", "failed"} :
                        Becomes(p, [started EXCEPT !.step = "up", !.recovery = ended])
                ELSE Becomes(p, [started EXCEPT !.step = "listening"])
    /\ UNCHANGED <<applied, disk, bundle>>

\* Once the listener is there, serve recovers and maintains, the extension recovers,
\* and mcp does neither. Without it the process closes what it opened.
Listen(p) ==
    /\ Is(p, "listening")
    /\ \/ Happens /\ Becomes(p, [proc[p] EXCEPT !.step = "closing"])
       \/ /\ Fine
          /\ Becomes(p, [proc[p] EXCEPT !.step = "up",
                    !.tasks = CASE proc[p].mode = "serve" -> {"recovery", "maintenance"}
                                [] proc[p].mode = "extension" -> {"recovery"}
                                [] OTHER -> {},
                    !.recovery = IF proc[p].mode = "mcp" THEN @ ELSE "running"])
    /\ UNCHANGED <<lock, applied, disk, bundle>>

-----------------------------------------------------------------------------
(* Running.                                                                 *)

\* A background task ends: it is through, it failed, or it was cancelled.
TaskEnds(p) ==
    /\ \E task \in proc[p].tasks, ended \in {"done", "failed"} :
        Becomes(p, [proc[p] EXCEPT !.tasks = @ \ {task},
                !.recovery = IF task = "recovery" THEN ended ELSE @])
    /\ UNCHANGED <<lock, applied, disk, bundle, events>>

\* A transaction of the writer.
Begin(p) ==
    /\ proc[p].workers /\ proc[p].opened /\ ~proc[p].writing
    /\ Becomes(p, [proc[p] EXCEPT !.writing = TRUE])
    /\ UNCHANGED <<lock, applied, disk, bundle, events>>

Commit(p) ==
    /\ proc[p].writing
    /\ Becomes(p, [proc[p] EXCEPT !.writing = FALSE])
    /\ UNCHANGED <<lock, applied, disk, bundle, events>>

\* The OCR model is downloaded or removed; nothing selects a helper anew.
Install ==
    /\ bundle' = ~bundle
    /\ \E p \in Process : Is(p, "up")
    /\ Happens
    /\ UNCHANGED <<lock, applied, disk, proc>>

\* HealthSnapshot: not while the recovery runs, nor after it failed.
Ready(p) ==
    /\ proc[p].recovery \notin {"running", "failed"}
    /\ proc[p].opened

Updating(p, step) == proc[p].update = step /\ Is(p, "up")

\* UpdateConfigWithContext: one at a time here (two at once may lose a manager).
SaveContext(p) ==
    /\ Updating(p, "none") /\ proc[p].updates < MaxUpdates[p]
    /\ \E c \in Config :
        /\ disk' = c
        /\ proc' = [q \in Process |->
                IF q = p THEN [proc[p] EXCEPT !.update = "saved", !.next = c, !.updates = @ + 1]
                ELSE IF Is(q, "loaded") THEN [proc[q] EXCEPT !.stale = TRUE] ELSE proc[q]]
    /\ UNCHANGED <<lock, applied, bundle, events>>

\* The old manager is closed; when that takes too long the old configuration stays.
CloseRuntime(p) ==
    /\ Updating(p, "saved")
    /\ \/ /\ Fine
          /\ Becomes(p, [proc[p] EXCEPT !.update = "closed", !.running = @ \ {proc[p].manager.id}])
       \/ /\ Happens
          /\ Becomes(p, [proc[p] EXCEPT !.update = "none", !.next = NoConfig, !.halfway = TRUE,
                    !.running = @ \ {proc[p].manager.id}])
    /\ UNCHANGED <<lock, applied, disk, bundle>>

InstallRuntime(p) ==
    /\ Updating(p, "closed")
    /\ \E m \in NewManager(p, proc[p].next) :
        Becomes(p, [proc[p] EXCEPT !.update = "installed", !.manager = m, !.running = @ \cup {m.id},
                !.parts = SetRuntime(@, proc[p].config, m, proc[p].gated)])
    /\ UNCHANGED <<lock, applied, disk, bundle, events>>

ApplyConfig(p) ==
    /\ Updating(p, "installed")
    /\ Becomes(p, [proc[p] EXCEPT !.update = "none", !.config = proc[p].next, !.next = NoConfig,
            !.halfway = FALSE, !.stale = FALSE,
            !.parts = SetGlobalConfig(@, proc[p].next, proc[p].manager, proc[p].gated)])
    /\ UNCHANGED <<lock, applied, disk, bundle, events>>

-----------------------------------------------------------------------------
(* Closing: every step waits for what it closes or for the deadline.        *)

Leave(p) ==
    /\ Is(p, "up") /\ proc[p].update = "none"       \* the listener has drained
    /\ Becomes(p, [proc[p] EXCEPT !.step = "closing"])
    /\ UNCHANGED <<lock, applied, disk, bundle, events>>

\* The context of the shutdown.
Deadline(p) ==
    /\ proc[p].step \in {"closing", "quiet", "stopped", "shut"} /\ ~proc[p].overdue
    /\ Happens
    /\ Becomes(p, [proc[p] EXCEPT !.overdue = TRUE])
    /\ UNCHANGED <<lock, applied, disk, bundle>>

WaitForTasks(p) ==
    /\ Is(p, "closing")
    /\ proc[p].tasks = {} \/ proc[p].overdue
    /\ Becomes(p, [proc[p] EXCEPT !.step = "quiet"])
    /\ UNCHANGED <<lock, applied, disk, bundle, events>>

StopOperations(p) ==
    /\ Is(p, "quiet")
    /\ ~proc[p].writing \/ proc[p].overdue
    /\ Becomes(p, [proc[p] EXCEPT !.step = "stopped", !.workers = proc[p].writing])
    /\ UNCHANGED <<lock, applied, disk, bundle, events>>

StopRuntime(p) ==
    /\ Is(p, "stopped")
    /\ Becomes(p, [proc[p] EXCEPT !.step = "shut", !.running = @ \ {proc[p].manager.id}])
    /\ UNCHANGED <<lock, applied, disk, bundle, events>>

\* DB.CloseWithContext: the writer first, then the handles, even too late. A transaction
\* in flight keeps its connection.
CloseDatabase(p) ==
    /\ Is(p, "shut")
    /\ ~proc[p].writing \/ proc[p].overdue
    /\ Becomes(p, [proc[p] EXCEPT !.step = "closed", !.opened = FALSE])
    /\ UNCHANGED <<lock, applied, disk, bundle, events>>

ReleaseLock(p) ==
    /\ Is(p, "closed")
    /\ lock' = Nobody
    /\ Becomes(p, [proc[p] EXCEPT !.step = "released"])
    /\ UNCHANGED <<applied, disk, bundle, events>>

\* main returns, and what was left running with it.
Exit(p) ==
    /\ Is(p, "released")
    /\ Becomes(p, Off)
    /\ UNCHANGED <<lock, applied, disk, bundle, events>>

Crash(p) ==
    /\ ~Is(p, "off") /\ Happens
    /\ lock' = IF lock = p THEN Nobody ELSE lock
    /\ Becomes(p, Off)
    /\ UNCHANGED <<applied, disk, bundle>>

Init ==
    /\ lock = Nobody /\ applied = 0 /\ bundle = FALSE /\ events = 0
    /\ disk \in Config
    /\ proc = [p \in Process |-> Off]

Opening(p) ==
    Load(p) \/ AcquireInstanceLock(p) \/ Migrate(p) \/ Wire(p) \/ Start(p) \/ Listen(p)

Running(p) ==
    \/ TaskEnds(p) \/ Begin(p) \/ Commit(p)
    \/ SaveContext(p) \/ CloseRuntime(p) \/ InstallRuntime(p) \/ ApplyConfig(p)

Closing(p) ==
    \/ Leave(p) \/ Deadline(p) \/ WaitForTasks(p) \/ StopOperations(p) \/ StopRuntime(p)
    \/ CloseDatabase(p) \/ ReleaseLock(p) \/ Exit(p) \/ Crash(p)

Next == Install \/ \E p \in Process : Opening(p) \/ Running(p) \/ Closing(p)

Spec == Init /\ [][Next]_vars

-----------------------------------------------------------------------------
TypeOK ==
    /\ lock \in Process \cup {Nobody}
    /\ applied \in Nat /\ disk \in Config /\ bundle \in BOOLEAN /\ events \in 0 .. MaxEvents
    /\ \A p \in Process :
        /\ proc[p].config \in Config \cup {NoConfig} /\ proc[p].running \subseteq Nat
        /\ proc[p].tasks \subseteq {"recovery", "maintenance"}

\* A data directory has one owner: who has the database open holds the lock, knows its
\* schema exactly, and a transaction ends before the lock is given away unless the
\* shutdown ran out of time (instance_lock.go, store.go:97-101).
OneOwner ==
    \A p \in Process :
        /\ proc[p].opened => lock = p /\ applied = Supports[p]
        /\ proc[p].writing => lock = p \/ proc[p].overdue
        /\ Ready(p) => lock = p

\* A process that is gone, or never came up, keeps nothing (app.go:96-151, 1197-1242).
NothingIsLeft ==
    \A p \in Process :
        /\ proc[p].step \in {"off", "loaded", "released"} => lock # p /\ ~proc[p].opened
        /\ Is(p, "released") => proc[p].running = {}
        /\ Is(p, "released") /\ ~proc[p].overdue => ~proc[p].workers /\ proc[p].tasks = {}

Settled(p) == Is(p, "up") /\ proc[p].update = "none" /\ ~proc[p].halfway

Overrides == [{"embedder", "reranker"} -> {"inherited", "remote", "local"}]

\* Between updates a process works with the configuration that is saved, and every
\* helper, whatever a base asks for, is of that configuration and of the one manager
\* that runs: a closed manager is never captured (app.go:689-692).
HelpersAreCurrent ==
    \A p \in Process : Settled(p) =>
        LET c == proc[p].config
            m == proc[p].manager
        IN /\ disk = c \/ proc[p].stale
           /\ proc[p].running = {m.id} /\ m.config = c
           /\ proc[p].parts["embedder"] = Embedder(c, m) /\ proc[p].parts["reranker"] = Reranker(c, m)
           /\ proc[p].parts["renderer"] = Renderer(c, m) /\ proc[p].parts["office"] = Office(c, m)
           /\ \A part \in {"content", "decoder"} : proc[p].parts[part] = Helper(c, part)
           /\ proc[p].parts["ocr"] \in {NoAdapter, Command(c), Through(m)}
           /\ \A overrides \in Overrides, part \in {"embedder", "reranker"} :
                BaseProviders(p, overrides)[part] \in {NoAdapter, Command(c), Through(m)}

\* All three.
DirectoryIsOwned == OneOwner /\ NothingIsLeft /\ HelpersAreCurrent

=============================================================================
