-------------------------- MODULE AppLifecycleProofs --------------------------
(***************************************************************************)
(* Proofs about the application. A data directory has one owner, a process  *)
(* leaves nothing behind, and the helpers in use are those of the           *)
(* configuration: for any processes, migrations, configurations, failures   *)
(* and crashes. And the commands about several documents that it executes   *)
(* do each of their items once, and all of them (BatchCommands).            *)
(***************************************************************************)
EXTENDS AppLifecycle, TLAPS

-----------------------------------------------------------------------------
\* The steps of a process that has the lock, and of one that has the database open.
Holding == {"migrating", "opened", "wired", "listening", "up",
            "closing", "quiet", "stopped", "shut", "closed"}
Opened == {"opened", "wired", "listening", "up", "closing", "quiet", "stopped", "shut"}
Steps == Holding \cup {"off", "loaded", "released"}

Part == {"embedder", "reranker", "renderer", "ocr", "office", "content", "decoder"}
Tasks == {"recovery", "maintenance"}
Names == Config \cup {NoConfig}
Adapter == [by : {"none", "command", "runtime"}, manager : Nat, config : Names]
Manager == [id : Nat, config : Names, managed : BOOLEAN]

State == [step : Steps, mode : Mode \cup {"none"}, config : Names, stale : BOOLEAN,
          opened : BOOLEAN, writing : BOOLEAN, workers : BOOLEAN,
          tasks : SUBSET Tasks, recovery : {"unstarted", "running", "done", "failed"},
          manager : Manager, running : SUBSET Nat, gated : BOOLEAN, parts : [Part -> Adapter],
          update : {"none", "saved", "closed", "installed"}, next : Names, updates : Nat,
          halfway : BOOLEAN, overdue : BOOLEAN]

Typed ==
    /\ lock \in Process \cup {Nobody} /\ applied \in Nat /\ disk \in Config
    /\ bundle \in BOOLEAN /\ events \in 0 .. MaxEvents
    /\ proc \in [Process -> State]

\* The helpers are those of configuration c and manager m.
Current(parts, c, m) ==
    /\ parts["embedder"] = Embedder(c, m) /\ parts["reranker"] = Reranker(c, m)
    /\ parts["renderer"] = Renderer(c, m) /\ parts["office"] = Office(c, m)
    /\ \A part \in {"content", "decoder"} : parts[part] = Helper(c, part)
    /\ parts["ocr"] \in {NoAdapter, Command(c), Through(m)}

(* What holds of a process p in state r, by what it has of the directory:   *)
(* the lock and the schema, ...                                             *)
Owns(p, r, holder, schema) ==
    /\ r.step \in Holding <=> holder = p
    /\ r.opened <=> r.step \in Opened
    /\ r.opened => schema = Supports[p]
    /\ r.writing => r.opened \/ r.overdue

\* ... what a shutdown that kept its deadline has stopped, ...
Stops(r) ==
    /\ r.running \subseteq {r.manager.id}
    /\ r.step \in {"shut", "closed", "released"} => r.running = {}
    /\ ~r.overdue /\ r.step \in {"quiet", "stopped", "shut", "closed", "released"} => r.tasks = {}
    /\ ~r.overdue /\ r.step \in {"stopped", "shut", "closed", "released"} => ~r.workers

\* ... and the configuration, also half-way through an update.
Follows(r, saved) ==
    /\ r.update # "none" => r.step = "up" /\ r.next = saved
    /\ r.update = "closed" => r.running = {}
    /\ r.update = "installed" => r.running = {r.manager.id} /\ r.manager.config = r.next
    /\ r.update = "none" /\ ~r.halfway =>
        /\ r.step \in {"loaded", "migrating", "opened", "wired", "listening", "up"} =>
            r.config = saved \/ r.stale
        /\ r.step \in {"wired", "listening", "up"} =>
            /\ r.running = {r.manager.id} /\ r.manager.config = r.config
            /\ Current(r.parts, r.config, r.manager)

Sound(p, r, holder, schema, saved) == Owns(p, r, holder, schema) /\ Stops(r) /\ Follows(r, saved)

LifecycleInv == Typed /\ \A p \in Process : Sound(p, proc[p], lock, applied, disk)

-----------------------------------------------------------------------------
(* Types.                                                                   *)

\* A process that is off is in a state.
LEMMA OffTyped == Off \in State
  <1>1. NoAdapter \in Adapter /\ NoManager \in Manager
    BY DEF NoAdapter, Adapter, NoManager, Manager, Names
  <1>2. [part \in Part |-> NoAdapter] \in [Part -> Adapter]
    BY <1>1
  <1>3. QED
    BY <1>1, <1>2 DEF Off, State, Steps, Names, Part, Tasks

\* A state keeps its type under each of the updates the steps make.
LEMMA FieldUpdates ==
    ASSUME NEW r \in State
    PROVE  /\ \A v \in Steps : [r EXCEPT !.step = v] \in State
           /\ \A v \in Mode \cup {"none"} : [r EXCEPT !.mode = v] \in State
           /\ \A v \in Names : [r EXCEPT !.config = v] \in State
           /\ \A v \in BOOLEAN : [r EXCEPT !.stale = v] \in State
           /\ \A v \in BOOLEAN : [r EXCEPT !.opened = v] \in State
           /\ \A v \in BOOLEAN : [r EXCEPT !.writing = v] \in State
           /\ \A v \in BOOLEAN : [r EXCEPT !.workers = v] \in State
           /\ \A v \in SUBSET Tasks : [r EXCEPT !.tasks = v] \in State
           /\ \A v \in {"unstarted", "running", "done", "failed"} : [r EXCEPT !.recovery = v] \in State
           /\ \A v \in Manager : [r EXCEPT !.manager = v] \in State
           /\ \A v \in SUBSET Nat : [r EXCEPT !.running = v] \in State
           /\ \A v \in BOOLEAN : [r EXCEPT !.gated = v] \in State
           /\ \A v \in [Part -> Adapter] : [r EXCEPT !.parts = v] \in State
           /\ \A v \in {"none", "saved", "closed", "installed"} : [r EXCEPT !.update = v] \in State
           /\ \A v \in Names : [r EXCEPT !.next = v] \in State
           /\ \A v \in Nat : [r EXCEPT !.updates = v] \in State
           /\ \A v \in BOOLEAN : [r EXCEPT !.halfway = v] \in State
           /\ \A v \in BOOLEAN : [r EXCEPT !.overdue = v] \in State
  <1>1. /\ \A v \in Steps : [r EXCEPT !.step = v] \in State
        /\ \A v \in Mode \cup {"none"} : [r EXCEPT !.mode = v] \in State
        /\ \A v \in Names : [r EXCEPT !.config = v] \in State
    BY DEF State
  <1>2. /\ \A v \in BOOLEAN : [r EXCEPT !.stale = v] \in State
        /\ \A v \in BOOLEAN : [r EXCEPT !.opened = v] \in State
        /\ \A v \in BOOLEAN : [r EXCEPT !.writing = v] \in State
    BY DEF State
  <1>3. /\ \A v \in BOOLEAN : [r EXCEPT !.workers = v] \in State
        /\ \A v \in SUBSET Tasks : [r EXCEPT !.tasks = v] \in State
        /\ \A v \in {"unstarted", "running", "done", "failed"} : [r EXCEPT !.recovery = v] \in State
    BY DEF State
  <1>4. /\ \A v \in Manager : [r EXCEPT !.manager = v] \in State
        /\ \A v \in SUBSET Nat : [r EXCEPT !.running = v] \in State
        /\ \A v \in BOOLEAN : [r EXCEPT !.gated = v] \in State
    BY DEF State
  <1>5. /\ \A v \in [Part -> Adapter] : [r EXCEPT !.parts = v] \in State
        /\ \A v \in {"none", "saved", "closed", "installed"} : [r EXCEPT !.update = v] \in State
        /\ \A v \in Names : [r EXCEPT !.next = v] \in State
    BY DEF State
  <1>6. /\ \A v \in Nat : [r EXCEPT !.updates = v] \in State
        /\ \A v \in BOOLEAN : [r EXCEPT !.halfway = v] \in State
        /\ \A v \in BOOLEAN : [r EXCEPT !.overdue = v] \in State
    BY DEF State
  <1>7. QED
    BY <1>1, <1>2, <1>3, <1>4, <1>5, <1>6

\* A process that is off and has not the lock satisfies the invariant.
LEMMA OffSound ==
    ASSUME NEW p, NEW holder, NEW schema, NEW saved, holder # p
    PROVE  Sound(p, Off, holder, schema, saved)
  BY DEF Off, Sound, Owns, Stops, Follows, Holding, Opened

(* A step of p that leaves the configuration file alone keeps the invariant  *)
(* of the other processes when what it changes of the lock and the schema    *)
(* does not concern who has the lock.                                       *)
LEMMA StepSound ==
    ASSUME LifecycleAssumption, LifecycleInv, NEW p \in Process, NEW r \in State, Becomes(p, r),
           Sound(p, r, lock', applied', disk), disk' = disk,
           lock' \in Process \cup {Nobody}, applied' \in Nat,
           bundle' = bundle, events' \in 0 .. MaxEvents,
           \/ lock' = lock /\ applied' = applied
           \/ lock \in {p, Nobody} /\ lock' \in {p, Nobody}
    PROVE  LifecycleInv'
  <1>1. proc' \in [Process -> State] /\ proc'[p] = r
        /\ \A q \in Process \ {p} : proc'[q] = proc[q]
    BY DEF Becomes, LifecycleInv, Typed
  <1>2. ASSUME NEW q \in Process \ {p} PROVE Sound(q, proc[q], lock', applied', disk)
    <2>1. Sound(q, proc[q], lock, applied, disk)
      BY DEF LifecycleInv
    <2>2. CASE lock' = lock /\ applied' = applied
      BY <2>1, <2>2
    <2>3. CASE lock # q /\ lock' # q
      <3>1. proc[q].step \notin Holding /\ ~proc[q].opened
        BY <2>1, <2>3 DEF Sound, Owns, Holding, Opened
      <3>2. Owns(q, proc[q], lock', applied')
        BY <2>1, <2>3, <3>1 DEF Sound, Owns
      <3>3. QED
        BY <2>1, <3>2 DEF Sound
    <2>4. QED
      BY <2>2, <2>3 DEF LifecycleAssumption
  <1>3. Typed'
    BY <1>1 DEF LifecycleInv, Typed
  <1>4. QED
    BY <1>1, <1>2, <1>3 DEF LifecycleInv

\* What a failing step gives back is enough.
LEMMA GiveUpSound ==
    ASSUME LifecycleAssumption, LifecycleInv, NEW p \in Process, GiveUp(p), lock = p,
           disk' = disk, applied' = applied, bundle' = bundle, events' \in 0 .. MaxEvents
    PROVE  LifecycleInv'
  <1>1. lock' = Nobody /\ Becomes(p, Off) /\ Nobody # p
    BY DEF GiveUp, LifecycleAssumption
  <1>2. Sound(p, Off, lock', applied', disk)
    BY <1>1, OffSound
  <1>3. applied' \in Nat
    BY DEF LifecycleInv, Typed
  <1>4. QED
    BY <1>1, <1>2, <1>3, OffTyped, StepSound

\* The failures that are counted stay within their bound.
LEMMA Counted ==
    ASSUME LifecycleAssumption, LifecycleInv, Happens \/ Fine
    PROVE  events' \in 0 .. MaxEvents
  BY DEF LifecycleAssumption, LifecycleInv, Typed, Happens, Fine

-----------------------------------------------------------------------------
(* Starting.                                                                *)

\* Two states of a process with the same fields.
Same(r, s, fields) == \A f \in fields : r[f] = s[f]

\* What the invariant says of one process.
LEMMA HereFacts ==
    ASSUME LifecycleInv, NEW p \in Process
    PROVE  /\ proc[p] \in State /\ Sound(p, proc[p], lock, applied, disk)
           /\ lock \in Process \cup {Nobody} /\ applied \in Nat /\ disk \in Config
           /\ events \in 0 .. MaxEvents
  BY DEF LifecycleInv, Typed

\* Reading the configuration.
LEMMA LoadSound ==
    ASSUME LifecycleAssumption, LifecycleInv, NEW p \in Process, Load(p)
    PROVE  LifecycleInv'
  <1>. DEFINE r == [Off EXCEPT !.step = "loaded", !.config = disk]
  <1>1. /\ Becomes(p, r) /\ proc[p].step = "off" /\ lock' = lock /\ applied' = applied
        /\ disk' = disk /\ bundle' = bundle /\ events' = events
    BY DEF Load, Is
  <1>2. lock # p
    BY <1>1, HereFacts DEF Sound, Owns, Holding
  <1>3. r \in State
    BY OffTyped, HereFacts DEF State, Steps, Names
  <1>4. Sound(p, r, lock, applied, disk)
    BY <1>2 DEF Off, Sound, Owns, Stops, Follows, Holding, Opened
  <1>. HIDE DEF r
  <1>5. QED
    BY <1>1, <1>3, <1>4, StepSound, HereFacts

\* Taking the lock, or finding it taken.
LEMMA AcquireSound ==
    ASSUME LifecycleAssumption, LifecycleInv, NEW p \in Process, AcquireInstanceLock(p)
    PROVE  LifecycleInv'
  <1>1. /\ proc[p].step = "loaded" /\ applied' = applied /\ disk' = disk
        /\ bundle' = bundle /\ events' = events
    BY DEF AcquireInstanceLock, Is
  <1>2. CASE lock # Nobody
    <2>1. Becomes(p, Off) /\ lock' = lock
      BY <1>2 DEF AcquireInstanceLock
    <2>2. lock # p
      BY <1>1, HereFacts DEF Sound, Owns, Holding
    <2>3. Sound(p, Off, lock', applied', disk)
      BY <2>1, <2>2, OffSound
    <2>4. QED
      BY <1>1, <2>1, <2>3, OffTyped, StepSound, HereFacts
  <1>3. CASE lock = Nobody
    <2>1. PICK mode \in Mode : Becomes(p, [proc[p] EXCEPT !.step = "migrating", !.mode = mode])
      BY <1>3 DEF AcquireInstanceLock
    <2>. DEFINE r == [proc[p] EXCEPT !.step = "migrating", !.mode = mode]
    <2>2. lock' = p
      BY <1>3 DEF AcquireInstanceLock
    <2>3. r \in State
      BY HereFacts, FieldUpdates DEF Steps, Holding
    <2>4. /\ r.step = "migrating" /\ Becomes(p, r)
          /\ Same(r, proc[p], {"config", "stale", "opened", "writing", "workers", "tasks",
                               "manager", "running", "parts", "update", "next", "halfway", "overdue"})
      BY <2>1, HereFacts DEF State, Same
    <2>. HIDE DEF r
    <2>5. Owns(p, r, p, applied) /\ Stops(r)
      BY <1>1, <2>4, HereFacts DEF Same, Sound, Owns, Stops, Holding, Opened
    <2>6. Follows(r, disk)
      BY <1>1, <2>4, HereFacts DEF Same, Sound, Follows
    <2>7. QED
      BY <1>1, <1>3, <2>2, <2>3, <2>4, <2>5, <2>6, StepSound, HereFacts DEF Sound
  <1>4. QED
    BY <1>2, <1>3

\* A migration, the last one, or a schema that is refused.
LEMMA MigrateSound ==
    ASSUME LifecycleAssumption, LifecycleInv, NEW p \in Process, Migrate(p)
    PROVE  LifecycleInv'
  <1>1. /\ proc[p].step = "migrating" /\ disk' = disk /\ bundle' = bundle
        /\ events' \in 0 .. MaxEvents
    BY Counted DEF Migrate, Is
  <1>2. lock = p /\ ~proc[p].opened
    BY <1>1, HereFacts DEF Sound, Owns, Holding, Opened
  <1>3. CASE GiveUp(p) /\ applied' = applied
    BY <1>1, <1>2, <1>3, GiveUpSound
  <1>4. CASE applied < Supports[p] /\ applied' = applied + 1 /\ UNCHANGED <<lock, proc>>
    <2>. DEFINE r == proc[p]
    <2>1. Becomes(p, r)
      BY <1>4 DEF Becomes, LifecycleInv, Typed
    <2>2. Sound(p, r, lock', applied', disk)
      BY <1>2, <1>4, HereFacts DEF Sound, Owns
    <2>3. r \in State /\ lock' = p /\ applied' \in Nat
      BY <1>2, <1>4, HereFacts
    <2>. HIDE DEF r
    <2>4. QED
      BY <1>1, <1>2, <2>1, <2>2, <2>3, StepSound
  <1>5. CASE /\ applied = Supports[p] /\ UNCHANGED <<lock, applied>>
             /\ Becomes(p, [proc[p] EXCEPT !.step = "opened", !.opened = TRUE])
    <2>. DEFINE r == [proc[p] EXCEPT !.step = "opened", !.opened = TRUE]
    <2>1. r \in State
      BY HereFacts, FieldUpdates DEF Steps, Holding
    <2>2. /\ r.step = "opened" /\ r.opened /\ Becomes(p, r) /\ lock' = lock /\ applied' = applied
          /\ Same(r, proc[p], {"config", "stale", "writing", "workers", "tasks",
                               "manager", "running", "parts", "update", "next", "halfway", "overdue"})
      BY <1>5, HereFacts DEF State, Same
    <2>. HIDE DEF r
    <2>3. Owns(p, r, p, applied) /\ Stops(r)
      BY <1>1, <1>5, <2>2, HereFacts DEF Same, Sound, Owns, Stops, Holding, Opened
    <2>4. Follows(r, disk)
      BY <1>1, <2>2, HereFacts DEF Same, Sound, Follows
    <2>5. QED
      BY <1>1, <1>2, <2>1, <2>2, <2>3, <2>4, StepSound, HereFacts DEF Sound
  <1>6. QED
    BY <1>3, <1>4, <1>5 DEF Migrate
-----------------------------------------------------------------------------
(* What the helpers are made of.                                            *)

\* A helper is missing, a command of the configuration, or a call through the manager.
LEMMA AdapterTyped ==
    ASSUME NEW c \in Names, NEW m \in Manager
    PROVE  /\ NoAdapter \in Adapter /\ Command(c) \in Adapter /\ Through(m) \in Adapter
           /\ Embedder(c, m) \in {NoAdapter, Command(c), Through(m)}
           /\ Reranker(c, m) \in {NoAdapter, Command(c), Through(m)}
           /\ Renderer(c, m) \in {NoAdapter, Command(c), Through(m)}
           /\ Office(c, m) \in {NoAdapter, Command(c), Through(m)}
           /\ \A gated : OCR(c, m, gated) \in {NoAdapter, Command(c), Through(m)}
           /\ \A name : Helper(c, name) \in {NoAdapter, Command(c)}
  <1>1. NoAdapter \in Adapter /\ Command(c) \in Adapter /\ Through(m) \in Adapter
    BY DEF NoAdapter, Command, Through, Adapter, Manager, Names
  <1>2. /\ Embedder(c, m) \in {NoAdapter, Command(c), Through(m)}
        /\ Reranker(c, m) \in {NoAdapter, Command(c), Through(m)}
    BY DEF Embedder, Reranker
  <1>3. /\ Renderer(c, m) \in {NoAdapter, Command(c), Through(m)}
        /\ Office(c, m) \in {NoAdapter, Command(c), Through(m)}
    BY DEF Renderer, Office
  <1>4. /\ \A gated : OCR(c, m, gated) \in {NoAdapter, Command(c), Through(m)}
        /\ \A name : Helper(c, name) \in {NoAdapter, Command(c)}
    BY DEF OCR, Helper
  <1>5. QED
    BY <1>1, <1>2, <1>3, <1>4

\* Providers are replaced, whatever was there.
LEMMA ProvidersSet ==
    ASSUME NEW c \in Names, NEW m \in Manager, NEW parts \in [Part -> Adapter]
    PROVE  LET made == Providers(parts, c, m) IN
           /\ made \in [Part -> Adapter]
           /\ made["embedder"] = Embedder(c, m) /\ made["reranker"] = Reranker(c, m)
           /\ \A part \in Part \ {"embedder", "reranker"} : made[part] = parts[part]
  <1>1. Embedder(c, m) \in Adapter /\ Reranker(c, m) \in Adapter
    BY AdapterTyped
  <1>2. QED
    BY <1>1 DEF Providers, Part

\* The parts of a new service are those of its configuration.
LEMMA ServiceParts ==
    ASSUME NEW c \in Names
    PROVE  /\ NewService(c) \in [Part -> Adapter]
           /\ \A part \in {"renderer", "office", "content", "decoder"} :
                NewService(c)[part] = Helper(c, part)
  <1>. DEFINE made == Providers(Off.parts, c, NoManager)
  <1>1. NoManager \in Manager /\ Off.parts \in [Part -> Adapter]
    BY OffTyped DEF State, NoManager, Manager, Names
  <1>2. made \in [Part -> Adapter]
    BY <1>1, ProvidersSet
  <1>. DEFINE recogniser == OCR(c, NoManager, FALSE)
  <1>3. /\ Helper(c, "renderer") \in Adapter /\ Helper(c, "office") \in Adapter
        /\ Helper(c, "content") \in Adapter /\ Helper(c, "decoder") \in Adapter
        /\ recogniser \in Adapter
    <2>1. recogniser \in {NoAdapter, Command(c), Through(NoManager)}
      BY <1>1, AdapterTyped, Zenon
    <2>. HIDE DEF recogniser
    <2>2. QED
      BY <1>1, <2>1, AdapterTyped
  <1>4. NewService(c) = [made EXCEPT
            !["renderer"] = Helper(c, "renderer"), !["ocr"] = recogniser,
            !["office"] = Helper(c, "office"), !["content"] = Helper(c, "content"),
            !["decoder"] = Helper(c, "decoder")]
    BY DEF NewService
  <1>. HIDE DEF made, recogniser
  <1>5. /\ NewService(c) \in [Part -> Adapter]
        /\ NewService(c)["renderer"] = Helper(c, "renderer")
        /\ NewService(c)["office"] = Helper(c, "office")
        /\ NewService(c)["content"] = Helper(c, "content")
        /\ NewService(c)["decoder"] = Helper(c, "decoder")
    BY <1>2, <1>3, <1>4 DEF Part
  <1>6. QED
    BY <1>5

\* SetRuntime leaves office, content and decoder alone.
RuntimeSet(set, parts, c, m, gated) ==
    /\ set \in [Part -> Adapter]
    /\ set["embedder"] = Embedder(c, m) /\ set["reranker"] = Reranker(c, m)
    /\ set["renderer"] = IF "renderer" \in Settings[c].helpers THEN parts["renderer"]
                         ELSE Renderer(c, m)
    /\ set["ocr"] = OCR(c, m, gated)
    /\ \A part \in {"office", "content", "decoder"} : set[part] = parts[part]

LEMMA RuntimeParts ==
    ASSUME NEW c \in Names, NEW m \in Manager, NEW gated, NEW parts \in [Part -> Adapter]
    PROVE  RuntimeSet(SetRuntime(parts, c, m, gated), parts, c, m, gated)
  <1>. DEFINE made == Providers(parts, c, m)
  <1>1. /\ made \in [Part -> Adapter]
        /\ made["embedder"] = Embedder(c, m) /\ made["reranker"] = Reranker(c, m)
        /\ \A part \in Part \ {"embedder", "reranker"} : made[part] = parts[part]
    BY ProvidersSet
  <1>2. OCR(c, m, gated) \in Adapter /\ Renderer(c, m) \in Adapter
    BY AdapterTyped
  <1>3. SetRuntime(parts, c, m, gated) =
            [made EXCEPT !["renderer"] = IF "renderer" \in Settings[c].helpers
                                         THEN @ ELSE Renderer(c, m),
                         !["ocr"] = OCR(c, m, gated)]
    BY DEF SetRuntime
  <1>. HIDE DEF made
  <1>4. QED
    BY <1>1, <1>2, <1>3 DEF RuntimeSet, Part

\* Helpers of the right type and of one configuration and manager.
Fitting(parts, c, m) == parts \in [Part -> Adapter] /\ Current(parts, c, m)

\* The helpers that NewWithOptions installs, with or without the OCR artifact.
LEMMA WiredParts ==
    ASSUME NEW c \in Names, NEW m \in Manager
    PROVE  LET wired == SetLegacyOfficeRunner(SetRuntime(NewService(c), c, m, FALSE), c, m) IN
           Fitting(wired, c, m) /\ Fitting([wired EXCEPT !["ocr"] = OCR(c, m, TRUE)], c, m)
  <1>. DEFINE new == NewService(c)
              set == SetRuntime(new, c, m, FALSE)
              wired == SetLegacyOfficeRunner(set, c, m)
  <1>1. /\ set \in [Part -> Adapter]
        /\ set["embedder"] = Embedder(c, m) /\ set["reranker"] = Reranker(c, m)
        /\ set["renderer"] = IF "renderer" \in Settings[c].helpers
                             THEN Helper(c, "renderer") ELSE Renderer(c, m)
        /\ set["ocr"] = OCR(c, m, FALSE)
        /\ \A part \in {"office", "content", "decoder"} : set[part] = Helper(c, part)
    <2>1. /\ new \in [Part -> Adapter]
          /\ \A part \in {"renderer", "office", "content", "decoder"} : new[part] = Helper(c, part)
      BY ServiceParts
    <2>. HIDE DEF new
    <2>2. RuntimeSet(set, new, c, m, FALSE)
      BY <2>1, RuntimeParts, Zenon
    <2>. HIDE DEF set
    <2>3. QED
      BY <2>1, <2>2 DEF RuntimeSet
  <1>. HIDE DEF set
  <1>2. set["renderer"] = Renderer(c, m)
    BY <1>1 DEF Helper, Renderer
  <1>3. Office(c, m) \in Adapter /\ OCR(c, m, TRUE) \in Adapter
    BY AdapterTyped
  <1>4. /\ wired \in [Part -> Adapter] /\ wired["office"] = Office(c, m)
        /\ \A part \in Part \ {"office"} : wired[part] = set[part]
    <2>1. CASE "office" \in Settings[c].helpers
      BY <1>1, <2>1 DEF SetLegacyOfficeRunner, Office, Helper
    <2>2. CASE "office" \notin Settings[c].helpers
      BY <1>1, <1>3, <2>2 DEF SetLegacyOfficeRunner, Part
    <2>3. QED
      BY <2>1, <2>2
  <1>. HIDE DEF wired
  <1>5. \A gated : OCR(c, m, gated) \in {NoAdapter, Command(c), Through(m)}
    BY AdapterTyped
  <1>6. wired \in [Part -> Adapter] /\ Current(wired, c, m)
    BY <1>1, <1>2, <1>4, <1>5 DEF Current, Part
  <1>7. ASSUME NEW parts, parts = [wired EXCEPT !["ocr"] = OCR(c, m, TRUE)]
        PROVE  parts \in [Part -> Adapter] /\ Current(parts, c, m)
    <2>1. /\ parts \in [Part -> Adapter] /\ parts["ocr"] = OCR(c, m, TRUE)
          /\ \A part \in Part \ {"ocr"} : parts[part] = wired[part]
      BY <1>3, <1>6, <1>7 DEF Part
    <2>2. QED
      BY <1>5, <1>6, <2>1 DEF Current, Part
  <1>8. QED
    BY <1>6, <1>7 DEF wired, set, Fitting

\* The helpers after an update are those of the new configuration, all of them.
LEMMA UpdatedParts ==
    ASSUME NEW c \in Names, NEW m \in Manager, NEW gated, NEW parts \in [Part -> Adapter]
    PROVE  /\ SetGlobalConfig(parts, c, m, gated) \in [Part -> Adapter]
           /\ Current(SetGlobalConfig(parts, c, m, gated), c, m)
  <1>. DEFINE made == Providers(parts, c, m)
              all == SetGlobalConfig(parts, c, m, gated)
  <1>1. /\ made \in [Part -> Adapter]
        /\ made["embedder"] = Embedder(c, m) /\ made["reranker"] = Reranker(c, m)
    BY ProvidersSet
  <1>2. /\ Renderer(c, m) \in Adapter /\ OCR(c, m, gated) \in Adapter /\ Office(c, m) \in Adapter
        /\ \A name : Helper(c, name) \in Adapter
        /\ OCR(c, m, gated) \in {NoAdapter, Command(c), Through(m)}
    BY AdapterTyped
  <1>3. all = [made EXCEPT
            !["renderer"] = Renderer(c, m), !["ocr"] = OCR(c, m, gated), !["office"] = Office(c, m),
            !["content"] = Helper(c, "content"), !["decoder"] = Helper(c, "decoder")]
    BY DEF SetGlobalConfig
  <1>. HIDE DEF made, all
  <1>4. /\ all \in [Part -> Adapter]
        /\ all["embedder"] = Embedder(c, m) /\ all["reranker"] = Reranker(c, m)
        /\ all["renderer"] = Renderer(c, m) /\ all["ocr"] = OCR(c, m, gated)
        /\ all["office"] = Office(c, m)
        /\ all["content"] = Helper(c, "content") /\ all["decoder"] = Helper(c, "decoder")
    BY <1>1, <1>2, <1>3 DEF Part
  <1>5. Current(all, c, m)
    BY <1>2, <1>4 DEF Current
  <1>6. QED
    BY <1>4, <1>5 DEF all

\* A new manager is of the configuration it is made for.
LEMMA ManagerMade ==
    ASSUME NEW p, NEW c \in Names, proc[p].manager \in Manager, NEW m \in NewManager(p, c)
    PROVE  m \in Manager /\ m.config = c
  <1>1. PICK managed \in BOOLEAN :
            m = [id |-> proc[p].manager.id + 1, config |-> c, managed |-> managed]
    BY DEF NewManager
  <1>2. proc[p].manager.id + 1 \in Nat
    BY DEF Manager
  <1>3. QED
    BY <1>1, <1>2 DEF Manager
-----------------------------------------------------------------------------
(* The steps that leave the lock, the schema and the file alone.            *)

\* ... and keep the invariant of the process that makes them.
LEMMA LocalSound ==
    ASSUME LifecycleAssumption, LifecycleInv, NEW p \in Process, NEW r \in State, Becomes(p, r),
           UNCHANGED <<lock, applied, disk, bundle>>, Happens \/ Fine,
           Owns(p, r, lock, applied), Stops(r), Follows(r, disk)
    PROVE  LifecycleInv'
  <1>1. Sound(p, r, lock', applied', disk)
    BY DEF Sound
  <1>2. /\ lock' = lock /\ applied' = applied /\ disk' = disk /\ bundle' = bundle
        /\ lock' \in Process \cup {Nobody} /\ applied' \in Nat /\ events' \in 0 .. MaxEvents
    BY HereFacts, Counted
  <1>3. QED
    BY <1>1, <1>2, StepSound

\* The steps with the lock and the steps without it.
LEMMA StepNames ==
    /\ Holding \subseteq Steps /\ Opened \subseteq Holding /\ {"off", "loaded", "released"} \subseteq Steps
    /\ Holding \cap {"off", "loaded", "released"} = {}
  BY DEF Steps, Holding, Opened

\* NewWithOptions.
LEMMA WireSound ==
    ASSUME LifecycleAssumption, LifecycleInv, NEW p \in Process, Wire(p)
    PROVE  LifecycleInv'
  <1>1. proc[p].step = "opened" /\ UNCHANGED <<applied, disk, bundle>>
    BY DEF Wire, Is
  <1>2. lock = p /\ proc[p].opened /\ proc[p].update = "none"
    BY <1>1, HereFacts DEF Sound, Owns, Follows, Holding, Opened
  <1>3. CASE Happens /\ GiveUp(p)
    BY <1>1, <1>2, <1>3, Counted, GiveUpSound
  <1>. DEFINE c == proc[p].config
              wired(m) == SetLegacyOfficeRunner(SetRuntime(NewService(c), c, m, FALSE), c, m)
              result(m) == IF ~m.managed THEN [wired(m) EXCEPT !["ocr"] = OCR(c, m, TRUE)] ELSE wired(m)
  <1>4. CASE /\ Fine /\ UNCHANGED lock
             /\ \E m \in NewManager(p, c) :
                    Becomes(p, [proc[p] EXCEPT !.step = "wired", !.manager = m, !.running = {m.id},
                                    !.gated = ~m.managed, !.parts = result(m)])
    <2>1. PICK m \in NewManager(p, c) :
            Becomes(p, [proc[p] EXCEPT !.step = "wired", !.manager = m, !.running = {m.id},
                            !.gated = ~m.managed, !.parts = result(m)])
      BY <1>4
    <2>2. c \in Names /\ proc[p].manager \in Manager
      BY HereFacts DEF State
    <2>3. m \in Manager /\ m.config = c
      BY <2>2, ManagerMade
    <2>4. Fitting(result(m), c, m)
      <3>1. result(m) = wired(m) \/ result(m) = [wired(m) EXCEPT !["ocr"] = OCR(c, m, TRUE)]
        OBVIOUS
      <3>2. Fitting(wired(m), c, m) /\ Fitting([wired(m) EXCEPT !["ocr"] = OCR(c, m, TRUE)], c, m)
        <4>. HIDE DEF c
        <4>. QED
          BY <2>2, <2>3, WiredParts, Zenon
      <3>. HIDE DEF c, result, wired
      <3>3. QED
        BY <3>1, <3>2
    <2>5. m.id \in Nat /\ m.managed \in BOOLEAN
      BY <2>3 DEF Manager
    <2>. HIDE DEF result
    <2>. DEFINE gate == ~m.managed
                s == [proc[p] EXCEPT !.step = "wired", !.manager = m, !.running = {m.id}]
                r == [s EXCEPT !.gated = gate, !.parts = result(m)]
    <2>6. gate \in BOOLEAN /\ Becomes(p, r)
      BY <2>1
    <2>. HIDE DEF gate
    <2>7. s \in State /\ r \in State
      <3>1. s \in State
        <4>1. "wired" \in Steps /\ {m.id} \in SUBSET Nat
          BY <2>5 DEF Steps, Holding
        <4>2. proc[p] \in State
          BY HereFacts
        <4>3. QED
          BY <2>3, <4>1, <4>2, FieldUpdates
      <3>. HIDE DEF s
      <3>2. QED
        BY <2>4, <2>6, <3>1, FieldUpdates DEF Fitting
    <2>8. /\ r.step = "wired" /\ r.manager = m /\ r.running = {m.id} /\ r.parts = result(m)
          /\ Same(r, proc[p], {"config", "opened", "stale", "writing", "workers", "tasks",
                               "update", "next", "halfway", "overdue"})
      BY HereFacts DEF State, Same
    <2>. HIDE DEF r
    <2>9. Owns(p, r, lock, applied) /\ Stops(r)
      BY <1>1, <1>2, <2>8, HereFacts DEF Same, Sound, Owns, Stops, Holding, Opened
    <2>10. Follows(r, disk)
      BY <1>1, <1>2, <2>3, <2>4, <2>8, HereFacts DEF Same, Sound, Follows, Fitting
    <2>11. QED
      BY <1>1, <1>4, <2>6, <2>7, <2>9, <2>10, LocalSound
  <1>5. QED
    BY <1>3, <1>4, Zenon DEF Wire

\* The workers start; a doctor is up.
LEMMA StartSound ==
    ASSUME LifecycleAssumption, LifecycleInv, NEW p \in Process, Start(p)
    PROVE  LifecycleInv'
  <1>1. proc[p].step = "wired" /\ UNCHANGED <<applied, disk, bundle>>
    BY DEF Start, Is
  <1>2. lock = p /\ proc[p].update = "none"
    BY <1>1, HereFacts DEF Sound, Owns, Follows, Holding
  <1>3. CASE Happens /\ GiveUp(p)
    BY <1>1, <1>2, <1>3, Counted, GiveUpSound
  <1>. DEFINE started == [proc[p] EXCEPT !.workers = TRUE]
  <1>4. ASSUME Fine, UNCHANGED lock, NEW ended \in {"done", "failed"},
               Becomes(p, [started EXCEPT !.step = "up", !.recovery = ended])
        PROVE  LifecycleInv'
    <2>. DEFINE r == [started EXCEPT !.step = "up", !.recovery = ended]
    <2>1. Becomes(p, r) /\ UNCHANGED <<lock, applied, disk, bundle>> /\ (Happens \/ Fine)
      BY <1>1, <1>4 DEF Fine
    <2>2. r \in State
      BY HereFacts, FieldUpdates, StepNames DEF Holding
    <2>3. /\ r.step = "up"
          /\ Same(r, proc[p], {"config", "stale", "opened", "writing", "tasks",
                                 "manager", "running", "parts", "update", "next",
                                 "halfway", "overdue"})
      BY HereFacts DEF State, Same
    <2>. HIDE DEF r
    <2>4. Owns(p, r, lock, applied) /\ Stops(r)
      BY <1>1, <1>2, <2>3, HereFacts DEF Same, Sound, Owns, Stops, Holding, Opened
    <2>5. Follows(r, disk)
      BY <1>1, <1>2, <2>3, HereFacts DEF Same, Sound, Follows
    <2>6. QED
      BY <2>1, <2>2, <2>4, <2>5, LocalSound
  <1>5. ASSUME Fine, UNCHANGED lock, Becomes(p, [started EXCEPT !.step = "listening"])
        PROVE  LifecycleInv'
    <2>. DEFINE r == [started EXCEPT !.step = "listening"]
    <2>1. Becomes(p, r) /\ UNCHANGED <<lock, applied, disk, bundle>> /\ (Happens \/ Fine)
      BY <1>1, <1>5 DEF Fine
    <2>2. r \in State
      BY HereFacts, FieldUpdates, StepNames DEF Holding
    <2>3. /\ r.step = "listening"
          /\ Same(r, proc[p], {"config", "stale", "opened", "writing", "tasks",
                                 "manager", "running", "parts", "update", "next",
                                 "halfway", "overdue"})
      BY HereFacts DEF State, Same
    <2>. HIDE DEF r
    <2>4. Owns(p, r, lock, applied) /\ Stops(r)
      BY <1>1, <1>2, <2>3, HereFacts DEF Same, Sound, Owns, Stops, Holding, Opened
    <2>5. Follows(r, disk)
      BY <1>1, <1>2, <2>3, HereFacts DEF Same, Sound, Follows
    <2>6. QED
      BY <2>1, <2>2, <2>4, <2>5, LocalSound
  <1>6. QED
    BY <1>3, <1>4, <1>5, Zenon DEF Start

\* The listener is there, or the process goes down again.
LEMMA ListenSound ==
    ASSUME LifecycleAssumption, LifecycleInv, NEW p \in Process, Listen(p)
    PROVE  LifecycleInv'
  <1>1. proc[p].step = "listening" /\ UNCHANGED <<lock, applied, disk, bundle>>
    BY DEF Listen, Is
  <1>2. lock = p /\ proc[p].update = "none"
    BY <1>1, HereFacts DEF Sound, Owns, Follows, Holding
  <1>3. ASSUME Happens, Becomes(p, [proc[p] EXCEPT !.step = "closing"])
        PROVE  LifecycleInv'
    <2>. DEFINE r == [proc[p] EXCEPT !.step = "closing"]
    <2>1. Becomes(p, r) /\ UNCHANGED <<lock, applied, disk, bundle>> /\ (Happens \/ Fine)
      BY <1>1, <1>3 DEF Happens
    <2>2. r \in State
      BY HereFacts, FieldUpdates, StepNames DEF Holding
    <2>3. /\ r.step = "closing"
          /\ Same(r, proc[p], {"config", "stale", "opened", "writing", "workers",
                                 "tasks", "manager", "running", "parts", "update", "next",
                                 "halfway", "overdue"})
      BY HereFacts DEF State, Same
    <2>. HIDE DEF r
    <2>4. Owns(p, r, lock, applied) /\ Stops(r)
      BY <1>1, <1>2, <2>3, HereFacts DEF Same, Sound, Owns, Stops, Holding, Opened
    <2>5. Follows(r, disk)
      BY <1>1, <1>2, <2>3, HereFacts DEF Same, Sound, Follows
    <2>6. QED
      BY <2>1, <2>2, <2>4, <2>5, LocalSound
  <1>4. ASSUME Fine, NEW begun \in SUBSET Tasks, NEW recovery \in {proc[p].recovery, "running"},
               Becomes(p, [proc[p] EXCEPT !.step = "up", !.tasks = begun, !.recovery = recovery])
        PROVE  LifecycleInv'
    <2>1. recovery \in {"unstarted", "running", "done", "failed"}
      BY <1>4, HereFacts DEF State
    <2>. DEFINE r == [proc[p] EXCEPT !.step = "up", !.tasks = begun, !.recovery = recovery]
    <2>2. Becomes(p, r) /\ UNCHANGED <<lock, applied, disk, bundle>> /\ (Happens \/ Fine)
      BY <1>1, <1>4 DEF Fine
    <2>3. r \in State
      BY <1>4, <2>1, HereFacts, FieldUpdates, StepNames DEF Holding
    <2>4. /\ r.step = "up" /\ r.tasks = begun
          /\ Same(r, proc[p], {"config", "stale", "opened", "writing", "workers",
                                 "manager", "running", "parts", "update", "next",
                                 "halfway", "overdue"})
      BY HereFacts DEF State, Same
    <2>. HIDE DEF r
    <2>5. Owns(p, r, lock, applied) /\ Stops(r)
      BY <1>1, <1>2, <2>1, <2>4, HereFacts DEF Same, Sound, Owns, Stops, Holding, Opened
    <2>6. Follows(r, disk)
      BY <1>1, <1>2, <2>1, <2>4, HereFacts DEF Same, Sound, Follows
    <2>7. QED
      BY <2>2, <2>3, <2>5, <2>6, LocalSound
  <1>5. CASE /\ Fine
             /\ Becomes(p, [proc[p] EXCEPT !.step = "up",
                    !.tasks = CASE proc[p].mode = "serve" -> {"recovery", "maintenance"}
                                [] proc[p].mode = "extension" -> {"recovery"}
                                [] OTHER -> {},
                    !.recovery = IF proc[p].mode = "mcp" THEN @ ELSE "running"])
    <2>. DEFINE begun == CASE proc[p].mode = "serve" -> {"recovery", "maintenance"}
                           [] proc[p].mode = "extension" -> {"recovery"}
                           [] OTHER -> {}
                recovery == IF proc[p].mode = "mcp" THEN proc[p].recovery ELSE "running"
    <2>1. begun \in SUBSET Tasks /\ recovery \in {proc[p].recovery, "running"}
      BY DEF Tasks
    <2>2. Becomes(p, [proc[p] EXCEPT !.step = "up", !.tasks = begun, !.recovery = recovery])
      BY <1>5
    <2>. HIDE DEF begun, recovery
    <2>3. QED
      BY <1>4, <1>5, <2>1, <2>2
  <1>6. QED
    BY <1>3, <1>5, Zenon DEF Listen

-----------------------------------------------------------------------------
(* Running.                                                                 *)

\* A background task ends.
LEMMA TaskSound ==
    ASSUME LifecycleAssumption, LifecycleInv, NEW p \in Process, TaskEnds(p)
    PROVE  LifecycleInv'
  <1>1. PICK task \in proc[p].tasks, ended \in {"done", "failed"} :
            Becomes(p, [proc[p] EXCEPT !.tasks = @ \ {task},
                            !.recovery = IF task = "recovery" THEN ended ELSE @])
    BY DEF TaskEnds
  <1>. DEFINE recovery == IF task = "recovery" THEN ended ELSE proc[p].recovery
              less == proc[p].tasks \ {task}
  <1>2. recovery \in {"unstarted", "running", "done", "failed"} /\ less \in SUBSET Tasks
    BY HereFacts DEF State
  <1>3. Becomes(p, [proc[p] EXCEPT !.tasks = less, !.recovery = recovery])
    BY <1>1
  <1>4. proc[p].tasks = {} => less = {}
    OBVIOUS
  <1>. HIDE DEF recovery, less
  <1>. DEFINE r == [proc[p] EXCEPT !.tasks = less, !.recovery = recovery]
  <1>5. Becomes(p, r) /\ UNCHANGED <<lock, applied, disk, bundle>> /\ (Happens \/ Fine)
    BY <1>3 DEF TaskEnds, Fine
  <1>6. r \in State
    BY <1>2, HereFacts, FieldUpdates, StepNames DEF Holding
  <1>7. /\ r.tasks = less
        /\ Same(r, proc[p], {"step", "config", "stale", "opened", "writing",
                               "workers", "manager", "running", "parts", "update",
                               "next", "halfway", "overdue"})
    BY HereFacts DEF State, Same
  <1>. HIDE DEF r
  <1>8. Owns(p, r, lock, applied) /\ Stops(r)
    BY <1>4, <1>7, HereFacts DEF Same, Sound, Owns, Stops, Holding, Opened
  <1>9. Follows(r, disk)
    BY <1>4, <1>7, HereFacts DEF Same, Sound, Follows
  <1>10. QED
    BY <1>5, <1>6, <1>8, <1>9, LocalSound

\* A transaction begins ...
LEMMA BeginSound ==
    ASSUME LifecycleAssumption, LifecycleInv, NEW p \in Process, Begin(p)
    PROVE  LifecycleInv'
  <1>1. proc[p].workers /\ proc[p].opened
    BY DEF Begin, Is, Updating
  <1>. DEFINE r == [proc[p] EXCEPT !.writing = TRUE]
  <1>2. Becomes(p, r) /\ UNCHANGED <<lock, applied, disk, bundle>> /\ (Happens \/ Fine)
    BY DEF Begin, Fine, Happens
  <1>3. r \in State
    BY HereFacts, FieldUpdates, StepNames DEF Holding
  <1>4. /\ r.writing = TRUE
        /\ Same(r, proc[p], {"step", "config", "stale", "opened", "workers", "tasks",
                               "manager", "running", "parts", "update", "next",
                               "halfway", "overdue"})
    BY HereFacts DEF State, Same
  <1>. HIDE DEF r
  <1>5. Owns(p, r, lock, applied) /\ Stops(r)
    BY <1>1, <1>4, HereFacts DEF Same, Sound, Owns, Stops, Holding, Opened
  <1>6. Follows(r, disk)
    BY <1>1, <1>4, HereFacts DEF Same, Sound, Follows
  <1>7. QED
    BY <1>2, <1>3, <1>5, <1>6, LocalSound

\* ... and ends.
LEMMA CommitSound ==
    ASSUME LifecycleAssumption, LifecycleInv, NEW p \in Process, Commit(p)
    PROVE  LifecycleInv'
  <1>1. proc[p].writing
    BY DEF Commit, Is, Updating
  <1>. DEFINE r == [proc[p] EXCEPT !.writing = FALSE]
  <1>2. Becomes(p, r) /\ UNCHANGED <<lock, applied, disk, bundle>> /\ (Happens \/ Fine)
    BY DEF Commit, Fine, Happens
  <1>3. r \in State
    BY HereFacts, FieldUpdates, StepNames DEF Holding
  <1>4. /\ r.writing = FALSE
        /\ Same(r, proc[p], {"step", "config", "stale", "opened", "workers", "tasks",
                               "manager", "running", "parts", "update", "next",
                               "halfway", "overdue"})
    BY HereFacts DEF State, Same
  <1>. HIDE DEF r
  <1>5. Owns(p, r, lock, applied) /\ Stops(r)
    BY <1>1, <1>4, HereFacts DEF Same, Sound, Owns, Stops, Holding, Opened
  <1>6. Follows(r, disk)
    BY <1>1, <1>4, HereFacts DEF Same, Sound, Follows
  <1>7. QED
    BY <1>2, <1>3, <1>5, <1>6, LocalSound

\* The old manager is closed, with or without success.
LEMMA CloseRuntimeSound ==
    ASSUME LifecycleAssumption, LifecycleInv, NEW p \in Process, CloseRuntime(p)
    PROVE  LifecycleInv'
  <1>1. proc[p].step = "up" /\ proc[p].update = "saved" /\ UNCHANGED <<lock, applied, disk, bundle>>
    BY DEF CloseRuntime, Updating, Is
  <1>. DEFINE less == proc[p].running \ {proc[p].manager.id}
  <1>2. less \in SUBSET Nat /\ less = {}
    BY HereFacts DEF State, Sound, Stops
  <1>. HIDE DEF less
  <1>3. ASSUME Fine, Becomes(p, [proc[p] EXCEPT !.update = "closed", !.running = less])
        PROVE  LifecycleInv'
    <2>. DEFINE r == [proc[p] EXCEPT !.update = "closed", !.running = less]
    <2>1. Becomes(p, r) /\ UNCHANGED <<lock, applied, disk, bundle>> /\ (Happens \/ Fine)
      BY <1>1, <1>3 DEF Fine
    <2>2. r \in State
      BY <1>2, HereFacts, FieldUpdates, StepNames DEF Holding
    <2>3. /\ r.update = "closed" /\ r.running = less
          /\ Same(r, proc[p], {"step", "config", "stale", "opened", "writing",
                                 "workers", "tasks", "manager", "parts", "next",
                                 "halfway", "overdue"})
      BY HereFacts DEF State, Same
    <2>. HIDE DEF r
    <2>4. Owns(p, r, lock, applied) /\ Stops(r)
      BY <1>1, <1>2, <2>3, HereFacts DEF Same, Sound, Owns, Stops, Holding, Opened
    <2>5. Follows(r, disk)
      BY <1>1, <1>2, <2>3, HereFacts DEF Same, Sound, Follows
    <2>6. QED
      BY <2>1, <2>2, <2>4, <2>5, LocalSound
  <1>4. ASSUME Happens, Becomes(p, [proc[p] EXCEPT !.update = "none", !.next = NoConfig,
                                      !.halfway = TRUE, !.running = less])
        PROVE  LifecycleInv'
    <2>. DEFINE s == [proc[p] EXCEPT !.update = "none", !.next = NoConfig]
    <2>1. s \in State
      BY HereFacts, FieldUpdates DEF Names
    <2>. HIDE DEF s
    <2>. DEFINE r == [s EXCEPT !.halfway = TRUE, !.running = less]
    <2>2. Becomes(p, r) /\ UNCHANGED <<lock, applied, disk, bundle>> /\ (Happens \/ Fine)
      BY <1>1, <1>4 DEF s, Happens
    <2>3. r \in State
      BY <1>2, <2>1, HereFacts, FieldUpdates, StepNames DEF Holding
    <2>4. /\ r.update = "none" /\ r.halfway = TRUE /\ r.running = less
          /\ Same(r, proc[p], {"step", "config", "stale", "opened", "writing",
                                 "workers", "tasks", "manager", "parts", "overdue"})
      BY <2>1, HereFacts DEF s, State, Same
    <2>. HIDE DEF r
    <2>5. Owns(p, r, lock, applied) /\ Stops(r)
      BY <1>1, <1>2, <2>4, HereFacts DEF Same, Sound, Owns, Stops, Holding, Opened
    <2>6. Follows(r, disk)
      BY <1>1, <1>2, <2>4, HereFacts DEF Same, Sound, Follows
    <2>7. QED
      BY <2>2, <2>3, <2>5, <2>6, LocalSound
  <1>5. QED
    BY <1>3, <1>4, Zenon DEF CloseRuntime, less

\* A new manager is installed: its helpers are still those of the old configuration.
LEMMA InstallSound ==
    ASSUME LifecycleAssumption, LifecycleInv, NEW p \in Process, InstallRuntime(p)
    PROVE  LifecycleInv'
  <1>1. /\ proc[p].step = "up" /\ proc[p].update = "closed"
        /\ proc[p].next \in Names /\ proc[p].config \in Names /\ proc[p].manager \in Manager
        /\ proc[p].parts \in [Part -> Adapter] /\ proc[p].running = {}
    BY HereFacts DEF InstallRuntime, Updating, Is, State, Sound, Follows
  <1>2. PICK m \in NewManager(p, proc[p].next) :
            Becomes(p, [proc[p] EXCEPT !.update = "installed", !.manager = m, !.running = @ \cup {m.id},
                            !.parts = SetRuntime(@, proc[p].config, m, proc[p].gated)])
    BY Zenon DEF InstallRuntime
  <1>3. m \in Manager /\ m.config = proc[p].next
    BY <1>1, <1>2, ManagerMade
  <1>. DEFINE set == SetRuntime(proc[p].parts, proc[p].config, m, proc[p].gated)
              more == proc[p].running \cup {m.id}
  <1>4. set \in [Part -> Adapter]
    BY <1>1, <1>3, RuntimeParts DEF RuntimeSet
  <1>5. more = {m.id} /\ more \in SUBSET Nat
    BY <1>1, <1>3 DEF Manager
  <1>6. Becomes(p, [proc[p] EXCEPT !.update = "installed", !.manager = m, !.running = more, !.parts = set])
    BY <1>2
  <1>. HIDE DEF set, more
  <1>. DEFINE r == [proc[p] EXCEPT !.update = "installed", !.manager = m, !.running = more, !.parts = set]
  <1>7. Becomes(p, r) /\ UNCHANGED <<lock, applied, disk, bundle>> /\ (Happens \/ Fine)
    BY <1>6 DEF InstallRuntime, Fine
  <1>8. r \in State
    BY <1>3, <1>4, <1>5, HereFacts, FieldUpdates, StepNames DEF Holding
  <1>9. /\ r.update = "installed" /\ r.manager = m /\ r.running = more /\ r.parts = set
        /\ Same(r, proc[p], {"step", "config", "stale", "opened", "writing",
                               "workers", "tasks", "next", "halfway", "overdue"})
    BY HereFacts DEF State, Same
  <1>. HIDE DEF r
  <1>10. Owns(p, r, lock, applied) /\ Stops(r)
    BY <1>1, <1>3, <1>5, <1>9, HereFacts DEF Same, Sound, Owns, Stops, Holding, Opened
  <1>11. Follows(r, disk)
    BY <1>1, <1>3, <1>5, <1>9, HereFacts DEF Same, Sound, Follows
  <1>12. QED
    BY <1>7, <1>8, <1>10, <1>11, LocalSound

\* The new configuration is applied.
LEMMA ApplySound ==
    ASSUME LifecycleAssumption, LifecycleInv, NEW p \in Process, ApplyConfig(p)
    PROVE  LifecycleInv'
  <1>1. /\ proc[p].step = "up" /\ proc[p].update = "installed"
        /\ proc[p].next \in Names /\ proc[p].manager \in Manager
        /\ proc[p].parts \in [Part -> Adapter]
        /\ proc[p].next = disk /\ proc[p].manager.config = proc[p].next
        /\ proc[p].running = {proc[p].manager.id}
    BY HereFacts DEF ApplyConfig, Updating, Is, State, Sound, Follows
  <1>. DEFINE set == SetGlobalConfig(proc[p].parts, proc[p].next, proc[p].manager, proc[p].gated)
  <1>2. set \in [Part -> Adapter] /\ Current(set, proc[p].next, proc[p].manager)
    BY <1>1, UpdatedParts
  <1>3. Becomes(p, [proc[p] EXCEPT !.update = "none", !.config = proc[p].next, !.next = NoConfig,
                        !.halfway = FALSE, !.stale = FALSE, !.parts = set])
    BY DEF ApplyConfig
  <1>. HIDE DEF set
  <1>. DEFINE s == [proc[p] EXCEPT !.update = "none", !.config = proc[p].next, !.next = NoConfig]
  <1>4. s \in State
    BY <1>1, HereFacts, FieldUpdates DEF Names
  <1>. HIDE DEF s
  <1>. DEFINE r == [s EXCEPT !.halfway = FALSE, !.stale = FALSE, !.parts = set]
  <1>5. Becomes(p, r) /\ UNCHANGED <<lock, applied, disk, bundle>> /\ (Happens \/ Fine)
    BY <1>3 DEF s, ApplyConfig, Fine
  <1>6. r \in State
    BY <1>2, <1>4, HereFacts, FieldUpdates, StepNames DEF Holding
  <1>7. /\ r.update = "none" /\ r.config = proc[p].next /\ r.halfway = FALSE /\ r.parts = set
        /\ Same(r, proc[p], {"step", "opened", "writing", "workers", "tasks",
                               "manager", "running", "overdue"})
    BY <1>4, HereFacts DEF s, State, Same
  <1>. HIDE DEF r
  <1>8. Owns(p, r, lock, applied) /\ Stops(r)
    BY <1>1, <1>2, <1>7, HereFacts DEF Same, Sound, Owns, Stops, Holding, Opened
  <1>9. Follows(r, disk)
    BY <1>1, <1>2, <1>7, HereFacts DEF Same, Sound, Follows
  <1>10. QED
    BY <1>5, <1>6, <1>8, <1>9, LocalSound

-----------------------------------------------------------------------------
(* Closing.                                                                 *)

\* The listener has drained.
LEMMA LeaveSound ==
    ASSUME LifecycleAssumption, LifecycleInv, NEW p \in Process, Leave(p)
    PROVE  LifecycleInv'
  <1>1. proc[p].step = "up" /\ proc[p].update = "none"
    BY DEF Leave, Is, Updating
  <1>. DEFINE r == [proc[p] EXCEPT !.step = "closing"]
  <1>2. Becomes(p, r) /\ UNCHANGED <<lock, applied, disk, bundle>> /\ (Happens \/ Fine)
    BY DEF Leave, Fine, Happens
  <1>3. r \in State
    BY HereFacts, FieldUpdates, StepNames DEF Holding
  <1>4. /\ r.step = "closing"
        /\ Same(r, proc[p], {"config", "stale", "opened", "writing", "workers",
                               "tasks", "manager", "running", "parts", "update", "next",
                               "halfway", "overdue"})
    BY HereFacts DEF State, Same
  <1>. HIDE DEF r
  <1>5. Owns(p, r, lock, applied) /\ Stops(r)
    BY <1>1, <1>4, HereFacts DEF Same, Sound, Owns, Stops, Holding, Opened
  <1>6. Follows(r, disk)
    BY <1>1, <1>4, HereFacts DEF Same, Sound, Follows
  <1>7. QED
    BY <1>2, <1>3, <1>5, <1>6, LocalSound

\* The deadline of the shutdown passes.
LEMMA DeadlineSound ==
    ASSUME LifecycleAssumption, LifecycleInv, NEW p \in Process, Deadline(p)
    PROVE  LifecycleInv'
  <1>1. proc[p].step \in {"closing", "quiet", "stopped", "shut"}
    BY DEF Deadline, Is, Updating
  <1>. DEFINE r == [proc[p] EXCEPT !.overdue = TRUE]
  <1>2. Becomes(p, r) /\ UNCHANGED <<lock, applied, disk, bundle>> /\ (Happens \/ Fine)
    BY DEF Deadline, Fine, Happens
  <1>3. r \in State
    BY HereFacts, FieldUpdates, StepNames DEF Holding
  <1>4. /\ r.overdue = TRUE
        /\ Same(r, proc[p], {"step", "config", "stale", "opened", "writing",
                               "workers", "tasks", "manager", "running", "parts",
                               "update", "next", "halfway"})
    BY HereFacts DEF State, Same
  <1>. HIDE DEF r
  <1>5. Owns(p, r, lock, applied) /\ Stops(r)
    BY <1>1, <1>4, HereFacts DEF Same, Sound, Owns, Stops, Holding, Opened
  <1>6. Follows(r, disk)
    BY <1>1, <1>4, HereFacts DEF Same, Sound, Follows
  <1>7. QED
    BY <1>2, <1>3, <1>5, <1>6, LocalSound

\* The background tasks have ended, or it is too late.
LEMMA WaitForTasksSound ==
    ASSUME LifecycleAssumption, LifecycleInv, NEW p \in Process, WaitForTasks(p)
    PROVE  LifecycleInv'
  <1>1. proc[p].step = "closing" /\ (proc[p].tasks = {} \/ proc[p].overdue)
    BY DEF WaitForTasks, Is, Updating
  <1>. DEFINE r == [proc[p] EXCEPT !.step = "quiet"]
  <1>2. Becomes(p, r) /\ UNCHANGED <<lock, applied, disk, bundle>> /\ (Happens \/ Fine)
    BY DEF WaitForTasks, Fine, Happens
  <1>3. r \in State
    BY HereFacts, FieldUpdates, StepNames DEF Holding
  <1>4. /\ r.step = "quiet"
        /\ Same(r, proc[p], {"config", "stale", "opened", "writing", "workers",
                               "tasks", "manager", "running", "parts", "update", "next",
                               "halfway", "overdue"})
    BY HereFacts DEF State, Same
  <1>. HIDE DEF r
  <1>5. Owns(p, r, lock, applied) /\ Stops(r)
    BY <1>1, <1>4, HereFacts DEF Same, Sound, Owns, Stops, Holding, Opened
  <1>6. Follows(r, disk)
    BY <1>1, <1>4, HereFacts DEF Same, Sound, Follows
  <1>7. QED
    BY <1>2, <1>3, <1>5, <1>6, LocalSound

\* The workers have stopped, or it is too late.
LEMMA StopOperationsSound ==
    ASSUME LifecycleAssumption, LifecycleInv, NEW p \in Process, StopOperations(p)
    PROVE  LifecycleInv'
  <1>1. /\ proc[p].step = "quiet" /\ (~proc[p].writing \/ proc[p].overdue)
        /\ proc[p].writing \in BOOLEAN
    BY HereFacts DEF StopOperations, Is, State
  <1>. DEFINE r == [proc[p] EXCEPT !.step = "stopped", !.workers = proc[p].writing]
  <1>2. Becomes(p, r) /\ UNCHANGED <<lock, applied, disk, bundle>> /\ (Happens \/ Fine)
    BY DEF StopOperations, Fine, Happens
  <1>3. r \in State
    BY <1>1, HereFacts, FieldUpdates, StepNames DEF Holding
  <1>4. /\ r.step = "stopped" /\ r.workers = proc[p].writing
        /\ Same(r, proc[p], {"config", "stale", "opened", "writing", "tasks",
                               "manager", "running", "parts", "update", "next",
                               "halfway", "overdue"})
    BY HereFacts DEF State, Same
  <1>. HIDE DEF r
  <1>5. Owns(p, r, lock, applied) /\ Stops(r)
    BY <1>1, <1>4, HereFacts DEF Same, Sound, Owns, Stops, Holding, Opened
  <1>6. Follows(r, disk)
    BY <1>1, <1>4, HereFacts DEF Same, Sound, Follows
  <1>7. QED
    BY <1>2, <1>3, <1>5, <1>6, LocalSound

\* The manager is closed for good.
LEMMA StopRuntimeSound ==
    ASSUME LifecycleAssumption, LifecycleInv, NEW p \in Process, StopRuntime(p)
    PROVE  LifecycleInv'
  <1>. DEFINE less == proc[p].running \ {proc[p].manager.id}
  <1>1. proc[p].step = "stopped" /\ less = {} /\ less \in SUBSET Nat
    BY HereFacts DEF StopRuntime, Is, State, Sound, Stops
  <1>2. Becomes(p, [proc[p] EXCEPT !.step = "shut", !.running = less])
    BY DEF StopRuntime
  <1>. HIDE DEF less
  <1>. DEFINE r == [proc[p] EXCEPT !.step = "shut", !.running = less]
  <1>3. Becomes(p, r) /\ UNCHANGED <<lock, applied, disk, bundle>> /\ (Happens \/ Fine)
    BY <1>2 DEF StopRuntime, Fine
  <1>4. r \in State
    BY <1>1, HereFacts, FieldUpdates, StepNames DEF Holding
  <1>5. /\ r.step = "shut" /\ r.running = less
        /\ Same(r, proc[p], {"config", "stale", "opened", "writing", "workers",
                               "tasks", "manager", "parts", "update", "next", "halfway",
                               "overdue"})
    BY HereFacts DEF State, Same
  <1>. HIDE DEF r
  <1>6. Owns(p, r, lock, applied) /\ Stops(r)
    BY <1>1, <1>5, HereFacts DEF Same, Sound, Owns, Stops, Holding, Opened
  <1>7. Follows(r, disk)
    BY <1>1, <1>5, HereFacts DEF Same, Sound, Follows
  <1>8. QED
    BY <1>3, <1>4, <1>6, <1>7, LocalSound

\* The handles of the database are closed.
LEMMA CloseDatabaseSound ==
    ASSUME LifecycleAssumption, LifecycleInv, NEW p \in Process, CloseDatabase(p)
    PROVE  LifecycleInv'
  <1>1. proc[p].step = "shut" /\ (~proc[p].writing \/ proc[p].overdue)
    BY DEF CloseDatabase, Is, Updating
  <1>. DEFINE r == [proc[p] EXCEPT !.step = "closed", !.opened = FALSE]
  <1>2. Becomes(p, r) /\ UNCHANGED <<lock, applied, disk, bundle>> /\ (Happens \/ Fine)
    BY DEF CloseDatabase, Fine, Happens
  <1>3. r \in State
    BY HereFacts, FieldUpdates, StepNames DEF Holding
  <1>4. /\ r.step = "closed" /\ r.opened = FALSE
        /\ Same(r, proc[p], {"config", "stale", "writing", "workers", "tasks",
                               "manager", "running", "parts", "update", "next",
                               "halfway", "overdue"})
    BY HereFacts DEF State, Same
  <1>. HIDE DEF r
  <1>5. Owns(p, r, lock, applied) /\ Stops(r)
    BY <1>1, <1>4, HereFacts DEF Same, Sound, Owns, Stops, Holding, Opened
  <1>6. Follows(r, disk)
    BY <1>1, <1>4, HereFacts DEF Same, Sound, Follows
  <1>7. QED
    BY <1>2, <1>3, <1>5, <1>6, LocalSound

\* The lock is given away, by its owner.
LEMMA ReleaseSound ==
    ASSUME LifecycleAssumption, LifecycleInv, NEW p \in Process, ReleaseLock(p)
    PROVE  LifecycleInv'
  <1>. DEFINE r == [proc[p] EXCEPT !.step = "released"]
  <1>1. /\ proc[p].step = "closed" /\ Becomes(p, r) /\ lock' = Nobody
        /\ UNCHANGED <<applied, disk, bundle, events>>
    BY DEF ReleaseLock, Is
  <1>2. lock = p /\ ~proc[p].opened /\ proc[p].update = "none"
    BY <1>1, HereFacts DEF Sound, Owns, Follows, Holding, Opened
  <1>3. r \in State
    BY HereFacts, FieldUpdates, StepNames
  <1>4. /\ r.step = "released"
        /\ Same(r, proc[p], {"config", "stale", "opened", "writing", "workers", "tasks",
                             "manager", "running", "parts", "update", "next", "halfway",
                             "overdue"})
    BY HereFacts DEF State, Same
  <1>. HIDE DEF r
  <1>5. Owns(p, r, Nobody, applied)
    BY <1>1, <1>2, <1>4, HereFacts DEF Same, Sound, Owns, Holding, Opened, LifecycleAssumption
  <1>6. Stops(r)
    BY <1>1, <1>4, HereFacts DEF Same, Sound, Stops
  <1>7. Follows(r, disk)
    BY <1>1, <1>2, <1>4, HereFacts DEF Same, Sound, Follows
  <1>8. Sound(p, r, lock', applied', disk)
    BY <1>1, <1>5, <1>6, <1>7 DEF Sound
  <1>9. QED
    BY <1>1, <1>2, <1>3, <1>8, HereFacts, StepSound

\* A process is gone, on its own account or by a crash.
LEMMA EndSound ==
    ASSUME LifecycleAssumption, LifecycleInv, NEW p \in Process, Exit(p) \/ Crash(p)
    PROVE  LifecycleInv'
  <1>1. /\ Becomes(p, Off) /\ UNCHANGED <<applied, disk, bundle>> /\ (Happens \/ Fine)
        /\ lock' = IF lock = p THEN Nobody ELSE lock
    <2>1. CASE Exit(p)
      <3>1. lock # p
        BY <2>1, HereFacts DEF Exit, Is, Sound, Owns, Holding
      <3>2. QED
        BY <2>1, <3>1 DEF Exit, Fine
    <2>2. CASE Crash(p)
      BY <2>2 DEF Crash
    <2>3. QED
      BY <2>1, <2>2
  <1>2. lock' # p /\ (lock' = lock \/ (lock = p /\ lock' = Nobody))
    BY <1>1 DEF LifecycleAssumption
  <1>3. Sound(p, Off, lock', applied', disk)
    BY <1>2, OffSound
  <1>4. lock' \in Process \cup {Nobody} /\ applied' \in Nat /\ events' \in 0 .. MaxEvents
    BY <1>1, <1>2, HereFacts, Counted
  <1>5. QED
    BY <1>1, <1>2, <1>3, <1>4, OffTyped, StepSound

-----------------------------------------------------------------------------
(* The configuration file is saved: by the process that is up, hence has the *)
(* lock; what another process has read before is stale.                     *)
LEMMA SaveSound ==
    ASSUME LifecycleAssumption, LifecycleInv, NEW p \in Process, SaveContext(p)
    PROVE  LifecycleInv'
  <1>1. PICK c \in Config :
            /\ disk' = c
            /\ proc' = [q \in Process |->
                    IF q = p THEN [proc[p] EXCEPT !.update = "saved", !.next = c, !.updates = @ + 1]
                    ELSE IF Is(q, "loaded") THEN [proc[q] EXCEPT !.stale = TRUE] ELSE proc[q]]
    BY Zenon DEF SaveContext
  <1>2. /\ proc[p].step = "up" /\ proc[p].update = "none"
        /\ UNCHANGED <<lock, applied, bundle, events>>
    BY DEF SaveContext, Updating, Is
  <1>3. lock = p
    BY <1>2, HereFacts DEF Sound, Owns, Holding
  <1>4. proc'[p] \in State /\ Sound(p, proc'[p], lock, applied, c)
    <2>. DEFINE count == proc[p].updates + 1
                r == [proc[p] EXCEPT !.update = "saved", !.next = c, !.updates = count]
    <2>1. count \in Nat /\ c \in Names
      BY HereFacts DEF State, Names
    <2>2. proc'[p] = r
      BY <1>1
    <2>. HIDE DEF count
    <2>3. r \in State
      BY <2>1, HereFacts, FieldUpdates
    <2>4. /\ r.update = "saved" /\ r.next = c
          /\ Same(r, proc[p], {"step", "config", "stale", "opened", "writing", "workers", "tasks",
                               "manager", "running", "parts", "halfway", "overdue"})
      BY HereFacts DEF State, Same
    <2>. HIDE DEF r
    <2>5. Owns(p, r, lock, applied) /\ Stops(r)
      BY <1>2, <2>4, HereFacts DEF Same, Sound, Owns, Stops, Holding, Opened
    <2>6. Follows(r, c)
      BY <1>2, <2>4 DEF Same, Follows
    <2>7. QED
      BY <2>2, <2>3, <2>5, <2>6 DEF Sound
  <1>5. ASSUME NEW q \in Process \ {p}
        PROVE  proc'[q] \in State /\ Sound(q, proc'[q], lock, applied, c)
    <2>1. proc[q] \in State /\ Sound(q, proc[q], lock, applied, disk)
      BY HereFacts
    <2>2. proc[q].step \notin Holding
      BY <1>3, <2>1 DEF Sound, Owns
    <2>3. CASE proc[q].step = "loaded"
      <3>. DEFINE r == [proc[q] EXCEPT !.stale = TRUE]
      <3>1. proc'[q] = r
        BY <1>1, <2>3 DEF Is
      <3>2. r \in State
        BY <2>1, FieldUpdates
      <3>3. /\ r.stale = TRUE
            /\ Same(r, proc[q], {"step", "config", "opened", "writing", "workers", "tasks",
                                 "manager", "running", "parts", "update", "next", "halfway",
                                 "overdue"})
        BY <2>1 DEF State, Same
      <3>. HIDE DEF r
      <3>4. Owns(q, r, lock, applied) /\ Stops(r)
        BY <2>1, <3>3 DEF Same, Sound, Owns, Stops, Holding, Opened
      <3>5. Follows(r, c)
        BY <2>1, <2>3, <3>3 DEF Same, Sound, Follows
      <3>6. QED
        BY <3>1, <3>2, <3>4, <3>5 DEF Sound
    <2>4. CASE proc[q].step # "loaded"
      <3>1. proc'[q] = proc[q]
        BY <1>1, <2>4 DEF Is
      <3>2. Follows(proc[q], c)
        BY <2>1, <2>2, <2>4 DEF Sound, Follows, Holding
      <3>3. QED
        BY <2>1, <3>1, <3>2 DEF Sound
    <2>5. QED
      BY <2>3, <2>4
  <1>6. proc' \in [Process -> State]
    <2>1. proc' = [q \in Process |-> proc'[q]]
      BY <1>1
    <2>2. QED
      BY <1>4, <1>5, <2>1
  <1>7. Typed'
    BY <1>1, <1>2, <1>6 DEF LifecycleInv, Typed
  <1>8. \A q \in Process : Sound(q, proc'[q], lock', applied', disk')
    BY <1>1, <1>2, <1>4, <1>5
  <1>9. QED
    BY <1>7, <1>8 DEF LifecycleInv

-----------------------------------------------------------------------------
\* The invariant holds at first, ...
LEMMA InitSound == LifecycleAssumption /\ Init => LifecycleInv
  <1>. SUFFICES ASSUME LifecycleAssumption, Init PROVE LifecycleInv
    OBVIOUS
  <1>1. Typed
    <2>1. lock \in Process \cup {Nobody} /\ disk \in Config /\ bundle \in BOOLEAN
      BY Zenon DEF Init
    <2>2. applied \in Nat /\ events \in 0 .. MaxEvents
      <3>1. applied = 0 /\ events = 0 /\ MaxEvents \in Nat
        BY Zenon DEF Init, LifecycleAssumption
      <3>2. QED
        BY <3>1
    <2>3. proc \in [Process -> State]
      BY OffTyped DEF Init
    <2>4. QED
      BY <2>1, <2>2, <2>3 DEF Typed
  <1>2. ASSUME NEW p \in Process PROVE Sound(p, proc[p], lock, applied, disk)
    <2>1. proc[p] = Off /\ lock # p
      BY DEF Init, LifecycleAssumption
    <2>2. QED
      BY <2>1, OffSound
  <1>3. QED
    BY <1>1, <1>2 DEF LifecycleInv

\* ... every step keeps it, ...
LEMMA NextSound == LifecycleAssumption /\ LifecycleInv /\ [Next]_vars => LifecycleInv'
  <1>. SUFFICES ASSUME LifecycleAssumption, LifecycleInv, [Next]_vars PROVE LifecycleInv'
    OBVIOUS
  <1>1. CASE UNCHANGED vars
    BY <1>1 DEF vars, LifecycleInv, Typed
  <1>2. CASE Install
    <2>1. bundle' \in BOOLEAN /\ UNCHANGED <<lock, applied, disk, proc>> /\ events' \in 0 .. MaxEvents
      BY <1>2, Counted DEF Install
    <2>2. QED
      BY <2>1 DEF LifecycleInv, Typed
  <1>3. ASSUME NEW p \in Process, Opening(p) PROVE LifecycleInv'
    BY <1>3, LoadSound, AcquireSound, MigrateSound, WireSound, StartSound, ListenSound DEF Opening
  <1>4. ASSUME NEW p \in Process, Running(p) PROVE LifecycleInv'
    BY <1>4, TaskSound, BeginSound, CommitSound, SaveSound, CloseRuntimeSound, InstallSound,
       ApplySound DEF Running
  <1>5. ASSUME NEW p \in Process, Closing(p) PROVE LifecycleInv'
    BY <1>5, LeaveSound, DeadlineSound, WaitForTasksSound, StopOperationsSound, StopRuntimeSound,
       CloseDatabaseSound, ReleaseSound, EndSound DEF Closing
  <1>6. QED
    BY <1>1, <1>2, <1>3, <1>4, <1>5 DEF Next

\* ... and so it always holds.
LEMMA LifecycleHolds == ASSUME LifecycleAssumption PROVE Spec => []LifecycleInv
  BY InitSound, NextSound, PTL DEF Spec

(* Types are correct, for any processes and configurations (app.App).       *)
THEOREM TypeCorrect == ASSUME LifecycleAssumption PROVE Spec => []TypeOK
  <1>1. LifecycleInv => TypeOK
    BY DEF LifecycleInv, Typed, State, Names, Tasks, TypeOK
  <1>2. QED
    BY <1>1, LifecycleHolds, PTL

(* Whoever has the database open holds the lock and knows its schema, and no *)
(* transaction outlives the lock unless a shutdown ran out of time           *)
(* (AcquireInstanceLock, Migrate, DB.CloseWithContext together).             *)
THEOREM DirectoryHasOneOwner == ASSUME LifecycleAssumption PROVE Spec => []OneOwner
  <1>1. LifecycleInv => OneOwner
    <2>. SUFFICES ASSUME LifecycleInv, NEW p \in Process
                  PROVE  /\ proc[p].opened => lock = p /\ applied = Supports[p]
                         /\ proc[p].writing => lock = p \/ proc[p].overdue
                         /\ Ready(p) => lock = p
      BY DEF OneOwner
    <2>1. Owns(p, proc[p], lock, applied)
      BY HereFacts DEF Sound
    <2>2. QED
      BY <2>1 DEF Owns, Ready, Holding, Opened
  <1>2. QED
    BY <1>1, LifecycleHolds, PTL

(* A process that is gone, or was refused, has given everything back, also   *)
(* when the start failed half-way (NewWithOptions, Run's deferred calls).    *)
THEOREM ProcessLeavesNothing == ASSUME LifecycleAssumption PROVE Spec => []NothingIsLeft
  <1>1. LifecycleInv => NothingIsLeft
    <2>. SUFFICES ASSUME LifecycleInv, NEW p \in Process
                  PROVE  /\ proc[p].step \in {"off", "loaded", "released"} => lock # p /\ ~proc[p].opened
                         /\ Is(p, "released") => proc[p].running = {}
                         /\ Is(p, "released") /\ ~proc[p].overdue =>
                                ~proc[p].workers /\ proc[p].tasks = {}
      BY DEF NothingIsLeft
    <2>1. Owns(p, proc[p], lock, applied) /\ Stops(proc[p])
      BY HereFacts DEF Sound
    <2>2. QED
      BY <2>1 DEF Owns, Stops, Is, Holding, Opened
  <1>2. QED
    BY <1>1, LifecycleHolds, PTL

(* Between updates every helper, whatever a base asks for, is of the         *)
(* configuration that is saved and of the one manager that runs              *)
(* (UpdateConfigWithContext, SetRuntime, SetGlobalConfig, providersForBase). *)
THEOREM HelpersStayCurrent == ASSUME LifecycleAssumption PROVE Spec => []HelpersAreCurrent
  <1>1. LifecycleInv => HelpersAreCurrent
    <2>. SUFFICES ASSUME LifecycleInv, NEW p \in Process, Settled(p)
                  PROVE  LET c == proc[p].config
                             m == proc[p].manager
                         IN /\ disk = c \/ proc[p].stale
                            /\ proc[p].running = {m.id} /\ m.config = c
                            /\ Current(proc[p].parts, c, m)
                            /\ \A overrides \in Overrides, part \in {"embedder", "reranker"} :
                                 BaseProviders(p, overrides)[part] \in {NoAdapter, Command(c), Through(m)}
      BY DEF HelpersAreCurrent, Current
    <2>. DEFINE c == proc[p].config
                m == proc[p].manager
    <2>1. proc[p].step = "up" /\ proc[p].update = "none" /\ ~proc[p].halfway
      BY DEF Settled, Is
    <2>2. /\ disk = c \/ proc[p].stale
          /\ proc[p].running = {m.id} /\ m.config = c
          /\ Current(proc[p].parts, c, m)
      BY <2>1, HereFacts DEF Sound, Follows
    <2>3. c \in Names /\ m \in Manager
      BY HereFacts DEF State
    <2>4. ASSUME NEW overrides \in Overrides, NEW part \in {"embedder", "reranker"}
          PROVE  BaseProviders(p, overrides)[part] \in {NoAdapter, Command(c), Through(m)}
      <3>1. proc[p].parts[part] \in {NoAdapter, Command(c), Through(m)}
        BY <2>2, <2>3, AdapterTyped DEF Current
      <3>2. QED
        BY <3>1 DEF BaseProviders
    <2>5. QED
      BY <2>2, <2>4
  <1>2. QED
    BY <1>1, LifecycleHolds, PTL

(* All three together are what the run of the composed inputs checks.        *)
THEOREM DirectoryStaysOwned == ASSUME LifecycleAssumption PROVE Spec => []DirectoryIsOwned
  BY DirectoryHasOneOwner, ProcessLeavesNothing, HelpersStayCurrent, PTL DEF DirectoryIsOwned

-----------------------------------------------------------------------------
(* The commands about several documents that the application executes, for   *)
(* any number of items and attempts.                                         *)

CONSTANTS N, MaxAttempts
VARIABLES kind, policy, state, attempt, mark, target, sources, effects, dropped, run, incidents

B == INSTANCE BatchCommands

Kinds == {"delete", "reindex", "restore", "import"}
RunStates == {"queued", "running", "succeeded", "failed"}
Marks == {"none", "pending", "committed", "skipped", "failed"}
Targets == {"none", "started", "ready", "fenced", "gone"}
Looping == {"loop", "work", "copy"}
Importing == {"plan", "workers"}
Places == Looping \cup Importing \cup {"idle", "prepare"}
Fates == {"none", "planned", "started", "committed", "skipped", "error"}
Runs == [pc : Places, next : Nat, failed : BOOLEAN, fate : [B!Item -> Fates]]

BatchTyped ==
    /\ kind \in Kinds /\ state \in RunStates /\ attempt \in 0 .. MaxAttempts
    /\ mark \in [B!Item -> Marks] /\ target \in [B!Item -> Targets] /\ effects \in [B!Item -> Nat]
    /\ sources \subseteq B!Item /\ run \in Runs /\ (state = "running" <=> run.pc # "idle")

\* What the executor may be at.
AtWork ==
    /\ run.pc \in Looping => kind # "import" /\ B!item \in 1 .. N + 1
    /\ run.pc = "work" => kind \in {"delete", "reindex"} /\ B!item \in B!Item /\ ~B!Resolved(B!item)
    /\ run.pc = "copy" => kind = "restore" /\ B!item \in B!Item /\ target[B!item] = "started"
    /\ run.pc \in Importing \cup {"prepare"} => kind = "import"
    /\ run.pc = "plan" => \A i \in B!Item : run.fate[i] \in {"planned", "committed", "skipped"}
    /\ run.pc = "workers" => \A i \in B!Item : run.fate[i] # "none"

\* What a command that succeeds owes to an item.
BatchSettled(i) ==
    /\ kind = "reindex" => effects[i] = 1 \/ target[i] # "ready"
    /\ kind = "delete" => target[i] # "ready"
    /\ kind = "restore" /\ i \in sources => target[i] = "ready"
    /\ kind = "import" /\ i \notin dropped => target[i] = "ready"

\* The marker of an item and what became of it agree.
ItemKept(i) ==
    /\ effects[i] \in {0, 1} /\ (effects[i] = 1 => mark[i] = "committed")
    /\ mark[i] = "committed" => effects[i] = 1 \/ (kind = "delete" /\ target[i] # "ready")
    /\ kind # "restore" /\ B!Resolved(i) => BatchSettled(i)
    /\ kind = "restore" /\ effects[i] = 1 => target[i] = "ready"

\* What an import still has to do was not done before, and what it has not is settled.
FateKept(i) ==
    /\ run.fate[i] \in {"planned", "started"} => mark[i] = "pending"
    /\ run.fate[i] = "committed" => mark[i] = "committed"
    /\ run.fate[i] \in {"committed", "skipped"} => BatchSettled(i)

BatchInv ==
    /\ BatchTyped /\ AtWork
    /\ \A i \in B!Item : ItemKept(i)
    /\ state = "succeeded" => \A i \in B!Item : BatchSettled(i)
    /\ run.pc \in Looping /\ ~run.failed => \A i \in B!Item : i < B!item => BatchSettled(i)
    /\ run.pc \in Importing => \A i \in B!Item : FateKept(i)

-----------------------------------------------------------------------------
(* What a step owes to the invariant.                                        *)

Kept == kind' = kind /\ sources' \subseteq sources /\ dropped \subseteq dropped'
Written == mark' \in [B!Item -> Marks] /\ target' \in [B!Item -> Targets] /\ effects' \in [B!Item -> Nat]

\* A step that writes about item k only.
OnlyAbout(k) ==
    /\ Kept /\ Written
    /\ \A i \in B!Item \ {k} : mark'[i] = mark[i] /\ target'[i] = target[i] /\ effects'[i] = effects[i]

LEMMA InvIs ==
    ASSUME BatchInv
    PROVE  /\ kind \in Kinds /\ state \in RunStates /\ attempt \in 0 .. MaxAttempts
           /\ mark \in [B!Item -> Marks] /\ target \in [B!Item -> Targets] /\ effects \in [B!Item -> Nat]
           /\ sources \subseteq B!Item
           /\ run \in Runs /\ run.pc \in Places /\ run.next \in Nat /\ run.failed \in BOOLEAN
           /\ run.fate \in [B!Item -> Fates] /\ (state = "running" <=> run.pc # "idle")
           /\ AtWork /\ \A i \in B!Item : ItemKept(i)
           /\ state = "succeeded" => \A i \in B!Item : BatchSettled(i)
           /\ run.pc \in Looping /\ ~run.failed => \A i \in B!Item : i < B!item => BatchSettled(i)
           /\ run.pc \in Importing => \A i \in B!Item : FateKept(i)
  BY DEF BatchInv, BatchTyped, Runs

LEMMA SameStays ==
    ASSUME Kept, NEW i, mark'[i] = mark[i], target'[i] = target[i], effects'[i] = effects[i]
    PROVE  /\ BatchSettled(i) => BatchSettled(i)'
           /\ ItemKept(i) => ItemKept(i)'
  <1>1. BatchSettled(i) => BatchSettled(i)'
    BY DEF BatchSettled, Kept
  <1>2. B!Resolved(i)' <=> B!Resolved(i)
    BY DEF B!Resolved
  <1>3. QED
    BY <1>1, <1>2 DEF ItemKept, Kept

LEMMA OthersStay ==
    ASSUME BatchInv, NEW k, OnlyAbout(k), NEW i \in B!Item \ {k}
    PROVE  ItemKept(i)' /\ (BatchSettled(i) => BatchSettled(i)')
  <1>1. ItemKept(i) /\ Kept /\ mark'[i] = mark[i] /\ target'[i] = target[i] /\ effects'[i] = effects[i]
    BY InvIs DEF OnlyAbout
  <1>2. QED
    BY <1>1, SameStays

LEMMA AllStay ==
    ASSUME BatchInv, UNCHANGED <<kind, mark, target, effects>>, sources' \subseteq sources,
           dropped \subseteq dropped'
    PROVE  Kept /\ Written /\ \A i \in B!Item : ItemKept(i)' /\ (BatchSettled(i) => BatchSettled(i)')
  <1>1. Kept /\ Written
    BY InvIs DEF Kept, Written
  <1>2. \A i \in B!Item : ItemKept(i)' /\ (BatchSettled(i) => BatchSettled(i)')
    BY <1>1, SameStays, InvIs
  <1>3. QED
    BY <1>1, <1>2

LEMMA NoRunIs ==
    B!NoRun \in Runs /\ B!NoRun.pc = "idle" /\ B!NoRun.next = 1 /\ B!NoRun.failed = FALSE
    /\ B!NoRun.fate = [i \in B!Item |-> "none"]
  BY DEF B!NoRun, Runs, Places, Fates

\* An attempt ends.
LEMMA EndKeeps ==
    ASSUME BatchInv, Kept, Written, attempt' = attempt, NEW s \in RunStates \ {"running"}, B!End(s),
           \A i \in B!Item : ItemKept(i)', s = "succeeded" => \A i \in B!Item : BatchSettled(i)'
    PROVE  BatchInv'
  <1>1. state' = s /\ run' = B!NoRun /\ run'.pc = "idle" /\ kind' = kind
    BY NoRunIs DEF B!End, Kept
  <1>2. BatchTyped'
    BY <1>1, NoRunIs, InvIs DEF BatchTyped, Written, Kept
  <1>3. AtWork'
    BY <1>1 DEF AtWork, Looping, Importing
  <1>4. run'.pc \notin Looping /\ run'.pc \notin Importing
    BY <1>1 DEF Looping, Importing
  <1>5. QED
    BY <1>1, <1>2, <1>3, <1>4 DEF BatchInv

LEMMA AdvanceIs ==
    ASSUME BatchInv, NEW f \in BOOLEAN, B!Advance(f)
    PROVE  /\ run' \in Runs /\ run'.pc = "loop" /\ run'.next = B!item + 1
           /\ run'.failed = (run.failed \/ f)
  <1>1. run \in Runs
    BY InvIs
  <1>2. run' = [pc |-> "loop", next |-> run.next + 1, failed |-> run.failed \/ f, fate |-> run.fate]
    BY <1>1 DEF B!Advance, B!item, Runs
  <1>3. run.next + 1 \in Nat /\ run.fate \in [B!Item -> Fates] /\ (run.failed \/ f) \in BOOLEAN
    BY InvIs
  <1>4. "loop" \in Places
    BY DEF Places, Looping
  <1>5. run' \in Runs
    BY <1>2, <1>3, <1>4 DEF Runs
  <1>6. QED
    BY <1>2, <1>5 DEF B!item

\* The next item.
LEMMA AdvanceKeeps ==
    ASSUME B!BatchAssumption, BatchInv, Kept, Written, UNCHANGED <<state, attempt>>,
           run.pc \in Looping, NEW k \in B!Item, k = B!item, NEW f \in BOOLEAN, B!Advance(f),
           \A i \in B!Item : ItemKept(i)', \A i \in B!Item \ {k} : BatchSettled(i) => BatchSettled(i)',
           ~run.failed /\ ~f => BatchSettled(k)'
    PROVE  BatchInv'
  <1>1. B!item \in Nat /\ run.failed \in BOOLEAN
    BY InvIs DEF B!item
  <1>2. /\ run' \in Runs /\ run'.pc = "loop" /\ run'.next = B!item + 1
        /\ run'.failed = (run.failed \/ f)
    BY AdvanceIs
  <1>3. kind' = kind /\ kind # "import" /\ state = "running"
    BY InvIs DEF Kept, AtWork, Looping
  <1>4. BatchTyped'
    BY <1>2, <1>3, InvIs DEF BatchTyped, Written, Kept
  <1>5. B!item' = k + 1 /\ k + 1 \in 1 .. N + 1 /\ k \in Nat
    BY <1>1, <1>2 DEF B!item, B!Item, B!BatchAssumption
  <1>6. AtWork'
    BY <1>2, <1>3, <1>5 DEF AtWork, Looping, Importing
  <1>7. ASSUME ~run'.failed, NEW i \in B!Item, i < B!item' PROVE BatchSettled(i)'
    <2>1. ~run.failed /\ ~f
      BY <1>1, <1>2, <1>7
    <2>2. CASE i = k
      BY <2>1, <2>2
    <2>3. CASE i # k
      <3>1. i < B!item
        BY <1>1, <1>5, <1>7, <2>3 DEF B!Item
      <3>2. BatchSettled(i)
        BY <2>1, <3>1, InvIs
      <3>3. QED
        BY <2>3, <3>2
    <2>4. QED
      BY <2>2, <2>3
  <1>8. run'.pc \notin Importing /\ state' # "succeeded"
    BY <1>2, <1>3 DEF Importing
  <1>9. QED
    BY <1>2, <1>4, <1>6, <1>7, <1>8 DEF BatchInv

-----------------------------------------------------------------------------
(* The actions.                                                              *)

LEMMA AtItemIs ==
    ASSUME B!BatchAssumption, BatchInv, NEW K, B!AtItem(K)
    PROVE  run.pc = "loop" /\ run.pc \in Looping /\ B!item \in B!Item /\ kind \in K
  <1>1. run.pc = "loop" /\ B!item <= N /\ kind \in K
    BY DEF B!AtItem
  <1>2. B!item \in 1 .. N + 1
    BY <1>1, InvIs DEF AtWork, Looping
  <1>3. QED
    BY <1>1, <1>2 DEF B!Item, Looping, B!BatchAssumption

LEMMA WorkIs ==
    ASSUME BatchInv, run.pc = "work"
    PROVE  run.pc \in Looping /\ B!item \in B!Item /\ kind \in {"delete", "reindex"} /\ ~B!Resolved(B!item)
           /\ mark[B!item] # "committed" /\ effects[B!item] = 0
  <1>1. run.pc \in Looping /\ B!item \in B!Item /\ kind \in {"delete", "reindex"} /\ ~B!Resolved(B!item)
    BY InvIs DEF AtWork, Looping
  <1>2. mark[B!item] # "committed"
    BY <1>1 DEF B!Resolved
  <1>3. ItemKept(B!item)
    BY <1>1, InvIs
  <1>4. QED
    BY <1>1, <1>2, <1>3 DEF ItemKept

LEMMA SkipKeeps ==
    ASSUME B!BatchAssumption, BatchInv, B!SkipResolved, UNCHANGED <<kind, policy>>
    PROVE  BatchInv'
  <1>0. PICK k \in B!Item : k = B!item
    BY AtItemIs DEF B!SkipResolved
  <1>1. run.pc \in Looping /\ kind \in {"delete", "reindex"} /\ B!Resolved(k) /\ B!Advance(FALSE)
        /\ UNCHANGED <<kind, state, attempt, mark, target, sources, effects, dropped, incidents>>
    BY <1>0, AtItemIs DEF B!SkipResolved
  <1>2. Kept /\ Written /\ \A i \in B!Item : ItemKept(i)' /\ (BatchSettled(i) => BatchSettled(i)')
    BY <1>1, AllStay
  <1>3. BatchSettled(k)
    BY <1>1, InvIs DEF ItemKept
  <1>4. QED
    BY <1>0, <1>1, <1>2, <1>3, AdvanceKeeps

\* The marker that is put on an item that had not been settled.
LEMMA MarkedIs ==
    ASSUME BatchInv, NEW k \in B!Item, mark[k] # "committed", NEW m \in Marks, mark' = B!Marked(k, m),
           UNCHANGED <<kind, sources, effects, dropped>>, target' \in [B!Item -> Targets],
           \A i \in B!Item \ {k} : target'[i] = target[i]
    PROVE  mark'[k] = m /\ OnlyAbout(k)
  <1>1. mark \in [B!Item -> Marks] /\ effects \in [B!Item -> Nat]
    BY InvIs
  <1>2. mark' = [mark EXCEPT ![k] = m]
    BY DEF B!Marked
  <1>3. mark' \in [B!Item -> Marks] /\ mark'[k] = m /\ \A i \in B!Item \ {k} : mark'[i] = mark[i]
    BY <1>1, <1>2
  <1>4. QED
    BY <1>1, <1>3 DEF OnlyAbout, Kept, Written

LEMMA ReadItemKeeps ==
    ASSUME B!BatchAssumption, BatchInv, B!ReadItem, UNCHANGED <<kind, policy>>
    PROVE  BatchInv'
  <1>0. PICK k \in B!Item : k = B!item
    BY AtItemIs DEF B!ReadItem
  <1>1. run.pc = "loop" /\ run.pc \in Looping /\ kind \in {"delete", "reindex"} /\ ~B!Resolved(k)
        /\ UNCHANGED <<kind, state, attempt, target, sources, effects, dropped, incidents>>
    BY <1>0, AtItemIs DEF B!ReadItem
  <1>2. mark[k] # "committed" /\ ItemKept(k)
    BY <1>1, InvIs DEF B!Resolved
  <1>3. CASE kind = "reindex" /\ target[k] # "ready"
    <2>1. mark' = B!Marked(k, "skipped") /\ B!Advance(FALSE)
      BY <1>0, <1>3 DEF B!ReadItem
    <2>2. mark'[k] = "skipped" /\ OnlyAbout(k)
      BY <1>1, <1>2, <2>1, InvIs, MarkedIs DEF Marks
    <2>3. BatchSettled(k)'
      BY <1>1, <1>3 DEF BatchSettled
    <2>4. ItemKept(k)'
      BY <1>1, <1>2, <1>3, <2>2, <2>3 DEF ItemKept
    <2>5. \A i \in B!Item \ {k} : ItemKept(i)' /\ (BatchSettled(i) => BatchSettled(i)')
      BY <2>2, OthersStay
    <2>6. Kept /\ Written
      BY <2>2 DEF OnlyAbout
    <2>7. QED
      BY <1>0, <1>1, <2>1, <2>3, <2>4, <2>5, <2>6, AdvanceKeeps
  <1>4. CASE ~(kind = "reindex" /\ target[k] # "ready")
    <2>1. run' = [run EXCEPT !.pc = "work"] /\ UNCHANGED mark
      BY <1>0, <1>4 DEF B!ReadItem
    <2>2. run \in Runs /\ run.failed \in BOOLEAN /\ "work" \in Places
      BY InvIs DEF Places, Looping
    <2>3. run' \in Runs /\ run'.pc = "work" /\ B!item' = B!item /\ run'.failed = run.failed
      BY <2>1, <2>2 DEF Runs, B!item
    <2>4. \A i \in B!Item : ItemKept(i)' /\ (BatchSettled(i) => BatchSettled(i)')
      BY <1>1, <2>1, AllStay
    <2>5. BatchTyped'
      BY <1>1, <2>1, <2>3, InvIs DEF BatchTyped
    <2>6. ~B!Resolved(B!item)'
      BY <1>0, <1>1, <2>1, <2>3 DEF B!Resolved
    <2>7. B!item \in 1 .. N + 1
      BY <1>1, InvIs DEF AtWork
    <2>8. AtWork'
      BY <1>0, <1>1, <2>3, <2>6, <2>7 DEF AtWork, Looping, Importing
    <2>9. state # "succeeded"
      BY <1>1, InvIs DEF Looping
    <2>10. ~run'.failed => \A i \in B!Item : i < B!item' => BatchSettled(i)'
      BY <1>1, <2>3, <2>4, InvIs
    <2>11. QED
      BY <1>1, <2>3, <2>4, <2>5, <2>8, <2>9, <2>10 DEF BatchInv, Importing
  <1>5. QED
    BY <1>3, <1>4

\* An item takes effect once, and is marked with it.
LEMMA EffectIs ==
    ASSUME BatchInv, NEW k \in B!Item, NEW t \in Targets, B!Effect(k, t), effects[k] = 0,
           UNCHANGED <<kind, sources, dropped>>
    PROVE  /\ OnlyAbout(k) /\ Kept /\ Written
           /\ target'[k] = t /\ effects'[k] = 1 /\ mark'[k] = "committed"
  <1>1. mark \in [B!Item -> Marks] /\ target \in [B!Item -> Targets] /\ effects \in [B!Item -> Nat]
    BY InvIs
  <1>2. /\ target' = [target EXCEPT ![k] = t] /\ effects' = [effects EXCEPT ![k] = effects[k] + 1]
        /\ mark' = [mark EXCEPT ![k] = "committed"]
    BY DEF B!Effect
  <1>3. mark' \in [B!Item -> Marks] /\ mark'[k] = "committed" /\ \A i \in B!Item \ {k} : mark'[i] = mark[i]
    BY <1>1, <1>2 DEF Marks
  <1>4. target' \in [B!Item -> Targets] /\ target'[k] = t /\ \A i \in B!Item \ {k} : target'[i] = target[i]
    BY <1>1, <1>2
  <1>5. effects' \in [B!Item -> Nat] /\ effects'[k] = 1 /\ \A i \in B!Item \ {k} : effects'[i] = effects[i]
    BY <1>1, <1>2
  <1>6. QED
    BY <1>3, <1>4, <1>5 DEF OnlyAbout, Kept, Written

LEMMA EffectKeeps ==
    ASSUME B!BatchAssumption, BatchInv, run.pc \in Looping, NEW k \in B!Item, k = B!item,
           NEW t \in Targets, B!Effect(k, t), effects[k] = 0, UNCHANGED <<kind, state, attempt, sources, dropped>>,
           NEW f \in BOOLEAN, B!Advance(f), kind = "delete" => t # "ready", kind = "restore" => t = "ready"
    PROVE  BatchInv'
  <1>1. /\ OnlyAbout(k) /\ Kept /\ Written /\ kind' = kind /\ kind # "import"
        /\ target'[k] = t /\ effects'[k] = 1 /\ mark'[k] = "committed"
    BY EffectIs, InvIs DEF AtWork
  <1>2. BatchSettled(k)'
    BY <1>1 DEF BatchSettled
  <1>3. ItemKept(k)'
    BY <1>1, <1>2 DEF ItemKept
  <1>4. \A i \in B!Item \ {k} : ItemKept(i)' /\ (BatchSettled(i) => BatchSettled(i)')
    BY <1>1, OthersStay
  <1>5. QED
    BY <1>1, <1>2, <1>3, <1>4, AdvanceKeeps

LEMMA ReindexKeeps ==
    ASSUME B!BatchAssumption, BatchInv, B!Reindex, UNCHANGED <<kind, policy>>
    PROVE  BatchInv'
  <1>1. run.pc = "work"
    BY DEF B!Reindex
  <1>2. PICK k \in B!Item : k = B!item
    BY <1>1, WorkIs
  <1>3. run.pc \in Looping /\ effects[k] = 0
    BY <1>1, <1>2, WorkIs
  <1>4. /\ kind = "reindex" /\ B!Effect(k, "ready") /\ "ready" \in Targets
        /\ UNCHANGED <<kind, state, attempt, sources, dropped>>
    BY <1>2 DEF B!Reindex, Targets
  <1>5. PICK f \in BOOLEAN : B!Advance(f)
    BY DEF B!Reindex
  <1>6. QED
    BY <1>2, <1>3, <1>4, <1>5, EffectKeeps

LEMMA DeleteKeeps ==
    ASSUME B!BatchAssumption, BatchInv, B!Delete, UNCHANGED <<kind, policy>>
    PROVE  BatchInv'
  <1>1. run.pc = "work" /\ kind = "delete"
    BY DEF B!Delete
  <1>2. PICK k \in B!Item : k = B!item
    BY <1>1, WorkIs
  <1>3. run.pc \in Looping /\ effects[k] = 0 /\ ~B!Resolved(k) /\ mark[k] # "committed"
    BY <1>1, <1>2, WorkIs
  <1>4. UNCHANGED <<kind, state, attempt, sources, dropped>>
    BY DEF B!Delete
  <1>5. CASE B!Effect(k, "fenced") /\ B!Advance(TRUE)
    BY <1>1, <1>2, <1>3, <1>4, <1>5, EffectKeeps DEF Targets
  <1>6. CASE B!Effect(k, "gone") /\ B!Advance(FALSE)
    BY <1>1, <1>2, <1>3, <1>4, <1>6, EffectKeeps DEF Targets
  <1>7. CASE /\ target[k] # "ready" /\ B!Advance(FALSE)
             /\ target' = [target EXCEPT ![k] = "gone"] /\ mark' = B!Marked(k, "committed")
             /\ UNCHANGED <<effects, incidents>>
    <2>1. target \in [B!Item -> Targets] /\ "gone" \in Targets
      BY InvIs DEF Targets
    <2>2. /\ target' \in [B!Item -> Targets] /\ target'[k] = "gone"
          /\ \A i \in B!Item \ {k} : target'[i] = target[i]
      BY <1>7, <2>1
    <2>3. mark'[k] = "committed" /\ OnlyAbout(k)
      BY <1>3, <1>4, <1>7, <2>2, MarkedIs DEF Marks
    <2>4. BatchSettled(k)'
      BY <1>1, <1>4, <2>2 DEF BatchSettled
    <2>5. ItemKept(k)'
      BY <1>1, <1>3, <1>4, <1>7, <2>2, <2>3, <2>4 DEF ItemKept
    <2>6. \A i \in B!Item \ {k} : ItemKept(i)' /\ (BatchSettled(i) => BatchSettled(i)')
      BY <2>3, OthersStay
    <2>7. Kept /\ Written
      BY <2>3 DEF OnlyAbout
    <2>8. QED
      BY <1>2, <1>3, <1>4, <1>7, <2>4, <2>5, <2>6, <2>7, AdvanceKeeps
  <1>8. QED
    BY <1>2, <1>5, <1>6, <1>7 DEF B!Delete

LEMMA WorkFailsKeeps ==
    ASSUME B!BatchAssumption, BatchInv, B!WorkFails, UNCHANGED <<kind, policy>>
    PROVE  BatchInv'
  <1>1. run.pc = "work"
    BY DEF B!WorkFails
  <1>2. PICK k \in B!Item : k = B!item
    BY <1>1, WorkIs
  <1>3. run.pc \in Looping /\ effects[k] = 0 /\ mark[k] # "committed" /\ kind # "restore"
    BY <1>1, <1>2, WorkIs
  <1>4. /\ UNCHANGED <<kind, state, attempt, target, sources, effects, dropped>>
        /\ mark' = B!Marked(k, "failed") /\ B!Advance(TRUE)
    BY <1>2 DEF B!WorkFails
  <1>5. mark'[k] = "failed" /\ OnlyAbout(k)
    BY <1>3, <1>4, InvIs, MarkedIs DEF Marks
  <1>6. ItemKept(k)'
    BY <1>3, <1>4, <1>5 DEF ItemKept, B!Resolved
  <1>7. \A i \in B!Item \ {k} : ItemKept(i)' /\ (BatchSettled(i) => BatchSettled(i)')
    BY <1>5, OthersStay
  <1>8. Kept /\ Written
    BY <1>5 DEF OnlyAbout
  <1>9. QED
    BY <1>2, <1>3, <1>4, <1>6, <1>7, <1>8, AdvanceKeeps

LEMMA CopyIs ==
    ASSUME BatchInv, run.pc = "copy"
    PROVE  run.pc \in Looping /\ B!item \in B!Item /\ kind = "restore" /\ effects[B!item] = 0
  <1>1. run.pc \in Looping /\ B!item \in B!Item /\ kind = "restore" /\ target[B!item] = "started"
    BY InvIs DEF AtWork, Looping
  <1>2. ItemKept(B!item)
    BY <1>1, InvIs
  <1>3. QED
    BY <1>1, <1>2 DEF ItemKept

LEMMA RestorePublishesKeeps ==
    ASSUME B!BatchAssumption, BatchInv, B!RestorePublishes, UNCHANGED <<kind, policy>>
    PROVE  BatchInv'
  <1>1. run.pc = "copy"
    BY DEF B!RestorePublishes
  <1>2. PICK k \in B!Item : k = B!item
    BY <1>1, CopyIs
  <1>3. /\ run.pc \in Looping /\ kind = "restore" /\ effects[k] = 0 /\ B!Effect(k, "ready") /\ B!Advance(FALSE)
        /\ UNCHANGED <<kind, state, attempt, sources, dropped>>
    BY <1>1, <1>2, CopyIs DEF B!RestorePublishes
  <1>4. QED
    BY <1>2, <1>3, EffectKeeps DEF Targets

LEMMA RestoreNextKeeps ==
    ASSUME B!BatchAssumption, BatchInv, B!RestoreNext, UNCHANGED <<kind, policy>>
    PROVE  BatchInv'
  <1>1. PICK k \in B!Item : k = B!item
    BY AtItemIs DEF B!RestoreNext
  <1>2. /\ run.pc = "loop" /\ run.pc \in Looping /\ kind = "restore"
        /\ UNCHANGED <<kind, state, attempt, mark, sources, effects, dropped>>
    BY AtItemIs DEF B!RestoreNext
  <1>3. CASE k \notin sources \/ target[k] = "ready"
    <2>1. B!Advance(FALSE) /\ UNCHANGED target
      BY <1>1, <1>3 DEF B!RestoreNext
    <2>2. Kept /\ Written /\ \A i \in B!Item : ItemKept(i)' /\ (BatchSettled(i) => BatchSettled(i)')
      BY <1>2, <2>1, AllStay
    <2>3. BatchSettled(k)'
      BY <1>2, <1>3, <2>2 DEF BatchSettled
    <2>4. QED
      BY <1>1, <1>2, <2>1, <2>2, <2>3, AdvanceKeeps
  <1>4. CASE ~(k \notin sources \/ target[k] = "ready")
    <2>1. run' = [run EXCEPT !.pc = "copy"] /\ target' = [target EXCEPT ![k] = "started"]
      BY <1>1, <1>4 DEF B!RestoreNext
    <2>2. run \in Runs /\ run.failed \in BOOLEAN /\ "copy" \in Places /\ target \in [B!Item -> Targets]
      BY InvIs DEF Places, Looping
    <2>3. run' \in Runs /\ run'.pc = "copy" /\ B!item' = k /\ B!item' = B!item /\ run'.failed = run.failed
      BY <1>1, <2>1, <2>2 DEF Runs, B!item
    <2>4. /\ target' \in [B!Item -> Targets] /\ target'[k] = "started"
          /\ \A i \in B!Item \ {k} : target'[i] = target[i]
      BY <2>1, <2>2 DEF Targets
    <2>5. OnlyAbout(k)
      BY <1>2, <2>4, InvIs DEF OnlyAbout, Kept, Written
    <2>6. \A i \in B!Item \ {k} : ItemKept(i)' /\ (BatchSettled(i) => BatchSettled(i)')
      BY <2>5, OthersStay
    <2>7. ItemKept(k)
      BY InvIs
    <2>8. ItemKept(k)'
      BY <1>2, <1>4, <2>4, <2>7 DEF ItemKept
    <2>9. BatchTyped'
      BY <1>2, <2>3, <2>4, InvIs DEF BatchTyped
    <2>10. B!item \in 1 .. N + 1
      BY <1>2, InvIs DEF AtWork
    <2>11. AtWork'
      BY <1>2, <2>3, <2>4, <2>10 DEF AtWork, Looping, Importing
    <2>12. state # "succeeded"
      BY <1>2, InvIs DEF Looping
    <2>13. ASSUME ~run'.failed, NEW i \in B!Item, i < B!item' PROVE BatchSettled(i)'
      <3>1. i # k /\ BatchSettled(i)
        BY <1>2, <2>3, <2>13, InvIs DEF B!Item
      <3>2. QED
        BY <2>6, <3>1
    <2>14. QED
      BY <1>2, <2>3, <2>6, <2>8, <2>9, <2>11, <2>12, <2>13 DEF BatchInv, Importing
  <1>5. QED
    BY <1>3, <1>4

LEMMA AroundKeeps ==
    ASSUME B!BatchAssumption, BatchInv, B!Claim \/ B!Retry, UNCHANGED <<kind, policy>>
    PROVE  BatchInv'
  <1>1. UNCHANGED <<kind, mark, target, sources, effects, dropped>>
    BY DEF B!Claim, B!Retry
  <1>2. \A i \in B!Item : ItemKept(i)' /\ (BatchSettled(i) => BatchSettled(i)')
    BY <1>1, AllStay
  <1>3. CASE B!Claim
    <2>1. /\ attempt \in 0 .. MaxAttempts /\ attempt < MaxAttempts /\ state' = "running"
          /\ attempt' = attempt + 1
          /\ run' = [B!NoRun EXCEPT !.pc = IF kind = "import" THEN "prepare" ELSE "loop"]
      BY <1>3, InvIs DEF B!Claim
    <2>2. attempt' \in 0 .. MaxAttempts
      BY <2>1 DEF B!BatchAssumption
    <2>3. run' \in Runs /\ run'.pc = (IF kind = "import" THEN "prepare" ELSE "loop") /\ run'.next = 1
      BY <2>1, NoRunIs DEF Runs, Places, Looping
    <2>4. BatchTyped'
      BY <1>1, <2>1, <2>2, <2>3, InvIs DEF BatchTyped, RunStates
    <2>5. AtWork'
      BY <1>1, <2>3 DEF AtWork, Looping, Importing, B!item, B!BatchAssumption
    <2>6. \A i \in B!Item : ~(i < B!item')
      BY <2>3 DEF B!item, B!Item, B!BatchAssumption
    <2>7. QED
      BY <1>2, <2>1, <2>3, <2>4, <2>5, <2>6 DEF BatchInv, Importing
  <1>4. CASE B!Retry
    <2>1. state = "failed" /\ state' = "queued" /\ UNCHANGED <<attempt, run>>
      BY <1>4 DEF B!Retry
    <2>2. run.pc = "idle"
      BY <2>1, InvIs DEF Places, Looping, Importing
    <2>3. BatchTyped'
      BY <1>1, <2>1, <2>2, InvIs DEF BatchTyped, RunStates
    <2>4. AtWork'
      BY <2>1, <2>2 DEF AtWork, Looping, Importing
    <2>5. QED
      BY <1>2, <2>1, <2>2, <2>3, <2>4 DEF BatchInv, Looping, Importing
  <1>5. QED
    BY <1>3, <1>4

LEMMA EndsKeep ==
    ASSUME B!BatchAssumption, BatchInv, B!Crash \/ B!MarkFails \/ B!RestoreFails, UNCHANGED <<kind, policy>>
    PROVE  BatchInv'
  <1>1. UNCHANGED <<kind, attempt, mark, target, sources, effects, dropped>>
    BY DEF B!Crash, B!MarkFails, B!RestoreFails
  <1>2. PICK s \in {"queued", "failed"} : B!End(s)
    BY DEF B!Crash, B!MarkFails, B!RestoreFails
  <1>3. Kept /\ Written /\ \A i \in B!Item : ItemKept(i)'
    BY <1>1, AllStay
  <1>4. QED
    BY <1>1, <1>2, <1>3, EndKeeps DEF RunStates

LEMMA FinishKeeps ==
    ASSUME B!BatchAssumption, BatchInv, B!Finish, UNCHANGED <<kind, policy>>
    PROVE  BatchInv'
  <1>1. /\ run.pc = "loop" /\ B!item > N /\ UNCHANGED <<kind, attempt, mark, target, sources, effects, dropped>>
        /\ B!End(B!Answer(run.failed)) /\ run.failed \in BOOLEAN /\ B!item \in Nat
    BY InvIs DEF B!Finish, B!item
  <1>2. Kept /\ Written /\ \A i \in B!Item : ItemKept(i)' /\ (BatchSettled(i) => BatchSettled(i)')
    BY <1>1, AllStay
  <1>3. B!Answer(run.failed) = IF run.failed THEN "failed" ELSE "succeeded"
    BY DEF B!Answer
  <1>4. ~run.failed => \A i \in B!Item : BatchSettled(i)'
    <2>1. \A i \in B!Item : i < B!item
      BY <1>1 DEF B!Item, B!BatchAssumption
    <2>2. QED
      BY <1>1, <1>2, <2>1, InvIs DEF Looping
  <1>5. CASE run.failed
    BY <1>1, <1>2, <1>3, <1>5, EndKeeps DEF RunStates
  <1>6. CASE ~run.failed
    BY <1>1, <1>2, <1>3, <1>4, <1>6, EndKeeps DEF RunStates
  <1>7. QED
    BY <1>1, <1>5, <1>6

LEMMA OtherDeletesKeeps ==
    ASSUME B!BatchAssumption, BatchInv, NEW k \in B!Item, B!OtherDeletes(k), UNCHANGED <<kind, policy>>
    PROVE  BatchInv'
  <1>1. /\ UNCHANGED <<kind, state, attempt, mark, effects, dropped, run>> /\ B!item' = B!item
        /\ kind # "import"
    BY DEF B!OtherDeletes, B!item
  <1>2. /\ OnlyAbout(k) /\ (BatchSettled(k) => BatchSettled(k)') /\ ItemKept(k)'
        /\ kind = "restore" => UNCHANGED target
    <2>1. CASE /\ kind \in {"delete", "reindex"} /\ target[k] = "ready"
               /\ target' = [target EXCEPT ![k] = "fenced"] /\ UNCHANGED sources
      <3>1. target \in [B!Item -> Targets] /\ "fenced" \in Targets
        BY InvIs DEF Targets
      <3>2. /\ target' \in [B!Item -> Targets] /\ target'[k] = "fenced"
            /\ \A i \in B!Item \ {k} : target'[i] = target[i]
        BY <2>1, <3>1
      <3>3. OnlyAbout(k)
        BY <1>1, <2>1, <3>2, InvIs DEF OnlyAbout, Kept, Written
      <3>4. BatchSettled(k)'
        BY <1>1, <2>1, <3>2 DEF BatchSettled
      <3>5. ItemKept(k)
        BY InvIs
      <3>6. ItemKept(k)'
        BY <1>1, <2>1, <3>2, <3>4, <3>5 DEF ItemKept
      <3>7. QED
        BY <2>1, <3>3, <3>4, <3>6
    <2>2. CASE kind = "restore" /\ sources' = sources \ {k} /\ UNCHANGED target
      <3>1. Kept /\ Written /\ \A i \in B!Item : ItemKept(i)' /\ (BatchSettled(i) => BatchSettled(i)')
        BY <1>1, <2>2, AllStay
      <3>2. QED
        BY <1>1, <2>2, <3>1 DEF OnlyAbout
    <2>3. QED
      BY <2>1, <2>2 DEF B!OtherDeletes
  <1>3. \A i \in B!Item : ItemKept(i)' /\ (BatchSettled(i) => BatchSettled(i)')
    BY <1>2, OthersStay
  <1>4. BatchTyped'
    BY <1>1, <1>2, InvIs DEF BatchTyped, OnlyAbout, Written, Kept
  <1>5. B!Resolved(B!item)' <=> B!Resolved(B!item)
    BY <1>1 DEF B!Resolved
  <1>6. run.pc \notin Importing
    BY <1>1, InvIs DEF AtWork
  <1>7. AtWork'
    BY <1>1, <1>2, <1>5, InvIs DEF AtWork
  <1>8. QED
    BY <1>1, <1>3, <1>4, <1>6, <1>7, InvIs DEF BatchInv

-----------------------------------------------------------------------------
(* Imports.                                                                  *)

LEMMA ImportKeeps ==
    ASSUME BatchInv, Kept, Written, UNCHANGED <<state, attempt>>, run.pc # "idle", kind = "import",
           run' \in Runs, run'.pc \in Importing, \A i \in B!Item : ItemKept(i)' /\ FateKept(i)',
           run'.pc = "plan" => \A i \in B!Item : run'.fate[i] \in {"planned", "committed", "skipped"},
           run'.pc = "workers" => \A i \in B!Item : run'.fate[i] # "none"
    PROVE  BatchInv'
  <1>1. kind' = "import" /\ state = "running"
    BY InvIs DEF Kept
  <1>2. BatchTyped'
    BY <1>1, InvIs DEF BatchTyped, Written, Kept, Importing
  <1>3. AtWork'
    BY <1>1 DEF AtWork, Looping, Importing
  <1>4. run'.pc \notin Looping /\ state' # "succeeded"
    BY <1>1 DEF Looping, Importing
  <1>5. QED
    BY <1>2, <1>3, <1>4 DEF BatchInv

LEMMA PrepareKeeps ==
    ASSUME B!BatchAssumption, BatchInv, B!prepareImportFilesOperation, UNCHANGED <<kind, policy>>
    PROVE  BatchInv'
  <1> DEFINE fate == [i \in B!Item |-> IF B!Resolved(i) THEN mark[i] ELSE "planned"]
  <1>1. /\ run.pc = "prepare" /\ kind = "import"
        /\ mark' = [i \in B!Item |-> IF B!Resolved(i) THEN mark[i] ELSE "pending"]
        /\ run' = [run EXCEPT !.pc = "plan", !.fate = fate]
        /\ UNCHANGED <<kind, state, attempt, target, sources, effects, dropped>>
    BY InvIs DEF B!prepareImportFilesOperation, AtWork
  <1>2. mark \in [B!Item -> Marks] /\ run \in Runs
    BY InvIs
  <1>3. fate \in [B!Item -> Fates] /\ mark' \in [B!Item -> Marks]
        /\ \A i \in B!Item :
              /\ fate[i] \in {"planned", "committed", "skipped"}
              /\ B!Resolved(i) => mark'[i] = mark[i] /\ fate[i] = mark[i]
              /\ ~B!Resolved(i) => mark'[i] = "pending" /\ fate[i] = "planned"
    BY <1>1, <1>2 DEF B!Resolved, Fates, Marks
  <1>4. "plan" \in Places
    BY DEF Places, Importing
  <1> HIDE DEF fate
  <1>5. run' = [pc |-> "plan", next |-> run.next, failed |-> run.failed, fate |-> fate]
    BY <1>1, <1>2 DEF Runs
  <1>6. run' \in Runs /\ run'.pc = "plan" /\ run'.fate = fate
    BY <1>3, <1>4, <1>5, InvIs DEF Runs
  <1>7. Kept /\ Written
    BY <1>1, <1>3, InvIs DEF Kept, Written
  <1>8. ASSUME NEW i \in B!Item PROVE ItemKept(i)' /\ FateKept(i)'
    <2>1. ItemKept(i) /\ kind' = "import"
      BY <1>1, InvIs
    <2>2. CASE B!Resolved(i)
      <3>1. mark'[i] = mark[i] /\ run'.fate[i] = mark[i] /\ BatchSettled(i) /\ mark[i] \in {"committed", "skipped"}
        BY <1>1, <1>3, <1>6, <2>1, <2>2 DEF ItemKept, B!Resolved
      <3>2. ItemKept(i)' /\ BatchSettled(i)'
        BY <1>1, <1>7, <2>1, <3>1, SameStays
      <3>3. QED
        BY <3>1, <3>2 DEF FateKept
    <2>3. CASE ~B!Resolved(i)
      <3>1. mark'[i] = "pending" /\ run'.fate[i] = "planned" /\ mark[i] # "committed"
        BY <1>3, <1>6, <2>3 DEF B!Resolved
      <3>2. ItemKept(i)'
        BY <1>1, <2>1, <3>1 DEF ItemKept, B!Resolved
      <3>3. QED
        BY <3>1, <3>2 DEF FateKept
    <2>4. QED
      BY <2>2, <2>3
  <1>9. QED
    BY <1>1, <1>3, <1>6, <1>7, <1>8, ImportKeeps DEF Importing

LEMMA PlanIs ==
    ASSUME BatchInv, run.pc = "plan", NEW i \in B!Item
    PROVE  /\ kind = "import" /\ run.fate[i] \in {"planned", "committed", "skipped"}
           /\ B!Planned(i) => mark[i] = "pending"
           /\ ~B!Planned(i) => BatchSettled(i)
           /\ run.fate[i] = "committed" => mark[i] = "committed"
           /\ ItemKept(i) /\ FateKept(i)
  <1>1. /\ kind = "import" /\ run.fate[i] \in {"planned", "committed", "skipped"}
        /\ ItemKept(i) /\ FateKept(i)
    BY InvIs DEF AtWork, Importing
  <1>2. QED
    BY <1>1 DEF FateKept, B!Planned

\* What a plan deletes was started and is dropped.
LEMMA FencedIs ==
    ASSUME BatchInv, run.pc = "plan", NEW I, \A i \in I : B!Own(i), UNCHANGED <<kind, mark, sources, effects>>,
           target' = B!Fenced(I), dropped \cup I \subseteq dropped'
    PROVE  Kept /\ Written /\ \A i \in B!Item : ItemKept(i)' /\ (BatchSettled(i) => BatchSettled(i)')
  <1>1. target \in [B!Item -> Targets] /\ target' \in [B!Item -> Targets]
        /\ \A i \in B!Item : target'[i] = IF i \in I THEN "fenced" ELSE target[i]
    BY InvIs DEF B!Fenced, Targets
  <1>2. Kept /\ Written
    BY <1>1, InvIs DEF Kept, Written
  <1>3. ASSUME NEW i \in B!Item PROVE ItemKept(i)' /\ (BatchSettled(i) => BatchSettled(i)')
    <2>1. kind = "import" /\ kind' = "import" /\ ItemKept(i) /\ (B!Planned(i) => mark[i] = "pending")
      BY <1>2, PlanIs DEF Kept
    <2>2. CASE i \notin I
      BY <1>1, <1>2, <2>1, <2>2, SameStays
    <2>3. CASE i \in I
      <3>1. mark'[i] = "pending" /\ effects'[i] = effects[i] /\ i \in dropped'
        BY <2>1, <2>3 DEF B!Own
      <3>2. ItemKept(i)' /\ BatchSettled(i)'
        BY <2>1, <3>1 DEF ItemKept, BatchSettled, B!Resolved
      <3>3. QED
        BY <3>2
    <2>4. QED
      BY <2>2, <2>3
  <1>4. QED
    BY <1>2, <1>3

LEMMA PlanKeeps ==
    ASSUME B!BatchAssumption, BatchInv, B!planFileBatch, UNCHANGED <<kind, policy>>
    PROVE  BatchInv'
  <1>1. run.pc = "plan" /\ kind = "import" /\ UNCHANGED <<kind, attempt, mark, sources, effects>>
        /\ dropped' = dropped \cup {i \in B!Item : IF B!Conflicts THEN B!Planned(i) ELSE B!Own(i)}
    BY InvIs DEF B!planFileBatch, AtWork, Importing
  <1>2. CASE B!Conflicts
    <2>1. B!End("succeeded") /\ UNCHANGED target
      BY <1>2 DEF B!planFileBatch
    <2>2. Kept /\ Written /\ \A i \in B!Item : ItemKept(i)' /\ (BatchSettled(i) => BatchSettled(i)')
      BY <1>1, <2>1, AllStay
    <2>3. ASSUME NEW i \in B!Item PROVE BatchSettled(i)'
      <3>1. CASE B!Planned(i)
        <4>1. i \in dropped' /\ kind' = "import"
          BY <1>1, <1>2, <3>1
        <4>2. QED
          BY <4>1 DEF BatchSettled
      <3>2. CASE ~B!Planned(i)
        BY <1>1, <2>2, <3>2, PlanIs
      <3>3. QED
        BY <3>1, <3>2
    <2>4. QED
      BY <1>1, <2>1, <2>2, <2>3, EndKeeps DEF RunStates
  <1>3. CASE ~B!Conflicts
    <2> DEFINE I == IF policy = "replace" THEN {i \in B!Item : B!Own(i)} ELSE {}
    <2>0. PICK fate : fate = [i \in B!Item |-> IF policy # "replace" /\ B!Own(i) THEN "skipped" ELSE run.fate[i]]
      OBVIOUS
    <2>1. /\ run' = [run EXCEPT !.pc = "workers", !.fate = fate] /\ UNCHANGED state
          /\ target' = IF policy = "replace" THEN B!Fenced({i \in B!Item : B!Own(i)}) ELSE target
      BY <1>3, <2>0 DEF B!planFileBatch
    <2>2. run \in Runs /\ run.fate \in [B!Item -> Fates] /\ target \in [B!Item -> Targets]
      BY InvIs
    <2>3. /\ fate \in [B!Item -> Fates]
          /\ \A i \in B!Item : fate[i] \in {run.fate[i], "skipped"} /\ (fate[i] # run.fate[i] => B!Own(i))
      BY <2>0, <2>2 DEF Fates
    <2>4. "workers" \in Places
      BY DEF Places, Importing
    <2>5. target' = B!Fenced(I)
      <3>1. CASE policy = "replace"
        BY <2>1, <3>1
      <3>2. CASE policy # "replace"
        BY <2>1, <2>2, <3>2 DEF B!Fenced
      <3>3. QED
        BY <3>1, <3>2
    <2>6. (\A i \in I : B!Own(i)) /\ dropped \cup I \subseteq dropped'
      BY <1>1, <1>3
    <2> HIDE DEF I
    <2>7. Kept /\ Written /\ \A i \in B!Item : ItemKept(i)' /\ (BatchSettled(i) => BatchSettled(i)')
      BY <1>1, <2>5, <2>6, FencedIs
    <2>8. run' = [pc |-> "workers", next |-> run.next, failed |-> run.failed, fate |-> fate]
      BY <2>1, <2>2 DEF Runs
    <2>9. run' \in Runs /\ run'.pc = "workers" /\ run'.fate = fate
      BY <2>3, <2>4, <2>8, InvIs DEF Runs
    <2>10. ASSUME NEW i \in B!Item PROVE FateKept(i)' /\ fate[i] # "none"
      <3>1. run.fate[i] \in {"planned", "committed", "skipped"} /\ FateKept(i)
        BY <1>1, PlanIs
      <3>2. CASE fate[i] = run.fate[i]
        BY <1>1, <2>7, <2>9, <3>1, <3>2 DEF FateKept
      <3>3. CASE fate[i] # run.fate[i]
        <4>1. fate[i] = "skipped" /\ B!Own(i)
          BY <2>3, <3>3
        <4>2. i \in dropped'
          BY <1>1, <1>3, <4>1
        <4>3. BatchSettled(i)'
          BY <1>1, <4>2 DEF BatchSettled
        <4>4. QED
          BY <2>9, <4>1, <4>3 DEF FateKept
      <3>4. QED
        BY <3>2, <3>3
    <2>11. QED
      BY <1>1, <2>1, <2>7, <2>9, <2>10, ImportKeeps DEF Importing
  <1>4. QED
    BY <1>2, <1>3

LEMMA PlanFailsKeeps ==
    ASSUME B!BatchAssumption, BatchInv, B!PlanFails, UNCHANGED <<kind, policy>>
    PROVE  BatchInv'
  <1>1. run.pc = "plan" /\ B!End("failed") /\ UNCHANGED <<kind, attempt, mark, sources, effects>>
    BY DEF B!PlanFails
  <1>2. PICK I \in SUBSET {i \in B!Item : policy = "replace" /\ B!Own(i)} :
            target' = B!Fenced(I) /\ dropped' = dropped \cup I
    BY DEF B!PlanFails
  <1>3. Kept /\ Written /\ \A i \in B!Item : ItemKept(i)'
    BY <1>1, <1>2, FencedIs
  <1>4. QED
    BY <1>1, <1>3, EndKeeps DEF RunStates

LEMMA WorkersAre ==
    ASSUME BatchInv, run.pc = "workers"
    PROVE  /\ kind = "import" /\ run.pc # "idle"
           /\ \A i \in B!Item : ItemKept(i) /\ FateKept(i) /\ run.fate[i] # "none"
  BY InvIs DEF AtWork, Importing

\* One worker moves its file on.
LEMMA FileKeeps ==
    ASSUME BatchInv, run.pc = "workers", NEW k \in B!Item, NEW t \in Fates \ {"none"},
           run' = [run EXCEPT !.fate[k] = t], OnlyAbout(k), UNCHANGED <<state, attempt>>,
           ItemKept(k)', run'.fate[k] = t => FateKept(k)'
    PROVE  BatchInv'
  <1>1. run \in Runs /\ run.fate \in [B!Item -> Fates]
    BY InvIs
  <1>2. run' = [pc |-> run.pc, next |-> run.next, failed |-> run.failed, fate |-> [run.fate EXCEPT ![k] = t]]
    BY <1>1 DEF Runs
  <1>3. run' \in Runs /\ run'.pc = "workers" /\ run'.fate[k] = t
        /\ \A i \in B!Item \ {k} : run'.fate[i] = run.fate[i]
    BY <1>1, <1>2, InvIs DEF Runs
  <1>4. Kept /\ Written
    BY DEF OnlyAbout
  <1>5. ASSUME NEW i \in B!Item \ {k} PROVE ItemKept(i)' /\ FateKept(i)' /\ run'.fate[i] # "none"
    <2>1. FateKept(i) /\ run.fate[i] # "none" /\ ItemKept(i)' /\ (BatchSettled(i) => BatchSettled(i)')
      BY WorkersAre, OthersStay
    <2>2. mark'[i] = mark[i]
      BY DEF OnlyAbout
    <2>3. QED
      BY <1>3, <2>1, <2>2 DEF FateKept
  <1>6. \A i \in B!Item : ItemKept(i)' /\ FateKept(i)' /\ run'.fate[i] # "none"
    BY <1>3, <1>5
  <1>7. QED
    BY <1>3, <1>4, <1>6, WorkersAre, ImportKeeps DEF Importing

LEMMA FilesKeep ==
    ASSUME B!BatchAssumption, BatchInv, NEW k \in B!Item, B!StartFile(k) \/ B!PublishFile(k) \/ B!FileFails(k),
           UNCHANGED <<kind, policy>>
    PROVE  BatchInv'
  <1>1. /\ run.pc = "workers" /\ kind = "import" /\ kind' = "import" /\ ItemKept(k) /\ FateKept(k)
        /\ UNCHANGED <<kind, state, attempt, sources, dropped>>
    BY WorkersAre DEF B!StartFile, B!PublishFile, B!FileFails
  <1>2. CASE B!StartFile(k)
    <2>1. /\ run.fate[k] = "planned" /\ target' = [target EXCEPT ![k] = "started"]
          /\ run' = [run EXCEPT !.fate[k] = "started"] /\ UNCHANGED <<mark, effects>>
      BY <1>2 DEF B!StartFile, B!Planned
    <2>2. target \in [B!Item -> Targets]
      BY InvIs
    <2>3. /\ target' \in [B!Item -> Targets] /\ target'[k] = "started"
          /\ \A i \in B!Item \ {k} : target'[i] = target[i]
      BY <2>1, <2>2 DEF Targets
    <2>4. OnlyAbout(k)
      BY <1>1, <2>1, <2>3, InvIs DEF OnlyAbout, Kept, Written
    <2>5. mark'[k] = "pending" /\ effects'[k] = effects[k]
      BY <1>1, <2>1 DEF FateKept
    <2>6. ItemKept(k)' /\ (run'.fate[k] = "started" => FateKept(k)')
      BY <1>1, <2>1, <2>5 DEF ItemKept, FateKept, B!Resolved
    <2>7. QED
      BY <1>1, <2>1, <2>4, <2>6, FileKeeps DEF Fates
  <1>3. CASE B!PublishFile(k)
    <2>1. run.fate[k] = "started" /\ B!Effect(k, "ready") /\ run' = [run EXCEPT !.fate[k] = "committed"]
      BY <1>3 DEF B!PublishFile
    <2>2. effects[k] = 0
      BY <1>1, <2>1 DEF FateKept, ItemKept
    <2>3. OnlyAbout(k) /\ target'[k] = "ready" /\ effects'[k] = 1 /\ mark'[k] = "committed"
      BY <1>1, <2>1, <2>2, EffectIs DEF Targets
    <2>4. BatchSettled(k)'
      BY <1>1, <2>3 DEF BatchSettled
    <2>5. ItemKept(k)' /\ (run'.fate[k] = "committed" => FateKept(k)')
      BY <1>1, <2>3, <2>4 DEF ItemKept, FateKept
    <2>6. QED
      BY <1>1, <2>1, <2>3, <2>5, FileKeeps DEF Fates
  <1>4. CASE B!FileFails(k)
    <2>1. run' = [run EXCEPT !.fate[k] = "error"] /\ UNCHANGED <<mark, target, effects>>
      BY <1>4 DEF B!FileFails
    <2>2. Kept /\ Written /\ ItemKept(k)'
      BY <1>1, <2>1, AllStay
    <2>3. OnlyAbout(k)
      BY <2>1, <2>2 DEF OnlyAbout
    <2>4. run'.fate[k] = "error" => FateKept(k)'
      BY DEF FateKept
    <2>5. QED
      BY <1>1, <2>1, <2>2, <2>3, <2>4, FileKeeps DEF Fates
  <1>5. QED
    BY <1>2, <1>3, <1>4

LEMMA AllAnsweredKeeps ==
    ASSUME B!BatchAssumption, BatchInv, B!AllAnswered, UNCHANGED <<kind, policy>>
    PROVE  BatchInv'
  <1>1. /\ run.pc = "workers" /\ kind = "import" /\ kind' = "import"
        /\ \A i \in B!Item : run.fate[i] # "started"
        /\ B!Stopped \/ \A i \in B!Item : run.fate[i] # "planned"
        /\ UNCHANGED <<kind, attempt, target, sources, effects>>
    BY WorkersAre DEF B!AllAnswered
  <1>2. PICK n \in 0 .. N :
            /\ mark' = [i \in B!Item |-> IF i <= n THEN B!Marked(i, "skipped")[i] ELSE mark[i]]
            /\ dropped' = dropped \cup {i \in 1 .. n : run.fate[i] \in {"error", "planned"}}
            /\ IF n = N THEN B!End(B!Answer(B!Stopped)) ELSE B!End("failed")
    BY DEF B!AllAnswered
  <1>3. mark \in [B!Item -> Marks] /\ run.fate \in [B!Item -> Fates]
    BY InvIs
  <1>4. \A i \in B!Item : mark'[i] = IF i <= n /\ mark[i] # "committed" THEN "skipped" ELSE mark[i]
    BY <1>2, <1>3 DEF B!Marked
  <1>5. mark' \in [B!Item -> Marks]
    <2>1. \A i \in B!Item : (IF i <= n THEN B!Marked(i, "skipped")[i] ELSE mark[i]) \in Marks
      BY <1>3 DEF B!Marked, Marks
    <2>2. QED
      BY <1>2, <2>1
  <1>6. Kept /\ Written
    BY <1>1, <1>2, <1>5, InvIs DEF Kept, Written
  <1>7. ASSUME NEW i \in B!Item PROVE (BatchSettled(i) => BatchSettled(i)') /\ ItemKept(i)' /\ (i <= n => BatchSettled(i)')
    <2>1. ItemKept(i) /\ FateKept(i) /\ run.fate[i] \in Fates \ {"none", "started"}
      BY <1>1, <1>3, WorkersAre
    <2>2. BatchSettled(i) => BatchSettled(i)'
      BY <1>1, <1>6 DEF BatchSettled, Kept
    <2>3. ASSUME i <= n PROVE BatchSettled(i)'
      <3>1. CASE run.fate[i] \in {"error", "planned"}
        <4>1. i \in dropped'
          BY <1>2, <2>3, <3>1 DEF B!Item, B!BatchAssumption
        <4>2. QED
          BY <1>1, <4>1 DEF BatchSettled
      <3>2. CASE run.fate[i] \in {"committed", "skipped"}
        BY <2>1, <2>2, <3>2 DEF FateKept
      <3>3. QED
        BY <2>1, <3>1, <3>2 DEF Fates
    <2>4. CASE mark'[i] = mark[i]
      BY <1>1, <2>1, <2>2, <2>3, <2>4 DEF ItemKept, B!Resolved
    <2>5. CASE mark'[i] # mark[i]
      <3>1. i <= n /\ mark[i] # "committed" /\ mark'[i] = "skipped"
        BY <1>4, <2>5
      <3>2. QED
        BY <1>1, <2>1, <2>2, <2>3, <3>1 DEF ItemKept
    <2>6. QED
      BY <2>2, <2>3, <2>4, <2>5
  <1>8. CASE n = N
    <2>1. B!End(B!Answer(B!Stopped)) /\ \A i \in B!Item : i <= n
      BY <1>2, <1>8 DEF B!Item
    <2>2. B!Answer(B!Stopped) \in {"failed", "succeeded"}
      BY DEF B!Answer
    <2>3. \A i \in B!Item : ItemKept(i)' /\ BatchSettled(i)'
      BY <1>7, <2>1
    <2>4. QED
      BY <1>1, <1>6, <2>1, <2>2, <2>3, EndKeeps DEF RunStates
  <1>9. CASE n # N
    <2>1. B!End("failed")
      BY <1>2, <1>9
    <2>2. QED
      BY <1>1, <1>6, <1>7, <2>1, EndKeeps DEF RunStates
  <1>10. QED
    BY <1>8, <1>9

-----------------------------------------------------------------------------
LEMMA InitBatch ==
    ASSUME B!BatchAssumption, B!Init
    PROVE  BatchInv
  <1>1. /\ kind \in Kinds /\ state = "queued" /\ attempt = 0 /\ run = B!NoRun
        /\ mark = [i \in B!Item |-> "none"] /\ effects = [i \in B!Item |-> 0]
        /\ target = [i \in B!Item |-> IF kind \in {"delete", "reindex"} THEN "ready" ELSE "none"]
        /\ sources \subseteq B!Item
    BY DEF B!Init, Kinds
  <1>2. BatchTyped
    BY <1>1, NoRunIs DEF BatchTyped, RunStates, Marks, Targets, B!BatchAssumption
  <1>3. AtWork /\ run.pc \notin Looping /\ run.pc \notin Importing
    BY <1>1, NoRunIs DEF AtWork, Looping, Importing
  <1>4. \A i \in B!Item : ItemKept(i)
    BY <1>1 DEF ItemKept, B!Resolved
  <1>5. QED
    BY <1>1, <1>2, <1>3, <1>4 DEF BatchInv

LEMMA NextBatch ==
    ASSUME B!BatchAssumption, BatchInv, [B!Next]_B!vars
    PROVE  BatchInv'
  <1>1. ASSUME B!Next PROVE BatchInv'
    <2>1. UNCHANGED <<kind, policy>>
      BY <1>1 DEF B!Next
    <2>2. CASE B!Claim \/ B!Retry \/ B!Crash \/ B!MarkFails \/ B!RestoreFails \/ B!Finish
      BY <2>1, <2>2, AroundKeeps, EndsKeep, FinishKeeps
    <2>3. CASE B!SkipResolved \/ B!ReadItem \/ B!Reindex \/ B!Delete \/ B!WorkFails
      BY <2>1, <2>3, SkipKeeps, ReadItemKeeps, ReindexKeeps, DeleteKeeps, WorkFailsKeeps
    <2>4. CASE B!RestoreNext \/ B!RestorePublishes
      BY <2>1, <2>4, RestoreNextKeeps, RestorePublishesKeeps
    <2>5. CASE B!prepareImportFilesOperation \/ B!planFileBatch \/ B!PlanFails \/ B!AllAnswered
      BY <2>1, <2>5, PrepareKeeps, PlanKeeps, PlanFailsKeeps, AllAnsweredKeeps
    <2>6. ASSUME NEW i \in B!Item, B!OtherDeletes(i) \/ B!StartFile(i) \/ B!PublishFile(i) \/ B!FileFails(i)
          PROVE  BatchInv'
      BY <2>1, <2>6, OtherDeletesKeeps, FilesKeep
    <2>7. QED
      BY <1>1, <2>2, <2>3, <2>4, <2>5, <2>6 DEF B!Next
  <1>2. CASE UNCHANGED B!vars
    <2>1. UNCHANGED <<kind, state, attempt, mark, target, sources, effects, dropped, run>>
      BY <1>2 DEF B!vars
    <2>2. Kept /\ Written /\ \A i \in B!Item : ItemKept(i)' /\ (BatchSettled(i) => BatchSettled(i)')
      BY <2>1, AllStay
    <2>3. B!item' = B!item /\ (B!Resolved(B!item)' <=> B!Resolved(B!item))
      BY <2>1 DEF B!item, B!Resolved
    <2>4. BatchTyped' /\ AtWork'
      BY <2>1, <2>3, InvIs DEF BatchInv, BatchTyped, AtWork
    <2>5. \A i \in B!Item : FateKept(i) => FateKept(i)'
      BY <2>1, <2>2 DEF FateKept
    <2>6. QED
      BY <2>1, <2>2, <2>3, <2>4, <2>5, InvIs DEF BatchInv
  <1>3. QED
    BY <1>1, <1>2

LEMMA BatchHolds ==
    ASSUME B!BatchAssumption
    PROVE  B!Spec => []BatchInv
  <1>1. B!Init => BatchInv
    BY InitBatch
  <1>2. BatchInv /\ [B!Next]_B!vars => BatchInv'
    BY NextBatch
  <1>3. QED
    BY <1>1, <1>2, PTL DEF B!Spec

(* However often a batch is cut off and replayed, no item takes effect twice, a  *)
(* marker is committed with its effect, and an answer of success is about all of *)
(* the items that were not dropped (operationItemResolved, MarkItemTx).          *)
THEOREM BatchesAreDone ==
    ASSUME B!BatchAssumption
    PROVE  B!Spec => []B!BatchIsDone
  <1>1. BatchInv => B!BatchIsDone
    <2> SUFFICES ASSUME BatchInv PROVE B!BatchIsDone
      OBVIOUS
    <2>1. \A i \in B!Item : ItemKept(i) /\ (state = "succeeded" => BatchSettled(i))
      BY InvIs
    <2>2. ASSUME NEW i \in B!Item
          PROVE  /\ effects[i] <= 1 /\ (effects[i] = 1 => mark[i] = "committed")
                 /\ mark[i] = "committed" => effects[i] = 1 \/ (kind = "delete" /\ target[i] # "ready")
      BY <2>1 DEF ItemKept
    <2>3. ASSUME state = "succeeded"
          PROVE  /\ kind = "reindex" => \A i \in B!Item : effects[i] = 1 \/ target[i] # "ready"
                 /\ kind = "delete" => \A i \in B!Item : target[i] # "ready"
                 /\ kind = "restore" => \A i \in B!Item \cap sources : target[i] = "ready"
                 /\ kind = "import" => \A i \in B!Item \ dropped : target[i] = "ready"
      BY <2>1, <2>3 DEF BatchSettled
    <2>4. sources \subseteq B!Item
      BY InvIs
    <2>5. QED
      BY <2>2, <2>3, <2>4 DEF B!BatchIsDone
  <1>2. QED
    BY <1>1, BatchHolds, PTL

=============================================================================
