------------------------------ MODULE ModelCache ------------------------------
(***************************************************************************)
(* The model cache: internal/models.Manager and MigrateModelCacheContext of *)
(* internal/app. Installed models are directories under the root of a cache. *)
(* config.yaml names the cache the next process uses; a manager serializes   *)
(* what it does with opMu, and a finished migration replaces the manager, so *)
(* that a goroutine still waiting for the old one works beside the new one.  *)
(*                                                                          *)
(* A model is whole, in part or absent; downloads under temporary names and  *)
(* the rest of the configuration are left out.                              *)
(***************************************************************************)
EXTENDS FiniteSets

CONSTANTS
    Model, Root,
    Manager,        \* Manager objects (bound)
    Job,            \* running operations
    Commands,       \* [Job -> SUBSET {"download", "remove", "migrate"}], bound
    Initial,        \* the cache that is configured first
    Nobody

VARIABLES
    disk,           \* [Root -> [Model -> "no" | "part" | "whole"]]
    config,         \* models.cacheDir of config.yaml
    current,        \* App.Models
    root, opMu,     \* of each manager
    job,            \* [at, by, model, target, remove, plan] of each job
    wanted,         \* history: installed models that nobody asked to remove
    astray          \* history: installed where config does not, or may soon not point

vars == <<disk, config, current, root, opMu, job, wanted, astray>>

ModelAssumption ==
    /\ Initial \in Root /\ Manager # {} /\ Nobody \notin Job
    /\ \A j \in Job : Commands[j] \subseteq {"download", "remove", "migrate"}

NoJob == [at |-> "idle", by |-> Nobody, model |-> Nobody, target |-> Nobody,
          remove |-> FALSE, plan |-> {}]

Empty == [m \in Model |-> "no"]
Goto(j, l) == job' = [job EXCEPT ![j].at = l]
Release(j) == opMu' = [opMu EXCEPT ![job[j].by] = Nobody]
Return(j) == job' = [job EXCEPT ![j] = NoJob] /\ Release(j)

\* The cache that the manager of a job serves.
source(j) == root[job[j].by]

\* A migration under way; another job sees one only through another manager.
Moving(j) == job[j].at \in {"copy", "save", "clear"}

----------------------------------------------------------------------------
Begin(j) ==
    /\ job[j].at = "idle"
    /\ \E m \in Model, t \in Root, rm \in BOOLEAN, at \in Commands[j] :
          job' = [job EXCEPT ![j] = [at |-> at, by |-> current, plan |-> {},
                    model |-> IF at = "migrate" THEN Nobody ELSE m,
                    target |-> IF at = "migrate" THEN t ELSE Nobody,
                    remove |-> at = "migrate" /\ rm]]
    /\ UNCHANGED <<disk, config, current, root, opMu, wanted, astray>>

Waits(j, at) == job[j].at = at /\ opMu[job[j].by] = Nobody
Lock(j) == opMu' = [opMu EXCEPT ![job[j].by] = j]

\* Download fails where a directory exists, whatever it holds.
Download(j) ==
    /\ Waits(j, "download")
    /\ IF disk[source(j)][job[j].model] = "no" THEN Lock(j) /\ Goto(j, "install")
       ELSE job' = [job EXCEPT ![j] = NoJob] /\ UNCHANGED opMu
    /\ UNCHANGED <<disk, config, current, root, wanted, astray>>

\* The rename that publishes a download, or its failure. A model is astray in a
\* cache that is not the configured one, or that another manager is moving.
Install(j) ==
    LET m == job[j].model IN
    /\ job[j].at = "install" /\ Return(j)
    /\ \/ UNCHANGED <<disk, wanted, astray>>
       \/ /\ disk[source(j)][m] = "no" /\ disk' = [disk EXCEPT ![source(j)][m] = "whole"]
          /\ wanted' = wanted \cup {m}
          /\ astray' = IF \/ source(j) # config
                          \/ \E k \in Job : Moving(k)
                       THEN astray \cup {m} ELSE astray \ {m}
    /\ UNCHANGED <<config, current, root>>

\* RemoveContext: a cancelled one leaves a part of the tree.
Remove(j) ==
    /\ Waits(j, "remove") /\ Lock(j) /\ Goto(j, "removing")
    /\ UNCHANGED <<disk, config, current, root, wanted, astray>>

Removing(j) ==
    /\ job[j].at = "removing" /\ Return(j)
    /\ \E left \in {"no", "part"} :
          /\ left = "part" => disk[source(j)][job[j].model] # "no"
          /\ disk' = [disk EXCEPT ![source(j)][job[j].model] = left]
    /\ wanted' = wanted \ {job[j].model}
    /\ UNCHANGED <<config, current, root, astray>>

----------------------------------------------------------------------------
\* MigrateContext. The plan is every directory with a manifest. Where the cache
\* already is the target, only the configuration is written. After a failed
\* removal the manager still serves the old cache, without its models: going
\* back to it, or on from it to a third cache, leaves them astray.
Migrate(j) ==
    LET s == source(j)
        t == job[j].target
    IN
    /\ Waits(j, "migrate")
    /\ \/ /\ t = s /\ config' = t /\ job' = [job EXCEPT ![j] = NoJob] /\ UNCHANGED opMu
          /\ astray' = IF config = t THEN astray ELSE Model
       \/ /\ t # s /\ disk[t] # Empty /\ job' = [job EXCEPT ![j] = NoJob]
          /\ UNCHANGED <<config, opMu, astray>>
       \/ /\ t # s /\ disk[t] = Empty /\ Lock(j) /\ UNCHANGED config
          /\ astray' = IF s # config \/ \E k \in Job : Moving(k) THEN Model ELSE astray
          /\ \E plan \in SUBSET {m \in Model : disk[s][m] # "no"} :
                /\ {m \in Model : disk[s][m] = "whole"} \subseteq plan
                /\ job' = [job EXCEPT ![j].at = "copy", ![j].plan = plan]
    /\ UNCHANGED <<disk, current, root, wanted>>

\* copyTreeContext writes file by file; verifyTreeContext compares hashes.
Copying(j, m) ==
    LET t == job[j].target
        s == source(j)
    IN
    /\ job[j].at = "copy" /\ m \in job[j].plan /\ disk[s][m] # "no"
    /\ disk[t][m] # disk[s][m]
    /\ \E now \in {"part", disk[s][m]} \ {disk[t][m]} : disk' = [disk EXCEPT ![t][m] = now]
    /\ UNCHANGED <<config, current, root, opMu, job, wanted, astray>>

Uncopied(j) == {} \* mutant
Unequal(j) == {m \in job[j].plan : disk[job[j].target][m] # disk[source(j)][m]}

Copied(j) ==
    /\ job[j].at = "copy" /\ Unequal(j) = {} /\ Goto(j, "save")
    /\ UNCHANGED <<disk, config, current, root, opMu, wanted, astray>>

\* beforeCommit: config.yaml is replaced.
Save(j) ==
    /\ job[j].at = "save" /\ config' = job[j].target
    /\ Goto(j, IF job[j].remove THEN "clear" ELSE "activate")
    /\ UNCHANGED <<disk, current, root, opMu, wanted, astray>>

\* Whatever fails before that removes the target.
MigrateFails(j) ==
    /\ job[j].at \in {"copy", "save"} /\ Return(j)
    /\ disk' = [disk EXCEPT ![job[j].target] = Empty]
    /\ UNCHANGED <<config, current, root, wanted, astray>>

ClearSource(j, m) ==
    /\ job[j].at = "clear" /\ m \in job[j].plan /\ disk[source(j)][m] # "no"
    /\ \E left \in {"no", "part"} \ {disk[source(j)][m]} :
          disk' = [disk EXCEPT ![source(j)][m] = left]
    /\ UNCHANGED <<config, current, root, opMu, job, wanted, astray>>

\* After a failed removal the manager serves the old cache until a restart.
Cleared(j) ==
    /\ job[j].at = "clear"
    /\ \/ Return(j)
       \/ (\A m \in job[j].plan : disk[source(j)][m] = "no") /\ Goto(j, "activate") /\ UNCHANGED opMu
    /\ UNCHANGED <<disk, config, current, root, wanted, astray>>

\* setRoot, and the mutex is free before App.Models is replaced.
Activate(j) ==
    /\ job[j].at = "activate" /\ root' = [root EXCEPT ![job[j].by] = job[j].target]
    /\ Goto(j, "replace") /\ Release(j)
    /\ UNCHANGED <<disk, config, current, wanted, astray>>

Replace(j) ==
    /\ job[j].at = "replace"
    /\ \E n \in Manager :
          /\ n # current /\ \A k \in Job \ {j} : job[k].by # n
          /\ current' = n /\ root' = [root EXCEPT ![n] = job[j].target]
    /\ job' = [job EXCEPT ![j] = NoJob]
    /\ UNCHANGED <<disk, config, opMu, wanted, astray>>

----------------------------------------------------------------------------
\* The next process reads the configuration; operations begin again.
Crash ==
    /\ \E j \in Job : job[j] # NoJob
    /\ job' = [j \in Job |-> NoJob] /\ opMu' = [n \in Manager |-> Nobody]
    /\ root' = [root EXCEPT ![current] = config]
    /\ UNCHANGED <<disk, config, current, wanted, astray>>

Init ==
    /\ disk = [r \in Root |-> Empty] /\ config = Initial
    /\ current = (CHOOSE n \in Manager : TRUE) /\ root = [n \in Manager |-> Initial]
    /\ opMu = [n \in Manager |-> Nobody] /\ job = [j \in Job |-> NoJob]
    /\ wanted = {} /\ astray = {}

Next ==
    \/ Crash
    \/ \E j \in Job :
          \/ Begin(j) \/ Download(j) \/ Install(j) \/ Remove(j) \/ Removing(j) \/ Migrate(j)
          \/ Copied(j) \/ Save(j) \/ MigrateFails(j) \/ Cleared(j) \/ Activate(j) \/ Replace(j)
          \/ \E m \in Model : Copying(j, m) \/ ClearSource(j, m)

----------------------------------------------------------------------------
TypeOK ==
    /\ disk \in [Root -> [Model -> {"no", "part", "whole"}]]
    /\ config \in Root /\ current \in Manager /\ root \in [Manager -> Root]
    /\ opMu \in [Manager -> Job \cup {Nobody}]
    /\ wanted \cup astray \subseteq Model

\* Whatever a migration was doing when the process died or an error ended it,
\* the cache that the configuration names holds every installed model whole,
\* save those that are astray: installed in another cache or behind a migration's
\* back, or left behind by a move from a cache that is no longer the configured one.
ConfiguredIsComplete ==
    \A m \in wanted \ astray : disk[config][m] = "whole"

=============================================================================
