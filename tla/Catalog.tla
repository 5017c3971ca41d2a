------------------------------- MODULE Catalog -------------------------------
(***************************************************************************)
(* The bases, their groups and the saved scope, as clients change them       *)
(* (knowledge/service_base.go, the base, group and scope routes of           *)
(* web/api.go). A call reads rows and later writes them back whole: base     *)
(* rows one by one, the list of groups and the scope as one value each.      *)
(*                                                                         *)
(* Nothing holds a call's rows for it: a row another call wrote between its   *)
(* read and its write is `disturbed`, and that other change may be lost.     *)
(***************************************************************************)
EXTENDS Integers

CONSTANTS
    Client, Base, Group, Name, Key,
    NoGroup, NoKey,     \* "" in a row or a request
    Absent,             \* what a request leaves out
    MaxCalls

VARIABLES
    bases,      \* [Base -> [state, name, group, key]]
    groups,     \* kv "groups", as a set
    scope,      \* kv "scope": [enabled, bases], or Absent
    calls,      \* what each client is doing
    made        \* calls so far

\* Clearing a key is a flag of the request (ClearEmbeddingAPIKey …), apart from naming none.
CatalogAssumption == "clear" \notin {NoKey, Absent}

vars == <<bases, groups, scope, calls, made>>

NoBase == [state |-> "none", name |-> Absent, group |-> NoGroup, key |-> NoKey]
NoRows == [b \in {} |-> NoBase]
Idle == [step |-> "idle", kind |-> "none", args |-> <<>>, rows |-> NoRows, list |-> {}, draft |-> <<>>, key |-> NoKey,
         before |-> <<>>, after |-> <<>>, disturbed |-> {}]

Active == {b \in Base : bases[b].state = "active"}

\* The stored list and the groups of bases that it lacks.
ListGroups == groups \cup ({bases[b].group : b \in Active} \ {NoGroup})

-----------------------------------------------------------------------------
(* Steps of calls.                                                          *)

At(c, step) == calls[c].step = step
Resting == {"idle", "done"}
Now == [bases |-> bases, groups |-> groups, scope |-> scope]

Done(c) == [calls[c] EXCEPT !.step = "done", !.rows = NoRows, !.after = Now']
Failed(c) == Idle

\* c goes on; whoever is under way has its view of W disturbed.
Continue(c, call, W) ==
    calls' = [d \in Client |->
        IF d = c THEN call
        ELSE IF calls[d].step \in Resting THEN calls[d]
        ELSE [calls[d] EXCEPT !.disturbed = @ \cup W]]

Begin(c, kind, args) ==
    /\ calls[c].step \in Resting /\ made < MaxCalls
    /\ made' = made + 1
    /\ calls' = [calls EXCEPT ![c] = [Idle EXCEPT !.step = kind, !.kind = kind, !.args = args]]
    /\ UNCHANGED <<bases, groups, scope>>

\* What a patch may carry: one change, or a group together with a configuration.
Changes ==
    LET none == [name |-> Absent, group |-> Absent, key |-> Absent]
        keys == Key \cup {NoKey, "clear"}
    IN {[none EXCEPT !.name = n] : n \in Name} \cup {[none EXCEPT !.key = k] : k \in keys}
       \cup {[none EXCEPT !.group = g] : g \in Group} \cup {[none EXCEPT !.group = g, !.key = NoKey] : g \in Group}

\* The requests of clients; DeleteGroup does what renaming to "" does, and drops the group.
Asked(c) ==
    \/ \E b \in Base, n \in Name, g \in Group \cup {NoGroup} :
        Begin(c, "create", [base |-> b, name |-> n, group |-> g])
    \/ \E b \in Base, r \in Changes :
        Begin(c, IF r.key = Absent THEN "patch" ELSE "keep", [base |-> b, change |-> r])
    \/ \E b \in Base : Begin(c, "delete", [base |-> b])
    \/ \E g \in Group : Begin(c, "create group", [to |-> g])
    \/ \E f \in Group, t \in Group \cup {NoGroup} : f # t /\ Begin(c, "rename group", [from |-> f, to |-> t])
    \/ \E e \in BOOLEAN : Begin(c, "scope", [enabled |-> e, bases |-> Absent])
    \/ \E b \in Base : Begin(c, "scope", [enabled |-> Absent, bases |-> {b}])

-----------------------------------------------------------------------------
(* Bases.                                                                   *)

\* mutant: the row that was read is written back, its lifecycle too
putBaseWhole(b, row) == bases' = [bases EXCEPT ![b] = [row EXCEPT !.state = "active"]]

\* One transaction; the lifecycle is not among what it writes, and a base that is being
\* deleted keeps its row (the caller gets a conflict).
putBase(b, row) ==
    bases' = [bases EXCEPT ![b] = IF @.state = "deleting" THEN @ ELSE [row EXCEPT !.state = "active"]]

\* An id is new.
CreateBase(c) ==
    LET a == calls[c].args
    IN /\ At(c, "create") /\ UNCHANGED <<groups, scope, made>>
       /\ IF bases[a.base].state # "none" THEN UNCHANGED bases /\ Continue(c, Failed(c), {})
          ELSE /\ putBase(a.base, [NoBase EXCEPT !.name = a.name, !.group = a.group])
               /\ Continue(c, [Done(c) EXCEPT !.before = Now], {a.base})

\* A configuration without a key keeps the one the base has …
KeepKeys(c) ==
    LET b == calls[c].args.base
        asked == calls[c].args.change.key
    IN /\ At(c, "keep")
       /\ calls' = [calls EXCEPT ![c] =
            IF b \notin Active THEN Failed(c)
            ELSE [@ EXCEPT !.step = "patch", !.before = Now,
                    !.key = CASE asked = "clear" -> NoKey [] asked = NoKey -> bases[b].key [] OTHER -> asked]]
       /\ UNCHANGED <<bases, groups, scope, made>>

\* … which is read apart from the row that is changed.
ReadBase(c) ==
    LET a == calls[c].args
        old(f) == bases[a.base][f]
        asked(f) == IF a.change[f] = Absent THEN old(f) ELSE a.change[f]
    IN /\ At(c, "patch")
       /\ calls' = [calls EXCEPT ![c] =
            IF a.base \notin Active THEN Failed(c)
            ELSE [@ EXCEPT !.step = "put",
                    !.before = IF calls[c].kind = "keep" THEN calls[c].before ELSE Now,
                    !.rows = [b \in {a.base} |->
                        [state |-> "active", name |-> asked("name"), group |-> asked("group"),
                         key |-> IF a.change.key = Absent THEN old("key") ELSE calls[c].key]]]]
       /\ UNCHANGED <<bases, groups, scope, made>>

\* … and it is put back.
PutBase(c) ==
    LET b == calls[c].args.base
    IN /\ At(c, "put") /\ UNCHANGED <<groups, scope, made>>
       /\ putBase(b, calls[c].rows[b])
       /\ Continue(c, IF b \in Active THEN Done(c) ELSE Failed(c), {b})

\* The fence of a deletion; what is below it is removed elsewhere (DocumentGenerations).
markBaseDeleting(c) ==
    LET b == calls[c].args.base
    IN /\ At(c, "delete") /\ UNCHANGED <<groups, scope, made>>
       /\ bases' = [bases EXCEPT ![b].state = IF @ = "active" THEN "deleting" ELSE @]
       /\ Continue(c, IF bases[b].state = "none" THEN Failed(c) ELSE [Done(c) EXCEPT !.before = Now], {b})

-----------------------------------------------------------------------------
(* Groups.                                                                  *)

\* The list with one group renamed, or dropped.
Replaced(list, from, to) ==
    (list \ {from}) \cup (IF from \in list /\ to # NoGroup THEN {to} ELSE {})

\* The stored list is read; a group that exists is not made again.
ReadGroups(c) ==
    LET a == calls[c].args
        read(step, list) == [calls[c] EXCEPT !.step = step, !.list = list, !.before = Now]
    IN /\ UNCHANGED <<bases, groups, scope, made>>
       /\ \/ /\ At(c, "create group")
             /\ IF a.to \in ListGroups THEN Continue(c, [Done(c) EXCEPT !.before = Now], {})
                ELSE Continue(c, read("set groups", ListGroups \cup {a.to}), {})
          \/ /\ At(c, "rename group")
             /\ Continue(c, read("list", Replaced(ListGroups, a.from, a.to)), {})

\* Then the bases of the group, whole …
ListBases(c) ==
    /\ At(c, "list")
    /\ calls' = [calls EXCEPT ![c].step = "members",
            ![c].rows = [b \in {x \in Active : bases[x].group = calls[c].args.from} |-> bases[b]]]
    /\ UNCHANGED <<bases, groups, scope, made>>

\* … which move one by one; a conflict ends the call with the others where they are.
MoveMember(c) ==
    /\ At(c, "members")
    /\ \E b \in DOMAIN calls[c].rows :
        /\ putBase(b, [calls[c].rows[b] EXCEPT !.group = calls[c].args.to])
        /\ Continue(c, IF b \notin Active THEN Failed(c)
                       ELSE [calls[c] EXCEPT !.rows = [x \in DOMAIN @ \ {b} |-> @[x]]], {b})
    /\ UNCHANGED <<groups, scope, made>>

SetGroups(c) ==
    /\ At(c, "set groups") \/ (At(c, "members") /\ DOMAIN calls[c].rows = {})
    /\ groups' = calls[c].list
    /\ UNCHANGED <<bases, scope, made>>
    /\ Continue(c, Done(c), {"groups"})

-----------------------------------------------------------------------------
(* The saved scope, read and written back apart.                             *)

EnabledScope == IF scope = Absent THEN [enabled |-> TRUE, bases |-> {}] ELSE scope

ReadScope(c) ==
    LET asked(f) == IF calls[c].args[f] = Absent THEN EnabledScope[f] ELSE calls[c].args[f]
    IN /\ At(c, "scope")
       /\ calls' = [calls EXCEPT ![c].step = "set scope", ![c].before = Now,
            ![c].draft = [enabled |-> asked("enabled"), bases |-> asked("bases")]]
       /\ UNCHANGED <<bases, groups, scope, made>>

SetScope(c) ==
    /\ At(c, "set scope") /\ UNCHANGED <<bases, groups, made>>
    /\ scope' = calls[c].draft
    /\ Continue(c, Done(c), {"scope"})

\* A request whose client has gone ends between two steps.
Cancelled(c) ==
    /\ calls[c].step \notin Resting
    /\ Continue(c, Failed(c), {})
    /\ UNCHANGED <<bases, groups, scope, made>>

\* Some bases are there, one of them in a group, and the list knows that group or nothing.
Init ==
    /\ LET first == CHOOSE g \in Group : TRUE
           row(g) == [state |-> "active", name |-> CHOOSE n \in Name : TRUE, group |-> g, key |-> CHOOSE k \in Key : TRUE]
       IN /\ \E b \in Base : bases \in {[x \in Base |-> IF x = b THEN row(first) ELSE y] : y \in {row(first), row(NoGroup), NoBase}}
          /\ groups \in {{}, {first}}
    /\ scope = Absent /\ made = 0
    /\ calls = [c \in Client |-> Idle]

Step(c) ==
    \/ Asked(c) \/ CreateBase(c) \/ KeepKeys(c) \/ ReadBase(c) \/ PutBase(c) \/ markBaseDeleting(c)
    \/ ReadGroups(c) \/ ListBases(c) \/ MoveMember(c) \/ SetGroups(c)
    \/ ReadScope(c) \/ SetScope(c) \/ Cancelled(c)

Next == \E c \in Client : Step(c)

-----------------------------------------------------------------------------
(* What it must keep.                                                       *)

Told == {c \in Client : calls[c].step = "done"}
Calm(c, b) == b \notin calls[c].disturbed
Was(c) == calls[c].before.bases
Became(c) == calls[c].after.bases

\* A base a client was told is deleted never comes back, whatever calls were under way
\* (putBaseContext, store.go:85-122).
DeletedStaysDeleted ==
    \A c \in Told : calls[c].kind = "delete" => bases[calls[c].args.base].state = "deleting"

\* A patch nobody disturbed changed what it names and nothing else of the base; above all
\* it kept the key when it carries none (patchBase, web/api.go:199-247).
PatchIsExact ==
    \A c \in Told : calls[c].kind \in {"patch", "keep"} =>
        LET b == calls[c].args.base
            r == calls[c].args.change
            old == Was(c)[b]
            new == Became(c)[b]
        IN Calm(c, b) =>
            /\ new.name = IF r.name = Absent THEN old.name ELSE r.name
            /\ new.group = IF r.group = Absent THEN old.group ELSE r.group
            /\ new.key = CASE r.key \in {Absent, NoKey} -> old.key [] r.key = "clear" -> NoKey [] OTHER -> r.key

\* A group that was renamed or deleted has no base left that stood in it when the call began and
\* that nobody else wrote, keeps no place in the list, and the bases keep all else they had
\* (RenameGroupWithContext, service_base.go:1153-1178).
GroupsMoveWhole ==
    \A c \in Told : calls[c].kind = "rename group" =>
        LET a == calls[c].args
            calm == {b \in Base : Was(c)[b].state = "active" /\ Calm(c, b)}
        IN /\ \A b \in calm :
                Became(c)[b] = [Was(c)[b] EXCEPT !.group = IF @ = a.from THEN a.to ELSE @]
           /\ a.from \notin calls[c].after.groups
           /\ (a.to # NoGroup /\ a.from \in calls[c].before.groups) => a.to \in calls[c].after.groups

\* A group that a client was told exists is one that ListGroups tells of then, and none is forgotten.
GroupsAreListed ==
    \A c \in Told : calls[c].kind = "create group" =>
        LET listed(view) == view.groups \cup {view.bases[b].group : b \in {x \in Base : view.bases[x].state = "active"}}
        IN ("groups" \notin calls[c].disturbed) =>
            /\ calls[c].args.to \in listed(calls[c].after)
            /\ calls[c].before.groups \subseteq calls[c].after.groups

\* A scope that was saved keeps the part the request did not name
\* (SetEnabledScopeWithContext, service_base.go:1261-1281).
ScopeIsExact ==
    \A c \in Told : (calls[c].kind = "scope" /\ "scope" \notin calls[c].disturbed) =>
        LET old == IF calls[c].before.scope = Absent THEN [enabled |-> TRUE, bases |-> {}] ELSE calls[c].before.scope
            new == calls[c].after.scope
            a == calls[c].args
        IN /\ new.enabled = IF a.enabled = Absent THEN old.enabled ELSE a.enabled
           /\ new.bases = IF a.bases = Absent THEN old.bases ELSE a.bases

CatalogIsKept == DeletedStaysDeleted /\ PatchIsExact /\ GroupsMoveWhole /\ GroupsAreListed /\ ScopeIsExact

=============================================================================
