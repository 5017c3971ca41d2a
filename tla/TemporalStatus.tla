---------------------------- MODULE TemporalStatus ----------------------------
(* Which of the facts "version V supports A" about one A is true now:         *)
(* reconcileTemporalUnits (semantic/compiler.go) as the last step of a        *)
(* compilation and of every increment (semantic/incremental.go), which brings *)
(* the statuses of the previous generation along. A version is a number in    *)
(* the order of its parts, or a token that is comparable with itself only.    *)
EXTENDS Integers, FiniteSets, SequencesExt

CONSTANTS
    N,              \* facts, numbered in the order of their canonical keys
    Doc,
    FactsOf,        \* [Doc -> SUBSET (1 .. N)]: what a document may state
    Ordered,        \* versions with a known order, numbers
    Versions        \* [1 .. N -> versions]: the assignments to start from

VARIABLES
    version,        \* of each fact
    stated,         \* what each document stated when it was compiled
    unit,           \* [facts that are stated -> [status, by]], 0 for no successor
    refused         \* the facts of the last increment, if it was found invalid

vars == <<version, stated, unit, refused>>

Fact == 1 .. N

----------------------------------------------------------------------------
\* CompareVersionIdentity
Comparable(f, g) == version[f] = version[g] \/ {version[f], version[g]} \subseteq Ordered
Older(f, g) == Comparable(f, g) /\ version[f] # version[g] /\ version[f] < version[g]

\* sort.Slice inserts a dozen items one by one; keys decide what versions do
\* not, so with tokens among the versions this is no order.
ByKey(f, g) == f < g \* mutant
Before(f, g) == IF Comparable(f, g) /\ version[f] # version[g] THEN Older(f, g) ELSE f < g

Insert(s, f) == InsertAt(s, Max({0} \cup {i \in DOMAIN s : ~Before(f, s[i])}) + 1, f)

\* reconcileTemporalUnits: the end of the sequence is taken for the newest. If
\* several facts are of its version they contradict each other, and what comes
\* before them is current; it supersedes the older ones in front of it.
Reconciled(u, order) ==
    LET s == FoldLeft(Insert, <<>>, order)
        n == Len(s)
        first == Max({0} \cup {i \in 1 .. n : version[s[i]] # version[s[n]]}) + 1
        current == IF first < n THEN first - 1 ELSE n
        from == Max({0} \cup {i \in 1 .. current - 1 : ~Older(s[i], s[current])}) + 1
        at(f) == CHOOSE i \in 1 .. n : s[i] = f
    IN
    [f \in DOMAIN u |->
        IF at(f) > current THEN [status |-> "conflicted", by |-> 0]
        ELSE IF at(f) = current THEN [status |-> "active", by |-> 0]
        ELSE IF at(f) >= from THEN [status |-> "superseded", by |-> s[current]]
        ELSE u[f]]

Fresh(P) == [f \in P |-> [status |-> "active", by |-> 0]]
\* Compile: facts are built in the order of their keys.
Compiled(P) == Reconciled(Fresh(P), SetToSortSeq(P, <))

\* sanitizePreviousUnits and fixRetainedProvenance: a fact stays while another
\* document states it, and is no longer superseded by one that goes.
KeepsSuccessor(P) == [f \in P |-> unit[f]] \* mutant
Retained(P) ==
    [f \in P |-> IF unit[f].by # 0 /\ unit[f].by \notin P THEN [status |-> "active", by |-> 0]
                 ELSE unit[f]]

\* mergeUnits takes the status of the update and leaves SupersededBy.
Merged(old, new) ==
    [f \in DOMAIN old \cup DOMAIN new |->
        IF f \notin DOMAIN old THEN new[f]
        ELSE IF f \notin DOMAIN new THEN old[f]
        ELSE [old[f] EXCEPT !.status = new[f].status]]

\* Unit.Validate: what is superseded has a successor.
Valid(u) == \A f \in DOMAIN u : u[f].status = "superseded" => u[f].by # 0

\* TemporalVersionVisible for questions about the present
SeenNow == {f \in DOMAIN unit : unit[f].status \in {"active", "conflicted"}}

----------------------------------------------------------------------------
Stated(s) == UNION {s[d] : d \in DOMAIN s}
Texts(D) == {s \in [D -> SUBSET Fact] : \A d \in D : s[d] \subseteq FactsOf[d]}

\* Without an active compilation everything is compiled.
CompileAll(now) ==
    /\ stated' = now /\ unit' = Compiled(Stated(now)) /\ refused' = {}
    /\ UNCHANGED version

\* MergeIncremental for the documents that changed. The merged units come out
\* of a map in any order; an invalid result fails the whole increment.
Increment(dirty, now) ==
    LET new == [d \in Doc |-> IF d \in dirty THEN now[d] ELSE stated[d]]
        kept == Retained(Stated([d \in Doc \ dirty |-> stated[d]]))
    IN
    \E merged \in {Merged(kept, Compiled(Stated(now)))} :
        \E order \in SetToSeqs(DOMAIN merged) :
            \E u \in {Reconciled(merged, order)} :
                /\ IF Valid(u) THEN stated' = new /\ unit' = u /\ refused' = {}
                   ELSE refused' = DOMAIN u /\ UNCHANGED <<stated, unit>>
                /\ UNCHANGED version

Init ==
    /\ version \in Versions
    /\ stated = [d \in Doc |-> {}] /\ unit = Compiled({}) /\ refused = {}

Next ==
    \/ \E now \in Texts(Doc) : CompileAll(now)
    \/ \E dirty \in SUBSET Doc \ {{}} : \E now \in Texts(dirty) : Increment(dirty, now)

Spec == Init /\ [][Next]_vars

----------------------------------------------------------------------------
TypeOK ==
    /\ \A d \in Doc : stated[d] \subseteq FactsOf[d]
    /\ DOMAIN unit = Stated(stated) /\ refused \subseteq Fact
    /\ \A f \in DOMAIN unit : /\ unit[f].status \in {"active", "conflicted", "superseded"}
                              /\ unit[f].by \in {0} \cup DOMAIN unit

Chain(P) == \A f, g \in P : Comparable(f, g)
Newest(P) == {f \in P : \A g \in P : ~Older(f, g)}

\* After any increments, facts whose versions can all be ordered have the
\* status that the versions alone give them. The newest is what a question
\* about the present sees, and all others are superseded by it. Contradicting
\* newest ones are all seen, with the newest that nobody contradicts below
\* them. (Two contradictions, one below the other, are not resolved: one fact
\* of the lower version is taken for current.) And no increment is refused.
\* With tokens among the versions this much is left: a superseded fact names a
\* newer one, and what nothing newer replaces is seen.
StatusFollowsVersions ==
    LET P == DOMAIN unit
        top == Newest(P)
        second == Newest(P \ top)
        supersedes(s) == \A f \in P \ SeenNow : unit[f] = [status |-> "superseded", by |-> s]
        active == {f \in P : unit[f].status = "active"}
    IN
    /\ refused = {} \/ ~Chain(refused)
    /\ \A f \in P : unit[f].by # 0 => Older(f, unit[f].by)
    /\ top \subseteq SeenNow
    /\ Chain(P) =>
        /\ Cardinality(top) = 1 => SeenNow = top /\ active = top /\ \A s \in top : supersedes(s)
        /\ Cardinality(top) > 1 /\ Cardinality(second) < 2 =>
               SeenNow = top \cup second /\ active = second /\ \A s \in second : supersedes(s)

=============================================================================
