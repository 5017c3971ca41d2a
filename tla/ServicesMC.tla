----------------------------- MODULE ServicesMC -----------------------------
(* Eight services that share no state, checked side by side: in a behaviour  *)
(* one of them runs and the others rest, so that no interleaving of one is   *)
(* multiplied by the steps of another.                                       *)
EXTENDS Integers, FiniteSets, Sequences

CONSTANTS
    caller, prober, h1, h2, Free,
    d1, d2, f1, f2, c1, c2, t1, Nothing, Nobody,
    k1, k2, Nil

VARIABLES
    focus,
    helper, managerMu, helperMu, proc, shut, pc, ref, reaper, closer, orphans,
    doc, deletion, marking, queue, active, compiler, told, quiet,
    kind, policy, state, attempt, mark, target, sources, effects, dropped, run, incidents,
    db, reader,
    version, stated, unit, refused,
    request, window,
    call, answer,
    row, stored, compiling, loading, cache

R == INSTANCE RuntimeHelper WITH Caller <- {caller}, Prober <- prober, Helper <- {h1, h2}

ASSUME HelpersAreDistinct == R!HelperAssumption

\* The second version of d1 loses a fact and a heading that d2 keeps.
Versions == {d1, d2} \X (1 .. 2)
S == INSTANCE SemanticCompile WITH
        Doc <- {d1, d2}, Fact <- {f1, f2}, Concept <- {c1, c2}, Topic <- {t1},
        Last <- [d \in {d1, d2} |-> IF d = d1 THEN 2 ELSE 1], Deletable <- {d1},
        FactsOf <- [s \in Versions |-> IF s = <<d1, 1>> THEN {f1, f2} ELSE {f1}],
        HeadingsOf <- [s \in Versions |-> IF s = <<d1, 1>> THEN {c1, c2}
                                          ELSE IF s[1] = d1 THEN {c2} ELSE {c1}],
        ConceptOf <- [f \in {f1, f2} |-> IF f = f1 THEN c1 ELSE c2],
        TopicOf <- [c \in {c1, c2} |-> t1]

ASSUME TextsAreAssumed == S!SemanticAssumption

B == INSTANCE BatchCommands WITH N <- 3, MaxAttempts <- 3, MaxEvents <- 2

ASSUME BatchesAreAssumed == B!BatchAssumption

\* Only d1 changes; a scope with both bases may be saved, or one with that of d1.
Q == INSTANCE Retrieval WITH
        Doc <- {d1, d2}, Changing <- {d1}, BaseOf <- [d \in {d1, d2} |-> IF d = d1 THEN k1 ELSE k2],
        ChunksOf <- [d \in {d1, d2} |-> IF d = d1 THEN 2 ELSE 1], Scopes <- {{k1}, {k1, k2}},
        Siblings <- 1, Radius <- 1, MaxGen <- 2, MaxVariants <- 2

ASSUME RetrievalIsAssumed == Q!RetrievalAssumption

\* Two documents that share a fact; every assignment of versions to the facts.
T == INSTANCE TemporalStatus WITH
        N <- 3, Doc <- {d1, d2}, FactsOf <- [d \in {d1, d2} |-> IF d = d1 THEN {1, 2} ELSE {2, 3}],
        Ordered <- 1 .. 3, Versions <- [1 .. 3 -> {1, 2, 3, Nil}]

\* Three chunks that overlap, adjoin or leave a gap; the hit has a focus or none.
Spans == {<<0, 4, 3, 8, 6, 11>>, <<0, 5, 5, 9, 9, 12>>, <<0, 5, 3, 8, 6, 11>>}
Headings == {<<"", "", "">>, <<"x", "y", "x">>}
Span(l, h, i) == [from |-> l[2 * i - 1], to |-> l[2 * i], heading |-> h[i]]
Windows == {[chunks |-> [i \in 1 .. 3 |-> Span(l, h, i)], anchor |-> a, loaded |-> all \cup {a},
             before |-> n, after |-> n, budget |-> budget, focus |-> focusOn,
             marks |-> IF focusOn = <<>> THEN {1, 4, 6} ELSE {}, crossHeading |-> cross, counted |-> counted] :
                l \in Spans, h \in Headings, a \in 1 .. 3, all \in {{1, 2, 3}, {2, 3}}, n \in 1 .. 2,
                budget \in 2 .. 9, focusOn \in {<<>>, <<6, 8>>}, cross \in BOOLEAN, counted \in BOOLEAN}
E == INSTANCE EvidenceWindow WITH
        Requests <- Windows, PerToken <- 2, MarkLength <- 2, TitleLength <- 2, JoinLength <- 1,
        MinOverlap <- 2, Radius <- 2

\* Four units: a diamond; a superseded unit and a contradiction; a dead relation.
Relation(from, to) == [from |-> from, to |-> to, live |-> TRUE, contradicts |-> FALSE]
Active == [u \in 1 .. 4 |-> "active"]
Diamond == [units |-> Active,
            relations |-> <<Relation(1, 2), Relation(1, 3), Relation(2, 4), Relation(3, 4)>>]
Disputed == [units |-> [Active EXCEPT ![2] = "superseded"],
             relations |-> <<Relation(1, 2), Relation(2, 4),
                             [Relation(3, 1) EXCEPT !.contradicts = TRUE], Relation(1, 4)>>]
Broken == [units |-> Active,
           relations |-> <<Relation(1, 2), [Relation(1, 3) EXCEPT !.live = FALSE],
                           Relation(4, 1), Relation(2, 3)>>]
Compiled(x, y) == [b \in {k1, k2} |-> IF b = k1 THEN x ELSE y]
A == INSTANCE AgentQuery WITH
        Base <- {k1, k2},
        Snapshots <- {Compiled(x, Nothing) : x \in {Diamond, Disputed, Broken}} \cup {Compiled(Nothing, Nothing)},
        Scopes <- {[enabled |-> TRUE, explicit |-> FALSE, bases |-> {}]} \cup
                  {[enabled |-> e, explicit |-> TRUE, bases |-> b] : e \in BOOLEAN, b \in {{}, {k1}}},
        Asked <- {{}, {k1, k2}},
        Walks <- {[hits |-> hits, direction |-> direction, noConflicts |-> skip, maxHops |-> hops,
                   maxNodes |-> nodes, fanOut |-> fan] :
                     hits \in {<<1>>, <<3, 1>>}, direction \in {"in", "out", "both"}, skip \in BOOLEAN,
                     hops \in 1 .. 3, nodes \in {1, 3, 5}, fan \in 1 .. 2}

\* A titled table; a repeated name; a gap and a second table.
Line(at, what, name) == [at |-> at, kind |-> what, name |-> name]
M == INSTANCE SchemaModel WITH
        Doc <- {d1}, MaxGen <- 2, compiler <- compiling, reader <- loading,
        ConceptsOf <- [n \in {"a", "b", "t"} |-> CASE n = "a" -> {c1} [] n = "b" -> {c1, c2} [] OTHER -> {}],
        Sheets <- {<<Line(1, "title", "t"), Line(2, "header", ""), Line(3, "field", "a"), Line(4, "field", "b")>>,
                   <<Line(1, "header", ""), Line(2, "field", "a"), Line(3, "field", "a"),
                     Line(4, "title", "t"), Line(5, "header", ""), Line(6, "field", "b")>>,
                   <<Line(1, "header", ""), Line(2, "field", "a"), Line(4, "title", "t"),
                     Line(5, "header", ""), Line(6, "field", "a")>>}

ASSUME GenerationsAreAssumed == M!SchemaAssumption

rVars == <<helper, managerMu, helperMu, proc, shut, pc, ref, reaper, closer, orphans>>
sVars == <<doc, deletion, marking, queue, active, compiler, told, quiet>>
bVars == <<kind, policy, state, attempt, mark, target, sources, effects, dropped, run, incidents>>
qVars == <<db, reader>>
tVars == <<version, stated, unit, refused>>
eVars == <<request, window>>
aVars == <<call, answer>>
mVars == <<row, stored, compiling, loading, cache>>
lookups == <<eVars, aVars, mVars>>
services == <<rVars, sVars, bVars, qVars, tVars>>
vars == <<focus, services, lookups>>

Init ==
    /\ focus \in {"runtime", "semantic", "batches", "retrieval", "versions",
                  "evidence", "queries", "schema"}
    /\ R!Init /\ S!Init /\ B!Init /\ Q!Init /\ T!Init
    /\ E!Init /\ A!Init /\ M!Init
    /\ focus # "batches" => kind = "delete"
    /\ focus # "versions" => version = [f \in 1 .. 3 |-> Nil]

Runtime(step) == focus = "runtime" /\ step /\ UNCHANGED <<focus, sVars, bVars, qVars, tVars, lookups>>

Next ==
    \/ Runtime(R!Next)
    \/ focus = "semantic" /\ S!Next
         /\ UNCHANGED <<focus, rVars, bVars, qVars, tVars, lookups>>
    \/ focus = "batches" /\ B!Next
         /\ UNCHANGED <<focus, rVars, sVars, qVars, tVars, lookups>>
    \/ focus = "retrieval" /\ Q!Next
         /\ UNCHANGED <<focus, rVars, sVars, bVars, tVars, lookups>>
    \/ focus = "versions" /\ T!Next
         /\ UNCHANGED <<focus, rVars, sVars, bVars, qVars, lookups>>
    \/ focus = "evidence" /\ E!Next
         /\ UNCHANGED <<focus, services, aVars, mVars>>
    \/ focus = "queries" /\ A!Next
         /\ UNCHANGED <<focus, services, eVars, mVars>>
    \/ focus = "schema" /\ M!Next
         /\ UNCHANGED <<focus, services, eVars, aVars>>

\* sync.Mutex hands itself on to whoever waits, and deadlines and timers fire.
Fairness ==
    /\ SF_vars(Runtime(R!Continue(caller)))
    /\ SF_vars(Runtime(R!Continue(prober)))
    /\ SF_vars(Runtime(R!Reap))
    /\ SF_vars(Runtime(R!Closing))

Spec == Init /\ [][Next]_vars /\ Fairness

\* Type correctness of the components.
TypesOK == R!TypeOK /\ S!TypeOK /\ B!TypeOK /\ Q!TypeOK /\ T!TypeOK /\ M!TypeOK

\* After CloseWithContext no helper process is left (runtime/manager.go).
ClosedLeavesNothing == R!ClosedLeavesNothing
\* Every call to a helper returns, and so does CloseWithContext, without waiting
\* for calls (runtime/manager.go).
AllReturn == R!CallsReturn /\ R!CloseReturns

\* After any increments the units of semantic memory are those of a compilation
\* from nothing and lead to evidence that exists (semantic/incremental.go); it is one
\* of the documents as they are, without the deleted ones (knowledge/semantic_memory.go);
\* and what is true now follows from the versions alone (semantic/compiler.go).
MemoryIsSound ==
    /\ S!FactsAreRecompiled /\ S!EvidenceClosed
    /\ S!CompileIsCurrent /\ S!DeletedIsForgotten
    /\ T!StatusFollowsVersions

\* A batch does each of its items once, and all of them (app/operations.go).
BatchIsDone == B!BatchIsDone

\* A search or a continuation answers from one view (knowledge/search.go).
ReadersSeeOneView == Q!ReadersSeeOneView

\* The window around a hit reads on, keeps its budget and says where it ends
\* (evidence/evidence.go).
WindowsAreSound == E!WindowsAreSound

\* The answers of agents stay in scope, and their graphs are what the hits lead
\* to (agentquery/service.go, explore.go).
AnswersAreSound == A!AnswersStayInScope /\ A!GraphsAreSound

\* The dictionary of a document is that of one of its sheets (schemamodel/store.go).
SchemaIsWhole == M!CompiledIsSound /\ M!SchemaIsWhole

=============================================================================
