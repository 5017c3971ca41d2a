--------------------------- MODULE SemanticCompile ---------------------------
(***************************************************************************)
(* Semantic memory of one base: internal/knowledge/semantic_memory.go over  *)
(* internal/semantic. A compilation holds facts, the concepts and summaries *)
(* derived from facts, and the topics derived from concepts, each with the  *)
(* documents it comes from. Publishing a document marks it in a durable     *)
(* queue; a compilation builds the next generation from the one that is     *)
(* active and the documents that changed, and a delete compiles at once.    *)
(*                                                                          *)
(* The text of a document is a set of facts and headings. Retired           *)
(* generations, temporal supersession and relations are left out.           *)
(***************************************************************************)
EXTENDS Integers, FiniteSets

CONSTANTS
    Doc, Fact, Concept, Topic,
    Last,           \* [Doc -> Nat], bound: published versions of a document
    Deletable,      \* bound: the documents that are ever deleted
    FactsOf,        \* [Source -> SUBSET Fact]
    HeadingsOf,     \* [Source -> SUBSET Concept]
    ConceptOf,      \* [Fact -> Concept]: the heading that the fact mentions
    TopicOf,        \* [Concept -> Topic]
    Nothing,        \* no compilation
    Nobody          \* nobody compiles, or a compile_semantic_memory operation does

VARIABLES
    doc,            \* version of each ready document, 0 for none
    deletion,       \* where the delete of each document is
    marking,        \* documents published but not yet marked
    queue,          \* unresolved rows of knowledge_compilation_queue
    active,         \* the active compilation, or Nothing
    compiler,       \* the holder of semanticCompileMu and what it has read
    told,           \* history: deletes that found a compilation to clean
    quiet           \* history: no document changed since the compiler began

vars == <<doc, deletion, marking, queue, active, compiler, told, quiet>>

Source == UNION {{d} \X (1 .. Last[d]) : d \in Doc}

\* The texts have the facts and the headings that there are.
SemanticAssumption ==
    /\ Last \in [Doc -> Nat]
    /\ \A s \in Source : FactsOf[s] \subseteq Fact /\ HeadingsOf[s] \subseteq Concept

Idle == [at |-> "idle", by |-> Nobody, read |-> [d \in Doc |-> 0], prev |-> Nothing,
         pending |-> {}, next |-> Nothing]
SourcesOf(loaded) == {<<d, loaded[d]>> : d \in {x \in Doc : loaded[x] # 0}}

----------------------------------------------------------------------------
\* Compile: the units of a set of sources.
FactUnits(S) == [f \in Fact |-> {s \in S : f \in FactsOf[s]}]

Compile(S) ==
    LET facts == FactUnits(S)
        named == UNION {HeadingsOf[s] : s \in S}
        about(c) == {f \in Fact : facts[f] # {} /\ ConceptOf[f] = c}
        own(s) == {f \in FactsOf[s] : ConceptOf[f] \in HeadingsOf[s]}
    IN
    [facts |-> facts,
     concepts |-> [c \in Concept |->
        IF c \notin named THEN [from |-> {}, sources |-> {}]
        ELSE [from |-> about(c),
              sources |-> IF about(c) = {} THEN {s \in S : c \in HeadingsOf[s]} ELSE {}]],
     topics |-> [t \in Topic |-> {c \in named : TopicOf[c] = t}],
     summaries |-> [d \in Doc |->
        [from |-> UNION {own(s) : s \in {x \in S : x[1] = d}},
         sources |-> {s \in S : s[1] = d /\ own(s) = {}}]]]

NoUnits == Compile({})

\* sanitizePreviousUnits: provenance in documents that changed is removed.
KeptAll(sources, dirty) == sources \* mutant
Kept(sources, dirty) == {s \in sources : s[1] \notin dirty}

\* fixRetainedProvenance drops, level by level, what has lost all support.
Supported(u) == {c \in Concept : u.concepts[c].from # {} \/ u.concepts[c].sources # {}}

Sanitized(u, dirty) ==
    LET facts == [f \in Fact |-> Kept(u.facts[f], dirty)]
        alive == {f \in Fact : facts[f] # {}}
        part(x) == [from |-> x.from \cap alive, sources |-> Kept(x.sources, dirty)]
        concepts == [c \in Concept |-> part(u.concepts[c])]
    IN
    [facts |-> facts, concepts |-> concepts,
     topics |-> [t \in Topic |-> u.topics[t] \cap Supported([concepts |-> concepts])],
     summaries |-> [d \in Doc |-> IF d \in dirty THEN [from |-> {}, sources |-> {}]
                                  ELSE part(u.summaries[d])]]

\* MergeIncremental: units with one key are one unit with both supports.
Merge(u, delta, dirty) ==
    LET old == Sanitized(u, dirty)
        join(x, y) == [from |-> x.from \cup y.from, sources |-> x.sources \cup y.sources]
    IN
    [facts |-> [f \in Fact |-> old.facts[f] \cup delta.facts[f]],
     concepts |-> [c \in Concept |-> join(old.concepts[c], delta.concepts[c])],
     topics |-> [t \in Topic |-> old.topics[t] \cup delta.topics[t]],
     summaries |-> [d \in Doc |-> join(old.summaries[d], delta.summaries[d])]]

----------------------------------------------------------------------------
\* Documents change beside the compiler.

Changed == quiet' = FALSE

\* activateDocumentGeneration makes a version visible, markSemanticDocumentUpdated
\* follows; a replayed import does not mark again.
Publish(d) ==
    /\ deletion[d] = "none" /\ doc[d] < Last[d] /\ d \notin marking
    /\ doc' = [doc EXCEPT ![d] = @ + 1] /\ marking' = marking \cup {d} /\ Changed
    /\ UNCHANGED <<deletion, queue, active, compiler, told>>

MarkUpdated(d) ==
    /\ d \in marking /\ marking' = marking \ {d} /\ queue' = queue \cup {d}
    /\ UNCHANGED <<doc, deletion, active, compiler, told, quiet>>

\* The fence of a delete; an ingest that was about to mark the document may.
FenceDocument(d) ==
    /\ d \in Deletable /\ deletion[d] = "none" /\ doc[d] # 0
    /\ deletion' = [deletion EXCEPT ![d] = "check"] /\ doc' = [doc EXCEPT ![d] = 0] /\ Changed
    /\ UNCHANGED <<marking, queue, active, compiler, told>>

\* deleteDocumentTree asks once whether semantic memory is active.
CheckSemantic(d) ==
    /\ deletion[d] = "check" /\ deletion' = [deletion EXCEPT ![d] = "mark"]
    /\ told' = IF active = Nothing THEN told \ {d} ELSE told \cup {d}
    /\ UNCHANGED <<doc, marking, queue, active, compiler, quiet>>

MarkDeleted(d) ==
    /\ deletion[d] = "mark" /\ queue' = queue \cup {d}
    /\ deletion' = [deletion EXCEPT ![d] = IF d \in told THEN "compile" ELSE "done"]
    /\ UNCHANGED <<doc, marking, active, compiler, told, quiet>>

\* RetireActiveCompilation, after the mutex is released
retireActive == Nothing

Retire(d) ==
    /\ deletion[d] = "retire" /\ deletion' = [deletion EXCEPT ![d] = "done"]
    /\ active' = retireActive
    /\ UNCHANGED <<doc, marking, queue, compiler, told, quiet>>

----------------------------------------------------------------------------
\* CompileSemanticMemoryWithProgress

\* The ready documents with their metadata signatures; by is an operation, or
\* a delete that propagates.
ReadDocuments(by) ==
    /\ compiler = Idle /\ (by \in Doc => deletion[by] = "compile")
    /\ compiler' = [Idle EXCEPT !.at = "previous", !.by = by, !.read = doc]
    /\ quiet' = TRUE
    /\ UNCHANGED <<doc, deletion, marking, queue, active, told>>

ReadPrevious ==
    /\ compiler.at = "previous"
    /\ compiler' = [compiler EXCEPT !.at = "load", !.prev = active, !.pending = queue]
    /\ UNCHANGED <<doc, deletion, marking, queue, active, told, quiet>>

\* Without the signatures of a previous compilation everything is read again.
Full(c) == IF c.prev = Nothing THEN TRUE ELSE \A d \in Doc : c.prev.signed[d] = 0

\* Marked, or with another signature, or fingerprint, than was compiled.
QueuedChanges(c) == IF c.prev = Nothing THEN Doc ELSE c.pending \* mutant
Changes(c) ==
    IF c.prev = Nothing THEN Doc
    ELSE IF Full(c) THEN queue \cup {d \in Doc : doc[d] # c.prev.loaded[d]}
    ELSE c.pending \cup {d \in Doc : c.read[d] # c.prev.signed[d]}

\* Text is loaded from whatever generation is active by then, also for a
\* document whose signature was read earlier.
Load ==
    LET c == compiler
        first == c.prev = Nothing
        dirty == Changes(c)
        now == [d \in Doc |-> IF d \in dirty /\ (Full(c) \/ c.read[d] # 0) THEN doc[d] ELSE 0]
        loaded == [d \in Doc |-> IF d \in dirty THEN now[d] ELSE c.prev.loaded[d]]
        delta == Compile(SourcesOf(now))
    IN
    /\ c.at = "load" /\ ~(first /\ SourcesOf(now) = {})
    /\ compiler' = IF ~first /\ dirty = {} THEN [c EXCEPT !.at = "resolve", !.next = c.prev]
                   ELSE [c EXCEPT !.at = "activate",
                           !.next = [signed |-> [d \in Doc |-> IF loaded[d] # 0 THEN c.read[d] ELSE 0],
                                     loaded |-> loaded,
                                     units |-> IF first THEN delta
                                               ELSE Merge(c.prev.units, delta, dirty)]]
    /\ UNCHANGED <<doc, deletion, marking, queue, active, told, quiet>>

\* CreateCompilation and ActivateCompilation, which retires the previous one
Activate ==
    /\ compiler.at = "activate"
    /\ active' = compiler.next /\ compiler' = [compiler EXCEPT !.at = "resolve"]
    /\ UNCHANGED <<doc, deletion, marking, queue, told, quiet>>

\* ResolveDocumentChanges takes every unresolved row, not those it had read.
Resolve ==
    /\ compiler.at = "resolve"
    /\ queue' = {}
    /\ compiler' = Idle
    /\ deletion' = IF compiler.by = Nobody THEN deletion
                   ELSE [deletion EXCEPT ![compiler.by] = "done"]
    /\ UNCHANGED <<doc, marking, active, told, quiet>>

\* Any of its reads and writes may fail; the build stays unpublished.
CompileFails ==
    /\ compiler.at \in {"previous", "load", "activate", "resolve"}
    /\ compiler' = Idle
    /\ deletion' = IF compiler.by = Nobody THEN deletion
                   ELSE [deletion EXCEPT ![compiler.by] = "retire"]
    /\ UNCHANGED <<doc, marking, queue, active, told, quiet>>

\* Deletes are replayed after a restart, from the fence on.
Crash ==
    /\ compiler # Idle \/ marking # {} \/ \E d \in Doc : deletion[d] \in {"mark", "compile", "retire"}
    /\ compiler' = Idle /\ marking' = {}
    /\ deletion' = [d \in Doc |-> IF deletion[d] \in {"none", "done"} THEN deletion[d] ELSE "check"]
    /\ UNCHANGED <<doc, queue, active, told, quiet>>

Init ==
    /\ doc = [d \in Doc |-> 0] /\ deletion = [d \in Doc |-> "none"]
    /\ marking = {} /\ queue = {} /\ active = Nothing /\ compiler = Idle
    /\ told = {} /\ quiet = TRUE

Next ==
    \/ \E d \in Doc : \/ Publish(d) \/ MarkUpdated(d) \/ FenceDocument(d) \/ CheckSemantic(d)
                      \/ MarkDeleted(d) \/ Retire(d) \/ ReadDocuments(d)
    \/ ReadDocuments(Nobody) \/ ReadPrevious \/ Load \/ Activate \/ Resolve \/ CompileFails \/ Crash

----------------------------------------------------------------------------
Compilation(c) ==
    /\ \A d \in Doc : c.signed[d] \in 0 .. Last[d] /\ c.loaded[d] \in 0 .. Last[d]
    /\ c.units.facts \in [Fact -> SUBSET Source]

TypeOK ==
    /\ \A d \in Doc : doc[d] \in 0 .. Last[d]
    /\ marking \cup queue \cup told \subseteq Doc
    /\ deletion \in [Doc -> {"none", "check", "mark", "compile", "retire", "done"}]
    /\ active # Nothing => Compilation(active)
    /\ compiler.at \in {"idle", "previous", "load", "activate", "resolve"}

\* The facts of a compilation are those a compilation from nothing would find
\* in the same texts, however many increments it went through.
FactsAreRecompiled ==
    active # Nothing => active.units.facts = FactUnits(SourcesOf(active.loaded))

\* Every unit leads to evidence in the texts the compilation was built from:
\* concepts and summaries name them or facts that exist, topics concepts that
\* exist. (A concept that also stands in an unchanged document may get lost.)
EvidenceClosed ==
    active # Nothing =>
        LET u == active.units
            S == SourcesOf(active.loaded)
            alive == {f \in Fact : u.facts[f] # {}}
            traced(x) == x.from \subseteq alive /\ x.sources \subseteq S
        IN
        /\ \A c \in Concept : traced(u.concepts[c])
        /\ \A d \in Doc : traced(u.summaries[d])
        /\ \A t \in Topic : \A c \in u.topics[t] :
               u.concepts[c].from # {} \/ u.concepts[c].sources # {}

\* A document that appears between the two listings of a full compilation is
\* compiled without a signature, and then only its mark can remove it.
Unsigned(c, d) == c.loaded[d] # 0 /\ c.signed[d] = 0

\* A compilation beside which no document changed is one of the documents as
\* they are, even when an earlier one resolved a mark it had not read, or a
\* crash came before the mark: the signatures tell.
CompileIsCurrent ==
    compiler.at = "resolve" /\ quiet =>
        \A d \in Doc : Unsigned(compiler.next, d) \/ compiler.next.loaded[d] = doc[d]

\* A delete that found semantic memory active has removed its document from it
\* when it is over, or has retired it.
DeletedIsForgotten ==
    \A d \in told : deletion[d] = "done" /\ active # Nothing =>
        Unsigned(active, d) \/ active.loaded[d] = 0

=============================================================================
