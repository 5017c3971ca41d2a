------------------------------ MODULE Retrieval ------------------------------
(* Search and GetDocumentContext (internal/knowledge/search.go) beside the    *)
(* publication, retirement and deletion of what they read. A search works in  *)
(* one read transaction and waits for models inside it; a continuation reads  *)
(* the document, its generation and the chunks around an anchor one by one.   *)
(* Ranking is abstracted: of what the lanes may find, any part is answered.   *)
EXTENDS Naturals, FiniteSets

CONSTANTS
    Doc,
    Changing,       \* those that are indexed again or deleted while one reads
    BaseOf,         \* the base of each document
    ChunksOf,       \* chunks per generation of each document
    Scopes,         \* the scopes that may be saved; all bases when none was
    Siblings,       \* neighbours on each side of a hit
    Radius,         \* and of an anchor, 64 in the code
    MaxGen,         \* bound: generations of a document
    MaxVariants     \* bound: phrasings of a query

VARIABLES
    db,             \* what SQLite holds
    reader          \* one request

RetrievalAssumption == Changing \subseteq Doc /\ MaxGen \in Nat \ {0}

vars == <<db, reader>>

Base == {BaseOf[d] : d \in Doc}
Gen == 1 .. MaxGen
Generation(d, g) == [doc : {d}, gen : {g}, idx : 1 .. ChunksOf[d]]
Chunk == UNION {Generation(d, g) : d \in Doc, g \in Gen}
Around(c, n) == (c.idx - n) .. (c.idx + n)
Live(d) == d \notin db.deleted

----------------------------------------------------------------------------
\* The writers, each step a transaction.

\* History: what a continuation reads has changed since it read the row.
Disturb(d) ==
    reader' = IF reader.pc \in {"identify", "anchor", "neighbours"} /\ d \in reader.doc
              THEN [reader EXCEPT !.disturbed = TRUE] ELSE reader

\* putChunksReplace: the next generation beside the active one.
Stage(d) ==
    /\ Live(d) /\ db.active[d] + 1 \in Gen
    /\ db' = [db EXCEPT !.chunks = @ \cup Generation(d, db.active[d] + 1)]
    /\ UNCHANGED reader

activateDocumentGeneration(d) ==
    LET g == db.active[d] + 1
    IN  /\ Live(d) /\ g \in Gen /\ Generation(d, g) \subseteq db.chunks
        /\ db' = [db EXCEPT !.active[d] = g, !.mapped = @ \cup {<<d, g>>}]
        /\ Disturb(d)

\* Retirement: the mappings of generations published before the cutoff go first.
RetireMapping(d, g) ==
    /\ g < db.active[d] /\ <<d, g>> \in db.mapped
    /\ db' = [db EXCEPT !.mapped = @ \ {<<d, g>>}]
    /\ Disturb(d)

\* Then their chunks go in batches, by the time they were staged: a cutoff between
\* staging and publication takes the chunks and leaves the mapping (torn).
RetireChunk(c) ==
    /\ c \in db.chunks /\ c.gen < db.active[c.doc]
    /\ db' = [db EXCEPT !.chunks = @ \ {c},
                        !.torn = @ \cup ({<<c.doc, c.gen>>} \cap db.mapped)]
    /\ UNCHANGED reader

\* The fence of a delete, of a document or of all documents of a base; its
\* clean-up takes the chunks (no query tells its batches apart), then the mappings.
MarkDeleting(D) ==
    /\ D \cap db.deleted = {}
    /\ db' = [db EXCEPT !.deleted = @ \cup D]
    /\ UNCHANGED reader
Delete(d) == MarkDeleting({d}) \/ MarkDeleting({e \in Changing : BaseOf[e] = BaseOf[d]})

deleteDocumentGenerations(d) ==
    /\ ~Live(d)
    /\ \/ db' = [db EXCEPT !.chunks = {c \in @ : c.doc # d}]
       \/ /\ \A c \in db.chunks : c.doc # d
          /\ db' = [db EXCEPT !.mapped = {m \in @ : m[1] # d}]
    /\ UNCHANGED reader

----------------------------------------------------------------------------
\* A search. Errors, the time limit and an empty scope end it without hits.

NoReader == [pc |-> "idle"]
Fresh(step) == [pc |-> step, scope |-> {}, bases |-> {}, mode |-> "lexical", variant |-> 1,
                view |-> {}, found |-> {}, around |-> {}, gone |-> {},
                doc |-> {}, gen |-> 0, disturbed |-> FALSE]
At(p) == reader.pc = p /\ UNCHANGED db
Go(p) == reader' = [reader EXCEPT !.pc = p]

Ends == reader.pc # "idle" /\ reader' = NoReader /\ UNCHANGED db

\* The saved scope (all bases when none was saved) and the request. A request that
\* meets nothing of the scope yields no list, which stands for all bases.
resolveSearchScope ==
    /\ At("idle")
    /\ \E saved \in Scopes, requested \in SUBSET Base :
           reader' = [Fresh("providers") EXCEPT !.scope = saved,
                !.bases = IF saved \cap requested = {} THEN Base ELSE saved \cap requested]

\* Without an active embedder there is no vector lane.
searchProviders ==
    /\ At("providers")
    /\ \E m \in {"hybrid", "vector", "lexical"} : reader' = [reader EXCEPT !.pc = "pin", !.mode = m]

\* What a query for active generations of live documents can see.
Current == {c \in db.chunks : c.gen = db.active[c.doc] /\ Live(c.doc)}

\* The read transaction: later reads show the database as it is now.
Pin == At("pin") /\ reader' = [reader EXCEPT !.pc = "lexical", !.view = Current]

ViewOfNow == Current \* mutant
View == reader.view

\* Both lanes search the bases of the request.
Finds == {c \in View : BaseOf[c.doc] \in reader.bases}

LexicalSearch ==
    /\ At("lexical")
    /\ reader' = [reader EXCEPT !.pc = IF reader.mode = "lexical" THEN "fuse" ELSE "embed",
                                !.found = @ \cup Finds]

\* Without a query vector this and all later phrasings are searched by words only.
Embed ==
    /\ At("embed")
    /\ Go("vector") \/ reader' = [reader EXCEPT !.pc = "fuse", !.mode = "lexical"]

\* A vector search that finds nothing in its space falls back on the words.
VectorSearch ==
    /\ At("vector")
    /\ \/ reader' = [reader EXCEPT !.pc = "fuse", !.found = @ \cup Finds]
       \/ reader.mode = "vector" /\ reader' = [reader EXCEPT !.pc = "fuse", !.mode = "lexical"]

Fuse ==
    /\ At("fuse")
    /\ \/ reader.variant < MaxVariants
          /\ reader' = [reader EXCEPT !.pc = "lexical", !.variant = @ + 1]
       \/ Go("rerank")

\* The pool sizes, the quality guard, the reranker, MMR, thresholds, filters and
\* topK leave a part of it; how it was found is of no more interest.
Rerank ==
    /\ At("rerank")
    /\ \E F \in SUBSET reader.found :
           reader' = [reader EXCEPT !.pc = "windows", !.found = F, !.mode = "lexical", !.variant = 1]

\* The neighbours of every hit, in whatever base.
Windows ==
    /\ At("windows")
    /\ reader' = [reader EXCEPT !.pc = "visible", !.around =
           {c \in View : \E h \in reader.found : c.doc = h.doc /\ c.idx \in Around(h, Siblings)}]

\* What was deleted while the search waited for models is not answered.
Visible(C) == {c \in C : Live(c.doc)}
excludeInvisibleResults ==
    /\ At("visible")
    /\ reader' = [reader EXCEPT !.pc = "answered", !.found = Visible(@), !.around = Visible(@),
                                !.gone = db.deleted]

----------------------------------------------------------------------------
\* GetDocumentContext: the chunks around an anchor, of the active generation or
\* of the one a search has named. No transaction holds its reads together.

\* A window is labelled with the generation of the row, or with the one asked for.
Continue ==
    /\ At("idle")
    /\ \E d \in Doc : Live(d) /\ \E g \in 0 .. MaxGen :
           reader' = [Fresh(IF g = 0 THEN "anchor" ELSE "identify") EXCEPT
                        !.doc = {d}, !.gen = g, !.view = {c \in Current : c.doc = d}]

\* A retired mapping answers that the evidence has expired.
generationByID ==
    /\ At("identify") /\ reader.doc \X {reader.gen} \subseteq db.mapped
    /\ Go("anchor")

\* The chunks of the generation that was asked for, or of the active one of now.
Readable ==
    {c \in db.chunks : /\ c.doc \in reader.doc /\ Live(c.doc)
                       /\ c.gen = IF reader.gen = 0 THEN db.active[c.doc] ELSE reader.gen}

Anchor ==
    /\ At("anchor")
    /\ \E c \in Readable : reader' = [reader EXCEPT !.pc = "neighbours", !.found = {c}]

Neighbours ==
    /\ At("neighbours")
    /\ reader' = [reader EXCEPT !.pc = "continued", !.around =
           {c \in Readable : \E a \in reader.found : c.idx \in Around(a, Radius)}]

----------------------------------------------------------------------------
Init ==
    /\ db = [active |-> [d \in Doc |-> 1], mapped |-> Doc \X {1}, deleted |-> {}, torn |-> {},
             chunks |-> UNION {Generation(d, 1) : d \in Doc}]
    /\ reader = NoReader

Next ==
    \/ \E d \in Changing :
        \/ Stage(d) \/ activateDocumentGeneration(d) \/ Delete(d) \/ deleteDocumentGenerations(d)
        \/ \E g \in Gen : RetireMapping(d, g)
    \/ \E c \in db.chunks : RetireChunk(c)
    \/ resolveSearchScope \/ searchProviders \/ Pin \/ LexicalSearch \/ Embed \/ VectorSearch
    \/ Fuse \/ Rerank \/ Windows \/ excludeInvisibleResults
    \/ Continue \/ generationByID \/ Anchor \/ Neighbours \/ Ends

Spec == Init /\ [][Next]_vars

----------------------------------------------------------------------------
\* Properties.

\* Type correctness; the active generation of a live document has all its chunks,
\* and so has every mapped one, unless retirement has torn it.
TypeOK ==
    /\ db.active \in [Doc -> Gen] /\ db.mapped \subseteq Doc \X Gen /\ db.chunks \subseteq Chunk
    /\ db.deleted \subseteq Doc /\ db.torn \subseteq Doc \X Gen
    /\ \A d \in Doc : Live(d) => Generation(d, db.active[d]) \subseteq db.chunks
    /\ \A m \in db.mapped \ db.torn : Live(m[1]) => Generation(m[1], m[2]) \subseteq db.chunks
    /\ reader # NoReader => reader.found \cup reader.around \subseteq Chunk

\* A search answers from one view (search.go, "cannot mix generations"): its hits
\* and windows are of one generation of each document, the one active in its
\* snapshot, whole around each hit, within the saved scope, and of no document
\* whose deletion had been committed at the end. Left out: requests beside the
\* scope, which are widened to all bases.
SearchSeesOneView ==
    reader.pc = "answered" =>
        /\ \A b, c \in reader.found \cup reader.around :
            /\ b.doc = c.doc => b.gen = c.gen
            /\ b.doc \notin reader.gone
            /\ BaseOf[b.doc] \in reader.scope \/ reader.bases = Base
        /\ \A h \in reader.found : \A c \in Generation(h.doc, h.gen) :
            c.idx \in Around(h, Siblings) => c \in reader.around

\* A continuation that names a generation gets no chunk of another, one that names
\* none gets what it is labelled with, and both get all of it that is around their
\* anchor. Left out: generations torn by retirement, and continuations beside which
\* a generation was activated or retired, for their reads are not one transaction.
ContinuationIsWhole ==
    reader.pc = "continued" =>
        /\ reader.gen # 0 => \A c \in reader.around : c.gen = reader.gen
        /\ ~reader.disturbed => \E d \in reader.doc :
            LET all == IF reader.gen = 0 THEN reader.view ELSE Generation(d, reader.gen)
            IN  \/ reader.around = {c \in all : \E a \in reader.found : c.idx \in Around(a, Radius)}
                \/ ~Live(d) \/ <<d, reader.gen>> \in db.torn

\* Whatever is published, retired or deleted beside it, an answer is of one view.
ReadersSeeOneView == SearchSeesOneView /\ ContinuationIsWhole

=============================================================================
