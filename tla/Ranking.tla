------------------------------- MODULE Ranking -------------------------------
(* How a search ranks what its lanes find (internal/knowledge/search.go, with *)
(* internal/retrieval and internal/rerank): two lanes for each phrasing, rank *)
(* fusion, the guard on extraction quality, the reranker, the threshold and   *)
(* diversification. Retrieval has the snapshot the lanes read.                *)
(* Scores are hundredths; equal scores are ordered by chance, as in the code, *)
(* which fills its lists from maps.                                           *)
EXTENDS Integers, FiniteSets, Sequences, SequencesExt, Functions

CONSTANTS
    Chunk, DocOf, BaseOf,
    Bases,          \* the bases of the request in the order they are searched
    Reranker,       \* of each base; Nothing
    Similar,        \* cosine similarity of two chunks
    Embedded,       \* chunks that come with a vector
    Fits,           \* chunks the structure filter accepts
    Queries,        \* phrasings (words and near: what each lane finds), mode, topK,
                    \* threshold, mmr, quality of the documents
    Grades,         \* scores of a reranker
    Nothing

VARIABLE
    search

VectorWeight == 1           \* RRFVectorWeight
Floor == 35                 \* defaultVectorRelevanceFloor
Lambda == 75                \* MMRDiversity

Request == search.request
Becomes(s) == search' = s

\* sort.SliceStable of what a map ranged over.
Orders(S, score) ==
    {o \in [1 .. Cardinality(S) -> S] :
        /\ \A i, j \in DOMAIN o : i < j => o[i] # o[j]
        /\ \A i \in 1 .. Len(o) - 1 : score[o[i]] >= score[o[i + 1]]}

\* The same of a sequence.
SortedBy(s, score) ==
    LET Precedes(i, j) == score[s[i]] > score[s[j]] \/ (score[s[i]] = score[s[j]] /\ i <= j)
    IN  [k \in DOMAIN s |-> s[CHOOSE i \in DOMAIN s :
                                Cardinality({j \in DOMAIN s : Precedes(j, i)}) = k]]

Best(f) == IF DOMAIN f = {} THEN 0 ELSE CHOOSE m \in Range(f) : \A n \in Range(f) : n <= m

\* 1 / (60 + rank), times the common multiple of the ranks that occur.
Share(rank) == (61 * 62 * 63) \div (60 + rank)
Contribution(list, weight, c) ==
    IF c \in ToSet(list) THEN weight * Share(CHOOSE i \in DOMAIN list : list[i] = c) ELSE 0
ReciprocalRankFusion(lists, weights) ==
    [c \in UNION {ToSet(lists[i]) : i \in DOMAIN lists} |->
        FoldLeft(LAMBDA sum, i : sum + Contribution(lists[i], weights[i], c), 0,
                 [i \in DOMAIN lists |-> i])]

resolveMode(requested, embeds) ==
    IF requested \in {"hybrid", "lexical"} \/ (requested = "vector" /\ embeds) THEN requested
    ELSE IF requested = "" /\ embeds THEN "hybrid" ELSE "lexical"

-----------------------------------------------------------------------------
\* The lanes of one phrasing.

Phrasing == Request.phrasings[search.variant]

\* VectorSearch of each base that could embed the phrasing, one after the other.
VectorOrders(embedded) ==
    {FlattenSeq(parts) : parts \in
        {p \in [DOMAIN Bases -> UNION {Orders(S, Phrasing.near) : S \in SUBSET DOMAIN Phrasing.near}] :
            \A i \in DOMAIN Bases : p[i] \in
                Orders({c \in DOMAIN Phrasing.near : BaseOf[c] = Bases[i] /\ Bases[i] \in embedded},
                       Phrasing.near)}}

Highest(f, g) == [c \in DOMAIN f |-> IF c \in DOMAIN g /\ g[c] > f[c] THEN g[c] ELSE f[c]]

\* A phrasing that nobody can embed, or that finds nothing near, is searched by
\* its words, and so are the phrasings after it.
Settled(mode, embedded, near) ==
    IF mode = "lexical" \/ embedded = {} \/ (mode = "vector" /\ near = <<>> /\ DOMAIN Phrasing.words # {})
    THEN "lexical" ELSE mode

\* Lanes of the next phrasing and their fusion.
Lanes ==
    /\ search.step = "lanes"
    /\ \E embedded \in IF search.mode = "lexical" THEN {{}} ELSE SUBSET ToSet(Bases) :
       \E near \in VectorOrders(embedded) :
       \E words \in Orders(DOMAIN Phrasing.words, Phrasing.words) :
        LET mode == Settled(search.mode, embedded, near)
            fused == ReciprocalRankFusion(<<near, words>>, <<VectorWeight, 1>>)
            found == [c \in ToSet(near) |-> Phrasing.near[c]]
        IN  \E order \in CASE mode = "hybrid" -> Orders(DOMAIN fused, fused)
                           [] mode = "vector" -> {near}
                           [] OTHER -> {words} :
            Becomes([search EXCEPT
                    !.step = IF search.variant < Len(Request.phrasings) THEN "lanes" ELSE "fuse",
                    !.variant = @ + 1, !.mode = mode, !.fell = @ \/ mode # search.mode,
                    !.orders = Append(@, order),
                    !.lists = @ \cup IF mode = "hybrid" THEN {near, words} ELSE {order},
                    !.fusion = IF mode = "hybrid" THEN fused ELSE @,
                    !.words = Highest(@, Phrasing.words), !.near = Highest(@, found),
                    !.vector = @ \/ (search.variant = 1 /\ embedded # {})])

\* Several phrasings are fused once more.
Fuse ==
    /\ search.step = "fuse"
    /\ IF Len(search.orders) = 1
       THEN Becomes([search EXCEPT !.step = "guard", !.order = search.orders[1]])
       ELSE LET fused == ReciprocalRankFusion(search.orders, [i \in DOMAIN search.orders |-> 1])
            IN  \E order \in Orders(DOMAIN fused, fused) :
                    Becomes([search EXCEPT !.step = "guard", !.order = order, !.fusion = fused])

-----------------------------------------------------------------------------

Quality(c) == Request.quality[DocOf[c]]
Healthy(c) == Quality(c) = "good"
Low(c) == Quality(c) = "low"

\* A guard that keeps the place of low quality.
InPlace(order) == SelectSeq(order, LAMBDA c : Quality(c) # "incomplete") \* mutant
Guarded(order) == SelectSeq(order, Healthy) \o SelectSeq(order, Low)

\* The guard gives way when the qualities cannot be read.
applyRetrievalQualityGuard ==
    /\ search.step = "guard"
    /\ \/ Becomes([search EXCEPT !.step = "rerank", !.order = Guarded(@)])
       \/ Becomes([search EXCEPT !.step = "rerank", !.unguarded = TRUE])

\* Chunks of bases with different rerankers are not compared.
commonReranker(order) ==
    LET rerankers == {Reranker[BaseOf[c]] : c \in ToSet(order)}
    IN  IF Cardinality(rerankers) = 1 THEN CHOOSE r \in rerankers : TRUE ELSE Nothing

First(s, n) == SubSeq(s, 1, IF Len(s) < n THEN Len(s) ELSE n)

\* The first topK are scored and the others given up, unless the reranker fails.
Rerank ==
    /\ search.step = "rerank"
    /\ LET candidates == First(search.order, Request.topK)
           next == [search EXCEPT !.step = "diversify"]
       IN  IF commonReranker(search.order) = Nothing \/ Len(candidates) < 2 THEN Becomes(next)
           ELSE \/ Becomes([next EXCEPT !.status = "degraded"])
                \/ \E scores \in [ToSet(candidates) -> Grades] :
                    Becomes([next EXCEPT !.status = "applied", !.scores = scores,
                                     !.order = SortedBy(candidates, scores)])

-----------------------------------------------------------------------------

\* Relevance in the mode the search ended with.
Relevance ==
    [c \in ToSet(search.order) |->
        CASE search.status = "applied" -> search.scores[c]
          [] search.status # "applied" /\ search.mode = "vector" -> search.near[c]
          [] search.status # "applied" /\ search.mode = "hybrid" /\ Best(search.fusion) > 0 ->
                (100 * search.fusion[c]) \div Best(search.fusion)
          [] OTHER -> search.words[c]]

Threshold ==
    IF Request.threshold <= 0 /\ search.mode = "vector" THEN Floor ELSE Request.threshold

\* MaximalMarginalRelevance: the one that is most relevant and least like those
\* picked before, the first of equals.
Penalty(picked, c) == Best([p \in ToSet(picked) |-> Similar[p, c]])
Marginal(relevance, picked, c) == Lambda * relevance[c] - (100 - Lambda) * Penalty(picked, c)

Pick(relevance, picked, left) ==
    left[CHOOSE i \in DOMAIN left : \A j \in DOMAIN left :
            LET x == Marginal(relevance, picked, left[i])
                y == Marginal(relevance, picked, left[j])
            IN  x > y \/ (x = y /\ i <= j)]

Diverse(relevance, hits) ==
    LET Step(state, i) ==
            LET c == Pick(relevance, state.picked, state.left)
            IN  [picked |-> Append(state.picked, c), left |-> Remove(state.left, c)]
    IN  FoldLeft(Step, [picked |-> <<>>, left |-> hits], [i \in DOMAIN hits |-> i]).picked

MaximalMarginalRelevance(relevance, hits) ==
    LET with == SelectSeq(hits, LAMBDA c : c \in Embedded)
    IN  IF Len(with) < 2 THEN hits
        ELSE Diverse(relevance, with) \o SelectSeq(hits, LAMBDA c : c \notin Embedded)

\* Only what has 60 % of the best relevance may be moved.
Diversify ==
    /\ search.step = "diversify"
    /\ LET relevance == Relevance
           relative == (60 * Best(relevance)) \div 100
           floor == IF Threshold > relative THEN Threshold ELSE relative
           next == [search EXCEPT !.step = "answer", !.relevance = relevance]
       IN  IF Request.mmr /\ search.vector
           THEN Becomes([next EXCEPT
                        !.threshold = floor,
                        !.order = MaximalMarginalRelevance(relevance,
                                      SelectSeq(@, LAMBDA c : relevance[c] >= floor))
                                  \o SelectSeq(@, LAMBDA c : relevance[c] < floor)])
           ELSE Becomes([next EXCEPT !.threshold = Threshold])

\* matchesStructureFilter, the threshold and the floor of vector-only evidence.
Passes(c) ==
    /\ search.threshold > 0 => search.relevance[c] >= search.threshold
    /\ search.mode = "hybrid" => search.words[c] > 0 \/ search.near[c] >= Floor
    /\ c \in Fits

Answer ==
    /\ search.step = "answer"
    /\ Becomes([search EXCEPT !.step = "done", !.order = First(SelectSeq(@, Passes), Request.topK)])

Init == search = [step |-> "idle"]

Search ==
    /\ search.step = "idle"
    /\ \E q \in Queries, embeds \in BOOLEAN :
        Becomes([step |-> "lanes", request |-> q, variant |-> 1, mode |-> resolveMode(q.mode, embeds),
             orders |-> <<>>, lists |-> {}, order |-> <<>>, fusion |-> <<>>,
             words |-> [c \in Chunk |-> 0], near |-> [c \in Chunk |-> 0], vector |-> FALSE,
             status |-> "none", scores |-> <<>>, relevance |-> <<>>, threshold |-> 0,
             fell |-> FALSE, unguarded |-> FALSE])

Next == Search \/ Lanes \/ Fuse \/ applyRetrievalQualityGuard \/ Rerank \/ Diversify \/ Answer

-----------------------------------------------------------------------------

Before(s, c, d) ==
    \E i \in DOMAIN s : s[i] = c /\ (d \notin ToSet(s) \/ \E j \in DOMAIN s : i < j /\ s[j] = d)

\* What is ahead of another chunk in every list that has that one is ahead in the
\* fusion (retrieval.go, ReciprocalRankFusion).
FusionRespectsLanes ==
    search.step = "guard" =>
        \A c, d \in ToSet(search.order) :
            c # d /\ (\A list \in search.lists : d \in ToSet(list) => Before(list, c, d)) =>
                Before(search.order, c, d)

Done == search.step = "done"
Answered == ToSet(search.order)
Plain == search.status # "applied" /\ ~Request.mmr

\* What words never said and vectors said but weakly is not answered. Exempt: a
\* search that fell back on words, one reranked or with a threshold of its own
\* in vector mode.
WeakStaysOut ==
    Done /\ (search.mode = "hybrid" \/ (search.mode = "vector" /\ Plain /\ Request.threshold = 0)) =>
        \A c \in Answered : search.words[c] > 0 \/ search.near[c] >= Floor

\* "Lexical matches are not subjected to this model-dependent floor": with room
\* left, what the words found is answered. Exempt: chunks found by short tokens
\* alone, whose score is 0, and a search that fell back on words between phrasings.
WordsAreAnswered ==
    Done /\ Plain /\ ~search.fell /\ search.mode # "vector" /\ Request.threshold = 0
         /\ Len(search.order) < Request.topK =>
        \A c \in Fits : search.words[c] > 0 /\ Quality(c) # "incomplete" => c \in Answered

\* Incomplete extractions are never answered; low ones come after healthy ones,
\* unless a reranker or diversification, which come later, put them ahead.
GuardHolds ==
    Done /\ ~search.unguarded =>
        /\ \A c \in Answered : Quality(c) # "incomplete"
        /\ Plain => \A c, d \in Answered : Healthy(c) /\ Low(d) => Before(search.order, c, d)

\* Neither reranking nor diversification invents, doubles or, but for the
\* threshold, loses a candidate.
NothingLost ==
    /\ search.step \in {"diversify", "answer", "done"} => IsInjective(search.order)
    /\ search.step = "answer" => ToSet(search.order) = DOMAIN search.relevance

AnswersAreRanked == FusionRespectsLanes /\ WeakStaysOut /\ WordsAreAnswered /\ GuardHolds /\ NothingLost
=============================================================================
