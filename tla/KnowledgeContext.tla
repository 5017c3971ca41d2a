-------------------------- MODULE KnowledgeContext --------------------------
(* How a question gets its context (internal/semantic: router.go, temporal.go, *)
(* history.go, history_phase.go, search.go, context.go, and                   *)
(* internal/knowledge/semantic_memory.go): the route and the versions or the  *)
(* range the question is about, the units of memory it activates, the         *)
(* evidence of versions and of history, and the package within a budget.      *)
(* A question is what the lexical rules find in it; scores are integers and   *)
(* a line, a title and a citation have a fixed cost in tokens.                *)
EXTENDS VersionOrder

CONSTANTS
    Questions,      \* mentions, range, words, signals, policy (or NoPolicy)
    Corpora,        \* [units: sequence ordered by key, relations]
    Found,          \* what Search may answer: sequences of evidence
    Budgets,
    Top, FactTop,   \* 8 and 4
    Representatives, PerVersion,    \* 8 and 4
    LineCost, TitleCost, TextCost, CiteCost,
    NoPolicy

VARIABLE
    context

Becomes(c) == context' = c
Question == context.question
Units == context.corpus.units
Ids == DOMAIN Units
Temporal == context.temporal

-----------------------------------------------------------------------------
\* What a question says about time.

EndpointKind(e) ==
    CASE e.family = "semantic" /\ Ordered(e) -> "version"
      [] e.family = "date" -> "time"
      [] OTHER -> "event"

From(kind, e, in) == [NoRange EXCEPT !.kind = kind, !.from = e, !.fromIn = in]
UpTo(kind, e, in) == [NoRange EXCEPT !.kind = kind, !.to = e, !.toIn = in]

\* "until X" and "since X" say nothing when X is neither a version nor a date.
ParseTemporalRange(r) ==
    LET kind == EndpointKind(r.from)
        swapped == Older(r.to, r.from)
    IN  CASE r.form = "pair" /\ kind # "event" /\ EndpointKind(r.to) = kind ->
                [kind |-> kind, from |-> IF swapped THEN r.to ELSE r.from, fromIn |-> TRUE,
                 to |-> IF swapped THEN r.from ELSE r.to, toIn |-> TRUE, scope |-> ""]
          [] r.form = "before" -> UpTo(kind, r.from, FALSE)
          [] r.form = "until" /\ kind # "event" -> UpTo(kind, r.from, TRUE)
          [] r.form = "after" -> From(kind, r.from, FALSE)
          [] r.form = "since" /\ kind # "event" -> From(kind, r.from, TRUE)
          [] r.form \in {"recent", "earlier"} -> [NoRange EXCEPT !.kind = "ambiguous", !.scope = r.form]
          [] OTHER -> NoRange

\* 3GPP forms and tokens are not recognised in a question.
VersionsIn(q) ==
    LET said == q.mentions \o SelectSeq(<<q.range.from, q.range.to>>, LAMBDA v : v # NoVersion)
    IN  Distinct(SelectSeq(said, LAMBDA v : v.family = "semantic")
                 \o SelectSeq(said, LAMBDA v : v.family = "release"))

WordIntent(q) ==
    LET n == Len(VersionsIn(q))
    IN  IF n >= 1 /\ "evolution" \in q.words THEN "EVOLUTION"
        ELSE IF n >= 2 THEN "COMPARE_VERSIONS"
        ELSE IF n = 1 THEN "AS_OF_VERSION"
        ELSE IF "validity" \in q.words THEN "VALIDITY"
        ELSE IF "history" \in q.words THEN "HISTORICAL"
        ELSE IF "current" \in q.words THEN "CURRENT" ELSE "NONE"

Relative(range) == range.kind = "version" /\ (range.from = NoVersion \/ range.to = NoVersion)

\* A range that is open, an event or vague makes the question one about history.
ParseTemporalQuery(q) ==
    LET range == ParseTemporalRange(q.range)
        versions == VersionsIn(q)
        kept == IF range.kind = "ambiguous" /\ versions # <<>> THEN NoRange ELSE range
        words == WordIntent(q)
    IN  [versions |-> versions, range |-> kept,
         intent |-> IF kept.kind \in {"ambiguous", "event"} \/ Relative(kept) THEN "RANGE_HISTORY"
                    ELSE IF words = "NONE" /\ kept.kind # "none" THEN "RANGE_HISTORY"
                    ELSE IF words = "NONE" /\ "evolution" \in q.words THEN "EVOLUTION"
                    ELSE words]

\* orderedTemporalVersions.
FromVersion(versions) ==
    IF versions = <<>> THEN NoVersion
    ELSE IF Len(versions) = 2 /\ Older(versions[2], versions[1]) THEN versions[2] ELSE versions[1]

\* The strongest signal, a fact among equals, then the first of the list.
Families == <<"temporal", "multihop", "comparison", "cross", "global", "local">>
Strongest(signals) ==
    FoldLeft(LAMBDA best, f : IF signals[f] > signals[best] THEN f ELSE best, "fact", Families)
Broad == <<"global", "multihop", "comparison", "cross">>

\* A broad question keeps its own route; its range is dropped, its versions stay.
RouteQuery(q, temporal) ==
    LET signals == q.signals
        broad == \E i \in DOMAIN Broad : signals[Broad[i]] > signals["fact"]
        first == Strongest(signals)
        start == IF signals["global"] > 0 THEN "global" ELSE first
    IN  IF temporal.intent = "RANGE_HISTORY" /\ broad
        THEN [temporal |-> [temporal EXCEPT !.intent = "HISTORICAL", !.range = NoRange],
              intent |-> FoldLeft(LAMBDA best, f : IF signals[f] > signals[best] THEN f ELSE best,
                                  start, Tail(Broad))]
        ELSE [temporal |-> temporal,
              intent |-> IF temporal.intent # "NONE" /\ signals["temporal"] + 4 > signals[first]
                            /\ ~(temporal.intent = "AS_OF_VERSION" /\ broad)
                         THEN "temporal" ELSE first]

Ask ==
    /\ context.step = "idle"
    /\ \E q \in Questions, corpus \in Corpora, budget \in Budgets :
        \E route \in {RouteQuery(q, temporal) : temporal \in {ParseTemporalQuery(q)}} :
            Becomes([step |-> "memory", question |-> q, corpus |-> corpus, budget |-> budget,
                     intent |-> route.intent,
                     temporal |-> IF q.policy = NoPolicy THEN route.temporal ELSE q.policy,
                     orientation |-> <<>>, facts |-> <<>>, shown |-> {}, gone |-> {},
                     range |-> NoRange, groups |-> <<>>,
                     history |-> <<>>, evidence |-> <<>>, selected |-> <<>>,
                     package |-> <<>>, spent |-> 0, listed |-> 0])

-----------------------------------------------------------------------------
\* Memory: the units a question activates.

Status(i) == Units[i].status
Version(i) == Units[i].version
Current == {"CURRENT", "VALIDITY"}
AsOf == {"AS_OF_VERSION", "HISTORICAL"}
Between == {"EVOLUTION", "COMPARE_VERSIONS"}

ResolveCurrentVersion ==
    LatestComparableVersion({Version(i) : i \in {j \in Ids : Status(j) # "deleted"}} \ {NoVersion})

\* temporalVersionVisible.
Visible(i) ==
    LET about == Temporal.versions
        open == Status(i) \in {"active", "conflicted"}
        told == Version(i) # NoVersion
    IN  CASE Temporal.intent \in Current -> open
          [] Temporal.intent \in AsOf ->
                IF told /\ about # <<>>
                THEN Status(i) # "deleted" /\ containsIdentity(about, Version(i))
                ELSE Status(i) = "active"
          [] Temporal.intent \in Between ->
                IF about = <<>> THEN open \/ Status(i) = "superseded"
                ELSE IF told THEN Status(i) # "deleted" /\ containsIdentity(about, Version(i)) ELSE open
          [] Temporal.intent = "RANGE_HISTORY" ->
                IF Temporal.range.kind # "none" /\ told
                THEN Status(i) # "deleted" /\ ContainsVersion(Temporal.range, Version(i))
                ELSE open \/ Status(i) = "superseded"
          [] OTHER -> Status(i) = "active"

\* temporalVersionBoost, in quarters.
Boost(i) ==
    LET told == Version(i) # NoVersion
        meant == told /\ containsIdentity(Temporal.versions, Version(i))
        latest == ResolveCurrentVersion
    IN  CASE Temporal.intent \in Current ->
                IF ~told THEN -1
                ELSE IF latest = NoVersion THEN 2 ELSE IF Same(Version(i), latest) THEN 24 ELSE -8
          [] Temporal.intent \in AsOf -> IF meant THEN 32 ELSE IF told THEN 0 ELSE -2
          [] Temporal.intent \in Between -> IF meant THEN 14 ELSE 0
          [] OTHER -> 0

\* Topics and summaries answer a global question without sharing a word with it.
Activation(i) ==
    LET lexical == IF Units[i].score = 0 /\ context.intent = "global"
                      /\ Units[i].kind \in {"topic", "summary"} /\ Units[i].derived # <<>>
                   THEN 1 ELSE Units[i].score
    IN  IF lexical = 0 THEN 0 ELSE lexical + Boost(i)

Priority(i) == CHOOSE p \in 1 .. 4 : <<"concept", "topic", "summary", "fact">>[p] = Units[i].kind
First(s, n) == SubSeq(s, 1, IF Len(s) < n THEN Len(s) ELSE n)

SearchCompilation(kinds, top) ==
    LET hits == SelectSeq([i \in Ids |-> i],
                          LAMBDA i : Units[i].kind \in kinds /\ Visible(i) /\ Activation(i) > 0)
        Precedes(i, j) == \/ Activation(i) > Activation(j)
                          \/ Activation(i) = Activation(j) /\ Priority(i) < Priority(j)
    IN  First(InsertionSorted(hits, Precedes), top)

\* Everything a unit is derived from, itself included (ResolveEvidence).
Closure(roots) ==
    LET Further(S) == S \cup UNION {ToSet(Units[i].derived) : i \in S}
    IN  FoldLeft(LAMBDA S, i : Further(S), roots, [i \in Ids |-> i])

SourceBefore(s, t) == s.document < t.document \/ (s.document = t.document /\ s.chunk < t.chunk)
ResolveEvidence(i) ==
    InsertionSorted(FlattenSeq([j \in 1 .. Cardinality(Closure({i})) |->
                        Units[SetToSortSeq(Closure({i}), <)[j]].sources]), SourceBefore)

\* Two steps over the active relations from what was found.
Neighbours(S) ==
    {i \in Ids : /\ Units[i].kind = "fact" /\ Status(i) = "active"
                 /\ \E r \in context.corpus.relations :
                        r.active /\ \/ r.subject \in S /\ r.object = i
                                    \/ r.object \in S /\ r.subject = i}

\* The facts shown: those found, and for a question over several hops what they and
\* the units found are derived from or related to, whatever its status.
Memory ==
    /\ context.step = "memory"
    /\ \E orientation \in {SearchCompilation({"concept", "topic", "summary"}, Top)},
          facts \in {SearchCompilation({"fact"}, FactTop)} :
       LET found == ToSet(orientation) \cup ToSet(facts)
           near == Neighbours(found)
           hops == {i \in Closure(ToSet(orientation)) : Units[i].kind = "fact"} \cup near \cup Neighbours(near)
       IN  Becomes([context EXCEPT !.step = IF Temporal.intent = "RANGE_HISTORY" THEN "range" ELSE "evidence",
                    !.orientation = orientation, !.facts = facts,
                    !.shown = ToSet(facts) \cup IF context.intent = "multihop" THEN hops ELSE {}])

-----------------------------------------------------------------------------
\* Evidence of history: representatives of the versions in the range.

Dated(i) == Version(i) # NoVersion /\ Parsed(Version(i)) /\ Status(i) # "deleted"
DatedUnits == SelectSeq([i \in Ids |-> i], Dated)
VersionsOf(ids) == Distinct([k \in DOMAIN ids |-> Version(ids[k])])

\* ResolveTemporalRange: an event is dated by the unit that introduces it, or by
\* the first that mentions it, or not at all.
EventVersion ==
    LET Tells(events) == VersionsOf(SelectSeq(DatedUnits, LAMBDA i : Units[i].event \in events))
        told == IF Tells({"introduces"}) # <<>> THEN Tells({"introduces"}) ELSE Tells({"mentions", "introduces"})
    IN  IF told = <<>> THEN NoVersion ELSE orderedDistinctVersions(told)[1]

ResolvedRange ==
    LET range == Temporal.range
    IN  IF range.kind # "event" THEN range
        ELSE [range EXCEPT !.from = IF @ = NoVersion THEN NoVersion ELSE EventVersion,
                           !.to = IF @ = NoVersion THEN NoVersion ELSE EventVersion]

\* orderedVersionGroups: the versions in order.
Groups ==
    InsertionSorted(VersionsOf(DatedUnits),
        LAMBDA v, w : Older(v, w) \/ (~Older(w, v) /\ TextBefore(v, w)))

ResolveRange ==
    /\ context.step = "range"
    /\ Becomes([context EXCEPT !.step = "evidence", !.range = ResolvedRange, !.groups = Groups])

\* A range of days resolves to units, but to no versions.
Unresolved == context.range.from = NoVersion /\ context.range.to = NoVersion
Allowed ==
    IF context.range.kind = "time" \/ (context.range.kind = "event" /\ Unresolved) THEN <<>>
    ELSE SelectSeq(context.groups, LAMBDA v : InRange(v, context.range))

Latest(s, n) == SubSeq(s, IF Len(s) < n THEN 1 ELSE Len(s) - n + 1, Len(s))
Early == LET n == Representatives * (Len(context.groups) \div (2 * Representatives))
         IN  First(context.groups, IF n < Representatives THEN Representatives ELSE n)

\* "before X" takes the latest versions, the greatest text first.
Spanned ==
    IF Temporal.range.scope = "recent" THEN Latest(context.groups, Representatives)
    ELSE IF Temporal.range.scope = "earlier" THEN Early
    ELSE IF Temporal.range.from = NoVersion /\ Len(Allowed) > Representatives
    THEN InsertionSorted(Latest(Allowed, Representatives), LAMBDA v, w : TextBefore(w, v))
    ELSE Allowed

Rank(i) == CHOOSE p \in 1 .. 4 : <<"fact", "summary", "concept", "topic">>[p] = Units[i].kind
HistoryScore(i) == IF Units[i].matches = 0 THEN -1 ELSE 10 * Units[i].matches + 5 - Rank(i)

\* The best unit of a version, and the best of several versions.
Better(i, j) ==
    \/ HistoryScore(i) > HistoryScore(j)
    \/ HistoryScore(i) = HistoryScore(j) /\ (Rank(i) < Rank(j) \/ (Rank(i) = Rank(j) /\ i < j))
bestHistoryUnit(v) ==
    CHOOSE i \in ToSet(DatedUnits) : Version(i) = v /\ \A j \in ToSet(DatedUnits) \ {i} :
                                        Version(j) = v => Better(i, j)
Leading(versions) ==
    LET best == {bestHistoryUnit(versions[k]) : k \in DOMAIN versions}
    IN  CHOOSE i \in best : \A j \in best : HistoryScore(i) > HistoryScore(j)
                                          \/ (HistoryScore(i) = HistoryScore(j) /\ i <= j)

\* SelectHistoricalRepresentatives: one for each of equal parts of the span.
HistoricalRepresentatives ==
    LET n == Len(Spanned)
        parts == IF n < Representatives THEN n ELSE Representatives
    IN  [k \in 1 .. parts |->
            Leading(SubSeq(Spanned, (((k - 1) * n) \div parts) + 1, (k * n) \div parts))]

Item(s, v, i, score) ==
    [document |-> s.document, chunk |-> s.chunk, version |-> v, stated |-> NoVersion, unit |-> i, score |-> score]
Cited(items, v, s) ==
    \E k \in DOMAIN items : /\ items[k].version = v
                            /\ items[k].document = s.document /\ items[k].chunk = s.chunk

\* One source of each representative whose document can still be read.
historyRangeEvidence(reps, gone) ==
    LET Cite(items, k) ==
            LET sources == SelectSeq(ResolveEvidence(reps[k]),
                               LAMBDA s : s.document \notin gone /\ ~Cited(items, Version(reps[k]), s))
            IN  IF sources = <<>> THEN items
                ELSE Append(items, Item(sources[1], Version(reps[k]), reps[k], 10000 - 10 * k))
    IN  FoldLeft(Cite, <<>>, [k \in DOMAIN reps |-> k])

\* The best sources of each version asked for.
versionEvidence(gone) ==
    LET CandidatesFor(v) ==
            InsertionSorted(SelectSeq([i \in Ids |-> i],
                                LAMBDA i : /\ Same(Version(i), v) /\ Status(i) # "deleted"
                                           /\ Units[i].matches > 0),
                            LAMBDA i, j : Units[i].matches > Units[j].matches)
        Cite(items, i, v) ==
            FoldLeft(LAMBDA kept, s :
                        IF Cited(kept, v, s) \/ s.document \in gone THEN kept
                        ELSE Append(kept, Item(s, v, i, 10000 - 10 * Len(kept))),
                     items, ResolveEvidence(i))
        Of(v) == First(FoldLeft(LAMBDA items, i : Cite(items, i, v), <<>>, CandidatesFor(v)), PerVersion)
    IN  FlattenSeq([k \in DOMAIN Temporal.versions |-> Of(Temporal.versions[k])])

\* Documents may be deleted while their evidence is read.
Evidence ==
    /\ context.step = "evidence"
    /\ \E gone \in SUBSET UNION {{s.document : s \in ToSet(Units[i].sources)} : i \in Ids} :
        IF Temporal.intent = "RANGE_HISTORY"
        THEN LET reps == IF Temporal.range = NoRange THEN <<>> ELSE HistoricalRepresentatives
             IN  Becomes([context EXCEPT !.step = "select", !.gone = gone, !.history = reps,
                          !.evidence = historyRangeEvidence(reps, gone)])
        ELSE \E found \in Found :
                Becomes([context EXCEPT !.step = "select", !.gone = gone,
                         !.evidence = versionEvidence(gone) \o found])

-----------------------------------------------------------------------------
\* What of the evidence is selected, and the package.

ItemBefore(x, y) ==
    \/ x.score > y.score
    \/ x.score = y.score /\ SourceBefore(x, y)

\* One item for a chunk, the first.
deduplicateContextEvidence(items) ==
    InsertionSorted(
        FoldLeft(LAMBDA kept, x :
                    IF \E k \in DOMAIN kept : kept[k].document = x.document /\ kept[k].chunk = x.chunk
                    THEN kept ELSE Append(kept, x),
                 <<>>, items),
        ItemBefore)

Resolved ==
    IF Temporal.intent \in Current THEN ResolveCurrentVersion ELSE FromVersion(Temporal.versions)
Targets ==
    IF Temporal.intent \in Current /\ Resolved # NoVersion THEN <<Resolved>> ELSE Temporal.versions
Meant(x) == x.version # NoVersion /\ containsIdentity(Targets, x.version)
Weighed(x) == [x EXCEPT !.score = IF Meant(x) THEN @ + 80 ELSE (7 * @) \div 10]
Versioned(x) == IF x.version = NoVersion THEN [x EXCEPT !.version = x.stated] ELSE x

\* A question about versions is not answered with another version, but with
\* nothing; one about the present or a span prefers what it is about.
selectTemporalEvidence(found) ==
    LET items == [k \in DOMAIN found |-> Versioned(found[k])]
        any == \E k \in DOMAIN items : Meant(items[k])
        narrow == Temporal.intent \in Current \cup AsOf
    IN  IF Temporal.intent = "NONE" THEN found
        ELSE IF Targets # <<>> /\ ~any /\ Temporal.intent \in AsOf THEN <<>>
        ELSE IF ~any THEN InsertionSorted(items, ItemBefore)
        ELSE LET kept == SelectSeq(items, LAMBDA x : Meant(x) \/ ~narrow \/ x.version = NoVersion)
             IN  InsertionSorted([k \in DOMAIN kept |-> Weighed(kept[k])], ItemBefore)

Select ==
    /\ context.step = "select"
    /\ Becomes([context EXCEPT !.step = "render",
                !.selected = selectTemporalEvidence(deduplicateContextEvidence(context.evidence))])

Least(m, n) == IF m < n THEN m ELSE n
Most(m, n) == IF m > n THEN m ELSE n

\* What is kept free for the evidence.
Reserve ==
    IF Temporal.intent = "RANGE_HISTORY" THEN 32 ELSE Least(Most((3 * context.budget) \div 4, 48), 256)

\* writeSection: as many lines as the allowance and the reserve leave room for.
AfterSection(left, lines, allowance) ==
    LET shown == {n \in 1 .. lines : /\ left > TitleCost + 2
                                     /\ TitleCost + 2 + n * LineCost <= allowance
                                     /\ left - n * LineCost > Reserve}
    IN  IF shown = {} THEN left ELSE left - Cardinality(shown) * LineCost - TitleCost - 2

OfKinds(kinds) == Cardinality({k \in DOMAIN context.orientation : Units[context.orientation[k]].kind \in kinds})
Sections ==
    << <<OfKinds({"summary", "topic"}), 4>>,
       <<IF Temporal.intent = "NONE" THEN 0 ELSE IF Resolved # NoVersion THEN 3 ELSE 1, 20>>,
       <<OfKinds({"concept"}), 10>>,
       <<IF context.intent = "multihop" THEN Cardinality(context.corpus.relations) ELSE 0, 20>>,
       <<Least(Cardinality(context.shown), 12), 8>> >>

\* Items one after the other; the one that does not fit is clipped, or the last.
AddItem(state, x) ==
    LET room == state.left - 12 - TitleCost
        cost == TitleCost + IF TextCost <= room THEN TextCost ELSE room
    IN  IF state.full \/ (TextCost > room /\ room < 12) THEN [state EXCEPT !.full = TRUE]
        ELSE [state EXCEPT !.left = @ - cost, !.items = Append(@, x)]

\* The citations are listed when a quarter of the budget is left, whatever they cost.
Render ==
    /\ context.step = "render"
    /\ LET sections == FoldLeft(LAMBDA left, s : AfterSection(left, s[1], context.budget \div s[2]),
                                context.budget - LineCost, Sections)
           filled == FoldLeft(AddItem, [left |-> sections - TitleCost, items |-> <<>>, full |-> FALSE],
                              context.selected)
           cites == IF filled.items # <<>> /\ filled.left > context.budget \div 4
                    THEN TitleCost + CiteCost * Len(filled.items) ELSE 0
       IN  Becomes([context EXCEPT !.step = "done", !.package = filled.items,
                    !.spent = context.budget - filled.left, !.listed = cites])

Init == context = [step |-> "idle"]
Next == Ask \/ Memory \/ ResolveRange \/ Evidence \/ Select \/ Render

-----------------------------------------------------------------------------

Answered == context.step = "done"
Items == ToSet(context.package)

\* "Explicit and historical requests must not silently fall back to another
\* version" (context.go): their evidence states the version or none.
ScopeIsKept ==
    Answered /\ Temporal.intent \in AsOf /\ Temporal.versions # <<>> =>
        \A x \in Items : x.version # NoVersion => containsIdentity(Temporal.versions, x.version)

\* "To guarantee scope selection": a version asked for is in the selection when
\* a unit of it that shares a word with the question can be read. Exempt: versions
\* of which every such chunk is cited for another version too.
Readable(v) ==
    {s \in UNION {ToSet(ResolveEvidence(i)) : i \in {j \in Ids : /\ Same(Version(j), v)
                                                                /\ Status(j) # "deleted"
                                                                /\ Units[j].matches > 0}} :
        s.document \notin context.gone}
Alone(v) == \E s \in Readable(v) : \A w \in ToSet(Temporal.versions) :
                ~Same(v, w) => s \notin Readable(w)
VersionsAreFound ==
    context.step \in {"render", "done"} /\ Temporal.intent \notin Current \cup {"NONE", "RANGE_HISTORY"} =>
        \A v \in ToSet(Temporal.versions) :
            Alone(v) /\ Cardinality(Readable(v)) <= PerVersion =>
                \E x \in ToSet(context.selected) : Same(x.version, v)

\* The present is answered from the newest version the units have when any
\* evidence of it was found, and from no other (temporal.go, ResolveCurrentVersion).
NewestIsPreferred ==
    context.step \in {"render", "done"} /\ Temporal.intent \in Current /\ Resolved # NoVersion =>
        /\ \A i \in Ids : Status(i) # "deleted" => ~Older(Resolved, Version(i))
        /\ (\E x \in ToSet(context.selected) : Same(x.version, Resolved)) =>
                \A x \in ToSet(context.selected) : x.version # NoVersion => Same(x.version, Resolved)

\* Representatives are of different versions of the range, in order but for
\* "before X", which takes the latest ones; with room, every version has one.
HistoryIsTold ==
    context.step \in {"select", "render", "done"} /\ context.history # <<>> =>
        LET told == [k \in DOMAIN context.history |-> Version(context.history[k])]
            before == Temporal.range.from = NoVersion /\ Temporal.range.to # NoVersion
        IN  /\ IsInjective(told)
            /\ \A k \in DOMAIN told : InRange(told[k], context.range)
            /\ ~before => \A k, l \in DOMAIN told : k < l => ~Older(told[l], told[k])
            /\ before => \A i \in ToSet(DatedUnits) :
                    InRange(Version(i), context.range) /\ (\E k \in DOMAIN told : Older(told[k], Version(i)))
                        => \E k \in DOMAIN told : Version(i) = told[k]
            /\ Temporal.range.kind # "ambiguous" /\ Len(Allowed) <= Representatives =>
                    ToSet(told) = ToSet(Allowed)

\* A chunk is cited once; some evidence has room whatever was written before it;
\* the package keeps within its budget, but for the list of citations, which is
\* written when a quarter is left, however long it is.
PackageIsSound ==
    Answered =>
        /\ \A k, l \in DOMAIN context.package : k # l =>
                \/ context.package[k].document # context.package[l].document
                \/ context.package[k].chunk # context.package[l].chunk
        /\ context.spent <= context.budget
        /\ context.selected # <<>> => context.package # <<>>

ContextIsSound ==
    ScopeIsKept /\ VersionsAreFound /\ NewestIsPreferred /\ HistoryIsTold /\ PackageIsSound
=============================================================================
