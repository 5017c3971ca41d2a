--------------------------- MODULE EvidenceWindow ---------------------------
(* The context window around a search hit (internal/evidence): the chunks    *)
(* next to the hit that were loaded, under the same heading, cut to a token  *)
(* budget, with text that two chunks share shown once.                       *)
(* The characters of a document are its positions, each different from the  *)
(* others. A chunk is an interval of them, an excerpt a part of a chunk, and *)
(* a side is listed from the hit outwards.                                   *)
EXTENDS Integers, FiniteSets, Sequences, SequencesExt, FiniteSetsExt

CONSTANTS
    Requests,    \* what Compose is called with
    PerToken,    \* characters of a token
    MarkLength,  \* characters of the mark before the hit
    TitleLength, \* characters of a heading
    JoinLength,  \* characters between two excerpts
    MinOverlap,  \* the shortest repetition that is removed
    Radius       \* how far a cut looks for the end of a sentence

VARIABLES
    request,  \* the last call: chunks, anchor, loaded, before, after, budget,
              \* focus, marks, crossHeading, counted; <<>> before the first
    window    \* its answer: before, anchor, after, moreBefore, moreAfter

Tokens(n) == (n + PerToken - 1) \div PerToken

Length(e) == e.to - e.from

Characters(e, isAnchor) ==
    Length(e) + (IF isAnchor THEN MarkLength ELSE 0) + (IF e.heading # "" THEN TitleLength ELSE 0)

Cost(e, isAnchor) == Tokens(Characters(e, isAnchor))

Slice(e, from, to) == [e EXCEPT !.from = from, !.to = to]

Emptied(e) == Slice(e, e.from, e.from)

SentenceStart(r, e, p) ==
    LET seen == {i \in Max({e.from, p - Radius}) .. p - 1 : i \in r.marks}
    IN  IF seen = {} THEN p ELSE Max(seen) + 1

SentenceEnd(r, e, p) ==
    LET seen == {i \in p .. Min({e.to, p + Radius}) - 1 : i \in r.marks}
    IN  IF seen = {} THEN p ELSE Min(seen) + 1

Focused(r, e) == r.focus # <<>> /\ e.from <= r.focus[1] /\ r.focus[2] <= e.to

\* A cut around the focus looks for sentences too, but what it gains there it
\* loses again to the length it may have.
Crop(r, e, length, mode) ==
    LET focused == mode = "focus" /\ Focused(r, e)
        centre == (r.focus[1] - e.from + r.focus[2] - e.from) \div 2
        start == e.from + Max({0, Min({Length(e) - length, centre - length \div 2})})
    IN  CASE length <= 0 -> Emptied(e)
          [] length >= Length(e) -> e
          [] length \in 1 .. Length(e) - 1 /\ mode = "tail" ->
                Slice(e, SentenceStart(r, e, e.to - length), e.to)
          [] length \in 1 .. Length(e) - 1 /\ focused -> Slice(e, start, start + length)
          [] OTHER -> Slice(e, e.from, SentenceEnd(r, e, e.from + length))

RECURSIVE Longest(_, _, _, _, _, _, _)
Longest(r, e, low, high, best, budget, mode) ==
    LET length == (low + high) \div 2
        candidate == Crop(r, e, length, mode)
    IN  IF low > high THEN best
        ELSE IF Cost(candidate, mode = "focus") <= budget
        THEN Longest(r, e, length + 1, high, candidate, budget, mode)
        ELSE Longest(r, e, low, length - 1, best, budget, mode)

\* Only the anchor is cut in the mode "focus".
Fit(r, e, budget, mode) ==
    LET isAnchor == mode = "focus"
        source == IF Cost(Emptied(e), isAnchor) >= budget THEN [e EXCEPT !.heading = ""] ELSE e
    IN  IF budget <= 0 THEN Emptied(e)
        ELSE IF Cost(e, isAnchor) <= budget THEN e
        ELSE Longest(r, source, 0, Length(source), Emptied(source), budget, mode)

RECURSIVE FitSide(_, _, _, _)
FitSide(r, side, allowance, mode) ==
    IF side = <<>> \/ allowance <= 0 THEN <<>>
    ELSE LET cost == Cost(Head(side), FALSE)
             fitted == Fit(r, Head(side), allowance, mode)
         IN  IF cost <= allowance
             THEN <<Head(side)>> \o FitSide(r, Tail(side), allowance - cost, mode)
             ELSE IF Length(fitted) > 0 THEN <<fitted>> ELSE <<>>

SideCharacters(side) == FoldSeq(LAMBDA e, n : n + JoinLength + Characters(e, FALSE), 0, side)

SideTokens(side) == IF side = <<>> THEN 0 ELSE Tokens(SideCharacters(side) - JoinLength)

WindowTokens(before, anchor, after) ==
    Tokens(SideCharacters(before) + Characters(anchor, TRUE) + SideCharacters(after))

Overlap(left, right) ==
    LET n == left.to - right.from
    IN  IF n >= MinOverlap /\ left.from <= right.from /\ left.to <= right.to THEN n ELSE 0

Shown(side) == SelectSeq(side, LAMBDA e : Length(e) > 0)

\* Before the anchor a chunk gives way to the whole chunk that follows it; after
\* it a chunk gives way to what is left of the one before it.
WithoutRepetition(before, anchor, after) ==
    LET cutBefore == [i \in 1 .. Len(before) |->
            LET next == IF i = 1 THEN anchor ELSE before[i - 1]
            IN  Slice(before[i], before[i].from, before[i].to - Overlap(before[i], next))]
        cutAfter == FoldLeft(LAMBDA done, e :
            LET previous == IF done = <<>> THEN anchor ELSE Last(done)
            IN  Append(done, Slice(e, e.from + Overlap(previous, e), e.to)), <<>>, after)
    IN  <<Shown(cutBefore), Shown(cutAfter)>>

Excerpt(r, i) == [index |-> i] @@ r.chunks[i]

\* Neighbours that are not stopped by a chunk that is missing or under another heading.
NeighboursBeyond(r, limit, direction) == \* mutant
    LET At(n) == r.anchor + direction * n
        Eligible(n) == /\ At(n) \in r.loaded
                       /\ r.crossHeading \/ r.chunks[At(n)].heading = r.chunks[r.anchor].heading
        distances == SelectSeq([n \in 1 .. limit |-> n], Eligible)
    IN  [k \in DOMAIN distances |-> Excerpt(r, At(distances[k]))]

\* Outwards from the anchor, up to the first chunk that is not loaded, is under
\* another heading or is beyond the limit.
Neighbours(r, limit, direction) ==
    LET At(n) == r.anchor + direction * n
        Eligible(n) == /\ At(n) \in r.loaded
                       /\ r.crossHeading \/ r.chunks[At(n)].heading = r.chunks[r.anchor].heading
        count == Max({n \in 0 .. limit : \A k \in 1 .. n : Eligible(k)})
    IN  [n \in 1 .. count |-> Excerpt(r, At(n))]

\* The farthest excerpt shrinks or goes first; the anchor is fitted again last.
RECURSIVE Enforce(_, _, _, _)
Enforce(r, before, anchor, after) ==
    LET excess == WindowTokens(before, anchor, after) - r.budget
        Shrunk(side, mode) ==
            LET fitted == Fit(r, Last(side), Max({0, Cost(Last(side), FALSE) - excess - 1}), mode)
            IN  IF Length(fitted) \in 1 .. Length(Last(side)) - 1
                THEN Append(Front(side), fitted) ELSE Front(side)
        Distance(side) ==
            IF side = <<>> THEN -1
            ELSE Max({Last(side).index - anchor.index, anchor.index - Last(side).index})
    IN  CASE excess <= 0 -> <<before, anchor, after>>
          [] excess > 0 /\ before = <<>> /\ after = <<>> ->
                <<before, Fit(r, anchor, r.budget, "focus"), after>>
          [] OTHER ->
                IF Distance(after) >= Distance(before)
                THEN Enforce(r, before, anchor, Shrunk(after, "head"))
                ELSE Enforce(r, Shrunk(before, "tail"), anchor, after)

Composed(r, fitted) ==
    LET first == IF fitted[1] = <<>> THEN fitted[2] ELSE Last(fitted[1])
        last == IF fitted[3] = <<>> THEN fitted[2] ELSE Last(fitted[3])
    IN  [before |-> fitted[1], anchor |-> fitted[2], after |-> fitted[3],
         moreBefore |-> first.from > r.chunks[first.index].from \/ first.index > 1,
         moreAfter |-> \/ last.to < r.chunks[last.index].to
                       \/ IF r.counted THEN last.index < Len(r.chunks)
                          ELSE \E i \in r.loaded : i > last.index]

Init == request = <<>> /\ window = <<>>

\* What is left of the budget is divided between the sides; what one side does
\* not need goes to the other.
Compose ==
    /\ request = <<>>
    /\ \E r \in Requests :
        \E anchor \in {Fit(r, Excerpt(r, r.anchor), r.budget, "focus")} :
         \E sides \in {WithoutRepetition(Neighbours(r, r.before, -1), anchor, Neighbours(r, r.after, 1))} :
          LET remaining == Max({0, r.budget - Cost(anchor, TRUE)})
              forBefore == IF sides[2] = <<>> THEN remaining
                           ELSE IF sides[1] = <<>> THEN 0 ELSE remaining \div 2
              forAfter == remaining - forBefore
              Spare(side, allowance) == Max({0, allowance - SideTokens(side)})
          IN  \E near \in {FitSide(r, sides[1], forBefore, "tail")} :
               \E after \in {FitSide(r, sides[2], forAfter + Spare(near, forBefore), "head")} :
                \E before \in {IF Spare(after, forAfter) = 0 THEN near
                               ELSE FitSide(r, sides[1], forBefore + Spare(after, forAfter), "tail")} :
                 \E fitted \in {Enforce(r, before, anchor, after)} :
                    /\ request' = r
                    /\ window' = Composed(r, fitted)

Next == Compose

-----------------------------------------------------------------------------

Reading == Reverse(window.before) \o <<window.anchor>> \o window.after

\* The text reads on without a gap and without a repetition worth removing,
\* except beside an anchor that was cut itself (evidence.go, Compose's doc).
ReadsOn ==
    \A i \in 1 .. Len(Reading) - 1 :
        LET left == Reading[i]
            right == Reading[i + 1]
        IN  /\ Min({left.to, right.to}) - right.from < MinOverlap
            /\ \/ right.from <= left.to
               \/ window.anchor \in {left, right} /\ window.anchor # Excerpt(request, request.anchor)

Everything ==
    <<Excerpt(request, request.anchor)>> \o Neighbours(request, request.before, -1)
        \o Neighbours(request, request.after, 1)

\* Every excerpt and every join rounded up by itself.
Generous == FoldSeq(LAMBDA e, n : n + 1 + Cost(e, TRUE), 0, Everything)

WithinBudget ==
    \/ WindowTokens(window.before, window.anchor, window.after) <= request.budget
    \/ Len(Reading) = 1 /\ Length(window.anchor) = 0

\* The anchor is cut only if it does not fit by itself, and then around the
\* focus; nothing at all is lost if all of it fits.
CutOnlyAsNeeded ==
    /\ \/ window.anchor = Excerpt(request, request.anchor)
       \/ Cost(Excerpt(request, request.anchor), TRUE) > request.budget
    /\ Focused(request, Excerpt(request, request.anchor))
       /\ Length(window.anchor) >= request.focus[2] - request.focus[1] =>
            Focused(request, window.anchor)
    /\ Generous <= request.budget =>
            \A e \in ToSet(Everything) : \A p \in e.from .. e.to - 1 :
                \E shown \in ToSet(Reading) : p \in shown.from .. shown.to - 1

\* A window that says nothing came before it, or comes after it, shows the
\* document's first or last text, if it was told where the document ends.
EndsAreTold ==
    /\ window.moreBefore \/ Reading[1].from = request.chunks[1].from
    /\ window.moreAfter \/ ~request.counted \/ Last(Reading).to = Last(request.chunks).to

\* evidence.go, Compose: the window around a hit.
WindowsAreSound ==
    window # <<>> => ReadsOn /\ WithinBudget /\ CutOnlyAsNeeded /\ EndsAreTold
=============================================================================
