------------------------------ MODULE Chunking ------------------------------
(***************************************************************************)
(* How the text of a document becomes the pieces that are indexed (package    *)
(* chunk, buildPieces and structureAwarePieces of knowledge/service_doc.go,   *)
(* hygienizeChunks) and how each piece is tied to the parsed structure        *)
(* (nodesForPiece, documentir).                                              *)
(*                                                                         *)
(* A text is a sequence of lines [id, kind, level, words, fence], a word is  *)
(* <<line, number>>, and budgets count words. Which boundary scores best in    *)
(* the last part of a window, and whether two segments are alike, is open.    *)
(***************************************************************************)
EXTENDS Integers, Sequences, FiniteSets, SequencesExt

CONSTANTS
    Requests,       \* [lines, nodes, parser, smart, semantic]
    Size,           \* words of a window
    Slack,          \* its last part, where it may be cut
    Limit,          \* words a refined piece may have
    MinSplit,       \* shorter pieces are never refined
    MinMeaning      \* fewer words that mean something make a fragment

VARIABLES
    request,
    stage,
    todo,       \* pieces [words, heading, node] still to be cut, merged or refined
    pieces,     \* those that are done
    inline,     \* [piece number -> words its vector stands for]
    links       \* [piece number -> nodes it is tied to]

vars == <<request, stage, todo, pieces, inline, links>>

-----------------------------------------------------------------------------
(* Lines to blocks.                                                         *)

Words(line) == [k \in 1..line.words |-> <<line.id, k>>]
TextOf(lines) == FlattenSeq([i \in DOMAIN lines |-> Words(lines[i])])

\* splitBlocks: the state after a line.
Begun == [blocks |-> <<>>, current |-> <<>>, headings |-> <<>>, fence |-> 0]
Flushed(s) ==
    IF s.current = <<>> THEN s
    ELSE [s EXCEPT !.current = <<>>,
            !.blocks = Append(@, [words |-> s.current, heading |-> SelectSeq(s.headings, LAMBDA h : h # 0), node |-> 0])]

\* A closer is at least as long as the opener and carries nothing else.
FenceClosed(s, line) == line.kind = "fence" /\ line.level >= s.fence
\* mutant: a heading keeps the deeper ones
HeadingSetDeep(s, line) ==
    [l \in 1..(IF Len(s.headings) > line.level THEN Len(s.headings) ELSE line.level) |->
        IF l = line.level THEN line.id ELSE IF l <= Len(s.headings) THEN s.headings[l] ELSE 0]

\* A heading drops those of its level and below.
HeadingSet(s, line) ==
    [l \in 1..line.level |-> IF l = line.level THEN line.id
                             ELSE IF l <= Len(s.headings) THEN s.headings[l] ELSE 0]

ReadLine(s, line) ==
    CASE s.fence > 0 ->
            [s EXCEPT !.current = @ \o Words(line), !.fence = IF FenceClosed(s, line) THEN 0 ELSE @]
      [] s.fence = 0 /\ line.kind \in {"fence", "opener"} ->
            [Flushed(s) EXCEPT !.current = Words(line), !.fence = line.level]
      [] s.fence = 0 /\ line.kind = "heading" ->
            [Flushed(s) EXCEPT !.headings = HeadingSet(s, line)]
      [] s.fence = 0 /\ line.kind = "blank" -> Flushed(s)
      [] OTHER -> [s EXCEPT !.current = @ \o Words(line)]

SplitBlocks(lines) == Flushed(FoldLeft(ReadLine, Begun, lines)).blocks

\* Without smart splitting, blank lines are the only boundaries.
SplitParts(lines) ==
    LET read(s, line) == IF line.kind = "blank" THEN Flushed(s) ELSE [s EXCEPT !.current = @ \o Words(line)]
    IN Flushed(FoldLeft(read, Begun, lines)).blocks

\* A text of nothing but headings keeps the start of it.
Blocks(lines, smart) ==
    LET text == TextOf(lines)
        blocks == IF smart THEN SplitBlocks(lines) ELSE SplitParts(lines)
        start == [words |-> SubSeq(text, 1, IF Len(text) < Size THEN Len(text) ELSE Size), heading |-> <<>>, node |-> 0]
    IN IF blocks = <<>> /\ text # <<>> THEN <<start>> ELSE blocks

-----------------------------------------------------------------------------
(* The parsed structure: nodes [type, parent, lines, heading].                *)

NodeText(n) == TextOf(n.lines)

\* FromText: the document, and a node for each heading and paragraph between blank lines;
\* a node's parent is the last heading before it.
FromText(lines) ==
    LET part(s, line) ==
            IF line.kind = "blank" THEN [s EXCEPT !.open = FALSE]
            ELSE IF s.open
            THEN [s EXCEPT !.nodes[Len(s.nodes)].lines = Append(@, line)]
            ELSE LET level == IF line.level > Len(s.path) + 1 THEN Len(s.path) + 1 ELSE line.level
                     path == IF line.kind = "heading" THEN Append(SubSeq(s.path, 1, level - 1), line.id) ELSE s.path
                 IN [nodes |-> Append(s.nodes, [type |-> IF line.kind = "heading" THEN "heading" ELSE "paragraph",
                                                parent |-> s.parent, lines |-> <<line>>, heading |-> path]),
                     open |-> TRUE, path |-> path,
                     parent |-> IF line.kind = "heading" THEN Len(s.nodes) + 1 ELSE s.parent]
        document == [type |-> "document", parent |-> 0, lines |-> lines, heading |-> <<>>]
    IN FoldLeft(part, [nodes |-> <<document>>, open |-> FALSE, path |-> <<>>, parent |-> 1], lines).nodes

IR == IF request.nodes = <<>> THEN FromText(request.lines) ELSE request.nodes

\* structureAwarePieces: the nodes whose text is indexed.
Containers == {"page", "slide", "sheet", "table", "row", "figure", "caption", "footnote"}
Leaves == {"section", "heading", "paragraph", "block", "list item"}
Selected(ir) ==
    LET paged == \E i \in DOMAIN ir : ir[i].type \in {"page", "slide"}
        rowed == {ir[i].parent : i \in {j \in DOMAIN ir : ir[j].type \in {"table", "row"}}}
        included(i) ==
            /\ ir[i].type \in Containers \/ (ir[i].type \in Leaves /\ ~paged /\ request.parser \in {"docx", "epub"})
            /\ ~(ir[i].type = "sheet" /\ i \in rowed)
            /\ NodeText(ir[i]) # <<>>
    IN SelectSeq([i \in DOMAIN ir |-> i], included)

\* Each is chunked by itself, under its own heading.
StructureBlocks(ir) ==
    LET blocksOf(i) == [b \in DOMAIN Blocks(ir[i].lines, request.smart) |->
                          [Blocks(ir[i].lines, request.smart)[b] EXCEPT !.heading = ir[i].heading, !.node = i]]
    IN FlattenSeq([k \in DOMAIN Selected(ir) |-> blocksOf(Selected(ir)[k])])

-----------------------------------------------------------------------------
(* Pieces.                                                                  *)

Init ==
    /\ request = [lines |-> <<>>, nodes |-> <<>>, parser |-> "none", smart |-> TRUE, semantic |-> FALSE]
    /\ stage = "idle" /\ todo = <<>> /\ pieces = <<>> /\ inline = <<>> /\ links = <<>>

Take ==
    /\ stage = "idle" /\ request' \in Requests
    /\ stage' = "split"
    /\ UNCHANGED <<todo, pieces, inline, links>>

Structural == Blocks(request.lines, request.smart)

\* buildPieces: without a semantic provider, the structure's nodes, or the text when none is selected.
Split ==
    /\ stage = "split" /\ ~request.semantic
    /\ todo' = IF Selected(IR) = <<>> THEN Structural ELSE StructureBlocks(IR)
    /\ stage' = "window"
    /\ UNCHANGED <<request, pieces, inline, links>>

\* With one, its segments; a provider that fails leaves the text's own blocks.
Embed ==
    /\ stage = "split" /\ request.semantic
    /\ \/ /\ todo' = SplitBlocks(request.lines)
          /\ stage' = "merge"
       \/ todo' = Structural /\ stage' = "window"
    /\ UNCHANGED <<request, pieces, inline, links>>

First == Head(todo)
Rest == Tail(todo)
\* Where a window may be cut: after its first part, at the best boundary or at its end.
Cuts == (IF Size - Slack < 1 THEN 1 ELSE Size - Slack) + 1 .. Size

\* windowOrKeep and windowBlock; consecutive windows share nothing, whatever the overlap.
Window ==
    /\ stage = "window" /\ todo # <<>>
    /\ \/ /\ Len(First.words) <= Size
          /\ pieces' = Append(pieces, First) /\ todo' = Rest
       \/ /\ Len(First.words) > Size
          /\ \E cut \in Cuts :
                /\ pieces' = Append(pieces, [First EXCEPT !.words = SubSeq(@, 1, cut)])
                /\ todo' = <<[First EXCEPT !.words = SubSeq(@, cut + 1, Len(@))]>> \o Rest
    /\ UNCHANGED <<request, stage, inline, links>>

\* Then every piece is refined.
Windowed ==
    /\ stage = "window" /\ todo = <<>>
    /\ todo' = pieces /\ pieces' = <<>>
    /\ stage' = "refine"
    /\ UNCHANGED <<request, inline, links>>

\* RefineByTokenLimit: in two near the middle, and again, while a boundary is there.
Refine ==
    /\ stage = "refine" /\ todo # <<>>
    /\ LET n == Len(First.words)
           radius == IF n \div 4 < 1 THEN 1 ELSE n \div 4
       IN \/ pieces' = Append(pieces, First) /\ todo' = Rest
          \/ /\ n > Limit /\ n >= MinSplit
             /\ \E cut \in (n \div 2) - radius .. (n \div 2) + radius :
                  /\ cut \in 1..n - 1
                  /\ todo' = <<[First EXCEPT !.words = SubSeq(@, 1, cut)], [First EXCEPT !.words = SubSeq(@, cut + 1, n)]>> \o Rest
                  /\ UNCHANGED pieces
    /\ UNCHANGED <<request, stage, inline, links>>

\* MergeSemanticSegments: a segment joins the piece before it when they are alike and fit.
Merge ==
    /\ stage = "merge" /\ todo # <<>>
    /\ LET n == Len(pieces)
       IN \/ /\ n > 0 /\ Len(pieces[n].words) + Len(First.words) < Size
             /\ pieces' = [pieces EXCEPT ![n].words = @ \o First.words]
             /\ inline' = [inline EXCEPT ![n] = @ \o First.words]
          \/ pieces' = Append(pieces, First) /\ inline' = Append(inline, First.words)
    /\ todo' = Rest
    /\ UNCHANGED <<request, stage, links>>

Meaning(words) ==
    Cardinality({i \in DOMAIN words : \E l \in DOMAIN request.lines :
        request.lines[l].id = words[i][1] /\ request.lines[l].kind \in {"text", "heading"}})

\* A fragment goes to the piece before it, or waits for the one after.
Hygienic(s, piece) ==
    CASE Meaning(piece.words) >= MinMeaning ->
            [out |-> Append(s.out, [piece EXCEPT !.words = s.held \o @]), held |-> <<>>]
      [] Meaning(piece.words) < MinMeaning /\ s.out # <<>> ->
            [s EXCEPT !.out[Len(s.out)].words = @ \o piece.words]
      [] OTHER -> [s EXCEPT !.held = @ \o piece.words]

\* mutant: fragments are dropped
Dropped(ps) == SelectSeq(ps, LAMBDA p : Meaning(p.words) >= MinMeaning)

hygienizeChunks(ps) ==
    LET out == FoldLeft(Hygienic, [out |-> <<>>, held |-> <<>>], ps).out
    IN IF Len(ps) <= 1 \/ out = <<>> THEN ps ELSE out

\* Vectors go when pieces were merged: their numbers are those of before.
Hygiene ==
    /\ stage \in {"refine", "merge"} /\ todo = <<>>
    /\ pieces' = hygienizeChunks(pieces)
    /\ inline' = IF Len(pieces') = Len(pieces) THEN inline ELSE <<>>
    /\ stage' = "link"
    /\ UNCHANGED <<request, todo, links>>

-----------------------------------------------------------------------------
(* Pieces to nodes.                                                         *)

Holds(text, part) ==
    \E i \in 0..Len(text) - Len(part) : SubSeq(text, i + 1, i + Len(part)) = part

Kin(ir) == {i \in DOMAIN ir : ir[i].type # "document" /\ NodeText(ir[i]) # <<>>}

\* Nodes with exactly the text, and their children; or those that hold it, are held by it or stand
\* under its heading; or else the first there is.
nodesForPiece(ir, piece) ==
    LET same == {i \in Kin(ir) : NodeText(ir[i]) = piece.words}
        near == {i \in Kin(ir) :
                    \/ Holds(NodeText(ir[i]), piece.words) \/ Holds(piece.words, NodeText(ir[i]))
                    \/ Len(piece.heading) = 1 /\ piece.heading[1] \in ToSet(ir[i].heading)}
    IN IF same # {} THEN same \cup {i \in Kin(ir) : ir[i].parent \in same}
       ELSE IF near # {} THEN near
       ELSE IF Len(ir) > 1 THEN {2} ELSE {}

Link ==
    /\ stage = "link"
    /\ links' = [p \in DOMAIN pieces |-> nodesForPiece(IR, pieces[p])]
    /\ stage' = "done"
    /\ UNCHANGED <<request, todo, pieces, inline>>

sourceAnchorScore(type) ==
    CASE type = "cell" -> 100 [] type \in {"page", "slide", "sheet"} -> 90
      [] type \in {"paragraph", "block", "heading"} -> 80 [] type \in {"caption", "figure"} -> 70 [] OTHER -> 20

\* The node a hit is cited by: the first of the best score.
AnchorOf(p) ==
    CHOOSE i \in links[p] : \A j \in links[p] :
        LET score(n) == sourceAnchorScore(IR[n].type)
        IN score(i) > score(j) \/ (score(i) = score(j) /\ i <= j)

\* Done: the next document.
Store ==
    /\ stage = "done" /\ stage' = "idle"
    /\ todo' = <<>> /\ pieces' = <<>> /\ inline' = <<>> /\ links' = <<>>
    /\ UNCHANGED request

Next == Take \/ Split \/ Embed \/ Window \/ Windowed \/ Refine \/ Merge \/ Hygiene \/ Link \/ Store

-----------------------------------------------------------------------------
(* What it must keep.                                                       *)

Line(id) == CHOOSE i \in DOMAIN request.lines : request.lines[i].id = id
Structured == ~request.semantic /\ Selected(IR) # <<>>
Flat(ps) == FlattenSeq([i \in DOMAIN ps |-> ps[i].words])
WordsIn(seq) == ToSet(seq)
Title(i) == request.lines[i].kind = "heading" /\ request.lines[i].fence = 0

\* The headings a line stands under: those before it that no heading of their level or above follows.
Above(i) ==
    {request.lines[h].id : h \in {x \in 1..i - 1 :
        Title(x) /\ \A y \in x + 1..i - 1 : Title(y) => request.lines[y].level > request.lines[x].level}}

\* Every word of the text is indexed, once and in its order, but for the headings, which are the
\* paths of what is below them (chunk.Chunk; hygienizeChunks: "no potentially meaningful short
\* evidence is lost"). Of a parsed structure, every word that a selected node holds.
NothingIsLost ==
    stage = "done" =>
        LET body == TextOf(SelectSeq(request.lines, LAMBDA l : ~Title(Line(l.id))))
            text == TextOf(request.lines)
            held == UNION {WordsIn(NodeText(IR[i])) : i \in ToSet(Selected(IR))}
        IN IF Structured
           THEN \A w \in held \cap WordsIn(IF request.smart THEN body ELSE text) : w \in WordsIn(Flat(pieces))
           ELSE \/ (request.smart \/ request.semantic) /\ Flat(pieces) = body
                \/ ~request.smart /\ Flat(pieces) = text
                \/ body = <<>> /\ IsPrefix(Flat(pieces), text)

\* Until fragments are merged, a piece of a smartly split text stands under the headings it names
\* (splitBlocks: "tracking the active markdown heading path").
UnderItsHeadings ==
    (stage \in {"window", "refine"} /\ ~Structured /\ request.smart /\ \E i \in DOMAIN request.lines : ~Title(i)) =>
        \A piece \in ToSet(todo \o pieces), w \in UNION {WordsIn(p.words) : p \in ToSet(todo \o pieces)} :
            w \in WordsIn(piece.words) => ToSet(piece.heading) = Above(Line(w[1]))

\* A code fence is never broken but by the budget (splitBlocks: "blank lines and headings inside a
\* fence never break the block").
FencesStayWhole ==
    (stage = "window" /\ pieces = <<>> /\ ~Structured /\ request.smart) =>
        \A v, w \in WordsIn(Flat(todo)) :
            (request.lines[Line(v[1])].fence > 0 /\ request.lines[Line(v[1])].fence = request.lines[Line(w[1])].fence) =>
                \A piece \in ToSet(todo) : v \in WordsIn(piece.words) <=> w \in WordsIn(piece.words)

\* No window is over the budget, and merged segments are not either.
WithinBudget ==
    /\ stage = "refine" => \A piece \in ToSet(todo \o pieces) : Len(piece.words) <= Size
    /\ stage = "merge" => \A piece \in ToSet(pieces) :
            Len(piece.words) > Size => \E block \in ToSet(SplitBlocks(request.lines)) : block.words = piece.words

\* A vector that is kept stands for the words of its piece (buildPieces: "keeps the semantic path
\* honest instead of misaligned").
VectorsFit == stage = "done" => \A i \in DOMAIN inline : inline[i] = pieces[i].words

\* A piece that some node has words of is cited by such a node; one under a lone heading may be cited
\* by its neighbours.
CitedByItsSource ==
    stage = "done" => \A p \in DOMAIN pieces :
        LET words == WordsIn(pieces[p].words)
            near == {i \in Kin(IR) : Holds(NodeText(IR[i]), pieces[p].words) \/ Holds(pieces[p].words, NodeText(IR[i]))}
        IN (near # {} /\ Len(pieces[p].heading) # 1) =>
            /\ WordsIn(NodeText(IR[AnchorOf(p)])) \cap words # {}
            /\ (\E i \in near : IR[i].type = "page" /\ NodeText(IR[i]) = pieces[p].words) => IR[AnchorOf(p)].type = "page"

PiecesAreSound ==
    NothingIsLost /\ UnderItsHeadings /\ FencesStayWhole /\ WithinBudget /\ VectorsFit /\ CitedByItsSource

=============================================================================
