----------------------------- MODULE SampleFiles -----------------------------
(* Files, texts and parsed documents for the instances of Extraction and      *)
(* Chunking in ContentMC.                                                    *)
EXTENDS Integers, Sequences

-----------------------------------------------------------------------------
(* What may be read from a file of one page or of twelve.                     *)

Unread == [by |-> "nobody", chars |-> 0, pages |-> 0, damaged |-> FALSE, broken |-> FALSE,
           dense |-> FALSE, line |-> 0]
ReadAs(by, chars, pages, broken, dense) ==
    [by |-> by, chars |-> chars, pages |-> pages, damaged |-> FALSE, broken |-> broken,
     dense |-> dense, line |-> IF broken THEN 1 ELSE 4]

Walks ==
    {Unread, ReadAs("plain", 10, 1, TRUE, TRUE), ReadAs("plain", 60, 1, FALSE, TRUE),
     [ReadAs("plain", 20, 1, FALSE, TRUE) EXCEPT !.damaged = TRUE]}
Layouts ==
    {Unread, ReadAs("layout", 12, 1, FALSE, TRUE), ReadAs("layout", 60, 9, FALSE, TRUE),
     ReadAs("layout", 8, 2, TRUE, TRUE)}
FileOf(format, pages, plain, layout, read) ==
    [format |-> format, pages |-> pages, plain |-> plain, layout |-> layout, layoutRead |-> read]
SampleFile ==
    {FileOf("pdf", n, p, l, TRUE) : n \in {1, 12}, p \in Walks, l \in Layouts}
    \cup {FileOf("pdf", 12, p, Unread, FALSE) : p \in Walks}
    \cup {FileOf("image", 1, Unread, Unread, FALSE)}
    \cup {FileOf("docx", 0, t, Unread, FALSE) : t \in {Unread, ReadAs("plain", 4, 1, TRUE, TRUE)}}

\* Another reader's text may be thin, comparable or much fuller, of one page or of all.
TextsRead(f, by) ==
    {ReadAs(by, c, p, FALSE, TRUE) : c \in {3, 22, 130}, p \in {1, f.pages}}
    \cup {ReadAs(by, 30, 1, TRUE, FALSE)}

SampleConfigs ==
    {[mode |-> m, remote |-> FALSE, ocr |-> TRUE, renderer |-> r, converter |-> ~r] :
        m \in {"auto", "forced"}, r \in BOOLEAN}
    \cup {[mode |-> "off", remote |-> TRUE, ocr |-> FALSE, renderer |-> FALSE, converter |-> TRUE]}

Sight(chars, confidence, quality) == [chars |-> chars, confidence |-> confidence, quality |-> quality]
SampleReadings ==
    {<<Sight(3, 50, 2), Sight(4, 70, 1)>>,
     <<Sight(0, 0, 0), Sight(5, 40, 1), Sight(6, 40, 2)>>,
     <<Sight(2, 90, 1), Sight(7, 95, 3)>>}

-----------------------------------------------------------------------------
(* Texts and their structure.                                               *)

TextLine(id, kind, level, words, fence) ==
    [id |-> id, kind |-> kind, level |-> level, words |-> words, fence |-> fence]
Prose(id, words) == TextLine(id, "text", 0, words, 0)
Blank(id) == TextLine(id, "blank", 0, 0, 0)
Debris(id) == TextLine(id, "debris", 0, 1, 0)
Title(id, level, words) == TextLine(id, "heading", level, words, 0)

\* Nested headings, and a fence that holds what looks like a heading and a shorter fence.
Guide ==
    <<Title(1, 1, 1), Prose(2, 2), Title(3, 3, 1), Prose(4, 2),
      TextLine(5, "opener", 3, 1, 1), TextLine(6, "heading", 1, 1, 1), TextLine(7, "blank", 0, 0, 1),
      TextLine(8, "fence", 2, 1, 1), TextLine(9, "text", 0, 1, 1), TextLine(10, "fence", 3, 1, 1),
      Blank(11), Title(12, 2, 1), Prose(13, 3), Prose(14, 5)>>
\* Fragments between paragraphs.
Scraps ==
    <<Debris(1), Blank(2), Prose(3, 5), Blank(4), Debris(5), Blank(6), Prose(7, 1), Blank(8), Prose(9, 3)>>
Titles == <<Title(1, 1, 2), Title(2, 1, 2)>>

IRNode(type, parent, lines, heading) ==
    [type |-> type, parent |-> parent, lines |-> lines, heading |-> heading]
Pages ==
    <<IRNode("document", 0, Scraps, <<>>), IRNode("page", 1, <<Scraps[1], Scraps[3]>>, <<>>),
      IRNode("paragraph", 2, <<Scraps[1]>>, <<>>), IRNode("table", 2, <<Scraps[3]>>, <<>>),
      IRNode("row", 4, <<Scraps[3]>>, <<>>), IRNode("cell", 5, <<Prose(3, 2)>>, <<>>),
      IRNode("page", 1, <<Scraps[5], Scraps[7], Scraps[9]>>, <<>>), IRNode("figure", 7, <<Scraps[7]>>, <<>>),
      IRNode("caption", 8, <<Scraps[7]>>, <<>>), IRNode("paragraph", 7, <<Scraps[9]>>, <<>>)>>
Report ==
    <<IRNode("document", 0, Guide, <<>>), IRNode("heading", 1, <<Prose(1, 1)>>, <<1>>),
      IRNode("paragraph", 1, <<Guide[2]>>, <<1>>), IRNode("list", 1, <<>>, <<>>),
      IRNode("list item", 4, <<Guide[4]>>, <<1>>), IRNode("table", 1, <<>>, <<>>),
      IRNode("row", 6, <<>>, <<>>), IRNode("cell", 7, <<Guide[9]>>, <<>>),
      IRNode("heading", 1, <<Guide[12]>>, <<1, 12>>),
      IRNode("paragraph", 1, <<Guide[13], Guide[14]>>, <<1, 12>>)>>
Workbook ==
    <<IRNode("document", 0, Scraps, <<>>), IRNode("sheet", 1, Scraps, <<>>),
      IRNode("table", 2, <<Scraps[3]>>, <<>>), IRNode("row", 3, <<Scraps[3]>>, <<>>),
      IRNode("cell", 4, <<Prose(3, 2)>>, <<>>), IRNode("row", 3, <<Scraps[9]>>, <<>>)>>

Chunked(lines, nodes, parser) ==
    {[lines |-> lines, nodes |-> nodes, parser |-> parser, smart |-> s, semantic |-> e] :
        s \in BOOLEAN, e \in BOOLEAN}
SampleTexts ==
    Chunked(Guide, <<>>, "md") \cup Chunked(Scraps, <<>>, "txt") \cup Chunked(Titles, <<>>, "txt")
    \cup Chunked(Scraps, Pages, "pdf") \cup Chunked(Guide, Report, "docx")
    \cup Chunked(Scraps, Workbook, "xlsx")

=============================================================================
