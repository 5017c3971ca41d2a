----------------------------- MODULE Extraction -----------------------------
(***************************************************************************)
(* How a file becomes text (knowledge/service_doc.go parseFileContent,      *)
(* knowledge/quality.go, ocr.go, parser/pdf.go): a remote service, then the  *)
(* native reader with its two candidates, then OCR and a converter, which     *)
(* may fail; and what the document says of the quality of the outcome.       *)
(*                                                                         *)
(* A text is who read it, how many characters of how many pages, and what    *)
(* is wrong with it. A document is indexed more than once, under changing     *)
(* configurations and with helpers that come and go.                         *)
(***************************************************************************)
EXTENDS Integers, Sequences

CONSTANTS
    Files,          \* what is to be read: format, pages, and its native candidates
    Configs,        \* what is configured and available: mode, remote, ocr, renderer, converter
    Texts(_, _),    \* what a reader may make of a file; nothing when it fails
    Readings,       \* what OCR may make of one image: a reading for each orientation
    Thin, Soft, Many, Few, Sparse, Rendered, Sure, Runs

VARIABLES file, config, parsed, doc, left, stage, runs

vars == <<file, config, parsed, doc, left, stage, runs>>

NoText == [by |-> "nobody", chars |-> 0, pages |-> 0, damaged |-> FALSE, broken |-> FALSE, dense |-> FALSE, line |-> 0]
New == [text |-> NoText, ir |-> "nobody", pages |-> 0, method |-> "none", status |-> "UNKNOWN",
        partial |-> FALSE, ocrPages |-> 0, recorded |-> FALSE]

IsPdf == file.format = "pdf"
IsImage == file.format = "image"

-----------------------------------------------------------------------------
(* Quality.                                                                 *)

Healthy(t) == t.chars > 0 /\ ~t.damaged /\ ~t.broken

DenseEnoughForOCR(t, pages) == t.chars > 0 /\ t.dense /\ t.chars >= pages

Bad(t) == t.damaged \/ t.chars = 0

\* Of two healthy texts the fuller one; then damage, then lines.
BetterThan(t, u) ==
    IF Healthy(t) # Healthy(u) THEN Healthy(t)
    ELSE IF Healthy(t) /\ t.chars # u.chars THEN t.chars > u.chars
    ELSE IF Bad(t) # Bad(u) THEN Bad(u)
    ELSE t.line >= u.line

\* mutant: any text that can be read replaces the native one
AnyReadable(native, healthy, t, pages) == Healthy(t) \/ DenseEnoughForOCR(t, pages)

ocrCandidateWins(native, healthy, t, pages) ==
    /\ Healthy(t) \/ DenseEnoughForOCR(t, pages)
    /\ \/ native.chars = 0
       \/ ~healthy /\ t.chars >= native.chars \div 4
       \/ healthy /\ t.chars > native.chars * 2

classifyExtractionQuality(pages, method, chars, healthy, partial) ==
    IF chars = 0 \/ (pages > 0 /\ pages >= Many /\ chars < Thin * pages) THEN "INCOMPLETE"
    ELSE IF ~healthy THEN "LOW_QUALITY"
    ELSE IF pages = 0 THEN "GOOD"
    ELSE IF partial \/ (chars < Soft * pages /\ method # "ocr") THEN "WARNING"
    ELSE "GOOD"

\* What the document says of the text t it is given.
Recorded(d, t, method, nativeHealthy, pages, partial) ==
    LET healthy == IF method \in {"ocr", "fallback"} THEN Healthy(t) \/ DenseEnoughForOCR(t, d.pages)
                   ELSE nativeHealthy
    IN [d EXCEPT !.text = t, !.method = method, !.partial = partial, !.ocrPages = pages, !.recorded = TRUE,
                 !.status = classifyExtractionQuality(d.pages, method, t.chars, healthy, partial)]

-----------------------------------------------------------------------------
(* The native reader.                                                       *)

NotParsed == [ok |-> FALSE, text |-> NoText, ir |-> "nobody", healthy |-> FALSE, needsOCR |-> FALSE, pages |-> 0, method |-> "native"]

\* A healthy walk of the text beats the layout put together again; neither healthy, the
\* less fragmented one is kept for what comes next.
PdfRead ==
    LET plain == file.plain
        layout == file.layout
        rebuilt == \/ file.layoutRead /\ ~Healthy(plain) /\ Healthy(layout)
                   \/ file.layoutRead /\ ~Healthy(plain) /\ BetterThan(layout, plain)
        selected == IF rebuilt THEN layout ELSE plain
        sparse == rebuilt /\ selected.chars > 0 /\ file.pages > Few /\ selected.chars < Thin * file.pages
                          /\ selected.pages * Sparse < file.pages
    IN IF ~rebuilt /\ plain.chars = 0 THEN NotParsed
       ELSE [ok |-> TRUE, text |-> selected, ir |-> selected.by, healthy |-> Healthy(selected),
             needsOCR |-> ~Healthy(selected) \/ sparse, pages |-> file.pages,
             method |-> IF rebuilt THEN "reassembled" ELSE "native"]

\* An image has no text of its own; other formats have theirs, or cannot be read.
NativeRead ==
    CASE IsPdf -> PdfRead
      [] IsImage -> [NotParsed EXCEPT !.ok = TRUE, !.needsOCR = TRUE, !.method = "image"]
      [] OTHER -> [NotParsed EXCEPT !.ok = file.plain.chars > 0, !.text = file.plain, !.ir = file.plain.by,
                                  !.healthy = file.plain.chars > 0]

Available == parsed.text.chars > 0

-----------------------------------------------------------------------------
(* The chain.                                                               *)

\* What is left to try, in order: another reader's text is taken if it has any
\* ("any"), if it beats the native one ("better"), or the native text is the answer.
Alternatives(p, mode) ==
    LET native == IF p.text.chars > 0 THEN <<"native">> ELSE <<>>
    IN CASE mode = "forced" -> <<"ocr any", "convert any", "native as it was">>
         [] mode # "forced" /\ native # <<>> /\ ~p.needsOCR -> native
         [] mode # "forced" /\ native = <<>> -> <<"convert any", "ocr any">>
         [] OTHER -> <<"ocr better", "convert better">> \o native

Remote ==
    /\ stage = "start" /\ UNCHANGED <<file, config, parsed, left, runs>>
    /\ \/ /\ IsPdf /\ config.remote
          /\ \E t \in Texts(file, "remote") \ {NoText} :
                doc' = [doc EXCEPT !.text = t, !.ir = t.by, !.recorded = FALSE]
          /\ stage' = "done"
       \/ stage' = "parse" /\ UNCHANGED doc

\* The page count is kept when nothing is parsed, and so is the structure.
Parse ==
    /\ stage = "parse" /\ UNCHANGED <<file, config, runs>>
    /\ \/ stage' = "cancelled" /\ UNCHANGED <<parsed, doc, left>>
       \/ /\ parsed' = NativeRead
          /\ doc' = [doc EXCEPT !.ir = IF parsed'.ok THEN parsed'.ir ELSE @,
                                !.pages = IF parsed'.pages > 0 THEN parsed'.pages ELSE @,
                                !.method = parsed'.method]
          /\ left' = Alternatives(parsed', config.mode)
          /\ stage' = "try"

\* Of the orientations of an image an upright one that is sure, else the one read with the
\* most confidence, the earlier of two alike.
runOCRImage(readings) ==
    LET read == {i \in DOMAIN readings : readings[i].chars > 0}
        beats(i, j) == \/ readings[i].confidence > readings[j].confidence
                       \/ readings[i].confidence = readings[j].confidence /\ readings[i].quality > readings[j].quality
    IN IF read = {} THEN 0
       ELSE IF 1 \in read /\ readings[1].confidence >= Sure THEN readings[1].chars
       ELSE readings[CHOOSE i \in read : \A j \in read : ~beats(j, i) /\ (j < i => beats(i, j))].chars

\* An image as one page; a PDF page by page if there is a renderer, which stops at its limit
\* and leaves out pages that cannot be read, else whole, else by the images it holds.
OCRTexts ==
    IF ~config.ocr \/ ~(IsPdf \/ IsImage) THEN {NoText}
    ELSE IF IsImage
    THEN {[NoText EXCEPT !.by = "ocr", !.chars = runOCRImage(r), !.pages = 1, !.dense = TRUE] : r \in Readings}
    ELSE Texts(file, "ocr") \cup {NoText}

Rest == left' = Tail(left) /\ stage' = (IF Len(left) = 1 THEN "failed" ELSE "try") /\ UNCHANGED doc

\* An answer of a helper is taken, or the next is tried.
Taken(t, better, method, pages, partial) ==
    IF t.chars > 0 /\ (better => ocrCandidateWins(parsed.text, parsed.healthy, t, doc.pages))
    THEN /\ doc' = [Recorded(doc, t, method, parsed.healthy, pages, partial) EXCEPT
                        !.ir = IF better \/ config.mode = "forced" THEN t.by ELSE @]
         /\ stage' = "done" /\ UNCHANGED left
    ELSE Rest

TryOCR ==
    /\ stage = "try" /\ left # <<>> /\ left[1] \in {"ocr any", "ocr better"}
    /\ UNCHANGED <<file, config, parsed, runs>>
    /\ \E t \in OCRTexts :
        \/ Taken(t, left[1] = "ocr better", "ocr", 0, FALSE)
        \/ /\ IsPdf /\ config.renderer /\ t.chars > 0
           /\ \E n \in t.pages .. Rendered :
                n <= file.pages /\ Taken(t, left[1] = "ocr better", "ocr", n, parsed.pages > n)

TryConverter ==
    /\ stage = "try" /\ left # <<>> /\ left[1] \in {"convert any", "convert better"}
    /\ UNCHANGED <<file, config, parsed, runs>>
    /\ \E t \in (IF IsPdf /\ config.converter THEN Texts(file, "converter") ELSE {}) \cup {NoText} :
        Taken(t, left[1] = "convert better", "fallback", 0, FALSE)

TakeNative ==
    /\ stage = "try" /\ left # <<>> /\ left[1] \in {"native", "native as it was"}
    /\ UNCHANGED <<file, config, parsed, runs>>
    /\ IF ~Available THEN Rest
       ELSE /\ doc' = IF left[1] = "native" THEN Recorded(doc, parsed.text, doc.method, parsed.healthy, 0, FALSE)
                      ELSE [doc EXCEPT !.text = parsed.text, !.recorded = FALSE]
            /\ stage' = "done" /\ UNCHANGED left

\* The document is indexed again, under another configuration.
Reindex ==
    /\ stage \in {"done", "failed", "cancelled"} /\ runs < Runs
    /\ config' \in Configs /\ runs' = runs + 1 /\ stage' = "start"
    /\ doc' = [doc EXCEPT !.ir = "nobody"]
    /\ left' = <<>> /\ parsed' = NotParsed
    /\ UNCHANGED file

Init ==
    /\ file \in Files /\ config \in Configs
    /\ parsed = NotParsed /\ doc = New /\ left = <<>> /\ stage = "start" /\ runs = 1

Next == Remote \/ Parse \/ TryOCR \/ TryConverter \/ TakeNative \/ Reindex

-----------------------------------------------------------------------------
(* What the text and its quality must be.                                   *)

\* A file whose text could be read natively gets a text, whatever the helpers do, and one
\* that fails has none ("OCR failure never destroys already-extracted text").
NothingIsDestroyed ==
    /\ stage = "failed" => ~Available
    /\ stage = "done" => doc.text.chars > 0

\* Unless OCR is forced, a helper's text that stands for a native one is readable and tells
\* at least a quarter of it, and a healthy text yields only to one that tells twice as much
\* (ocrCandidateWins: worse or shorter OCR must never overwrite better native evidence).
WorseNeverReplaces ==
    (stage = "done" /\ Available /\ config.mode # "forced" /\ doc.text.by \in {"ocr", "converter"}) =>
        /\ Healthy(doc.text) \/ DenseEnoughForOCR(doc.text, doc.pages)
        /\ 4 * doc.text.chars > parsed.text.chars - 4
        /\ parsed.healthy => doc.text.chars > 2 * parsed.text.chars

\* A file of many pages with next to no text is never told to be good, and neither is one of
\* which OCR saw only a part (classifyExtractionQuality). Texts whose quality is not recorded,
\* and files whose pages could not be counted, are excepted.
LossIsSeen ==
    (stage = "done" /\ doc.recorded /\ doc.pages > 0) =>
        /\ (doc.pages >= Many /\ doc.text.chars < Thin * doc.pages) => doc.status = "INCOMPLETE"
        /\ (doc.method = "ocr" /\ 0 < doc.ocrPages /\ doc.ocrPages < doc.pages) =>
               doc.partial /\ doc.status # "GOOD"
        /\ doc.status = "GOOD" => Healthy(doc.text) \/ DenseEnoughForOCR(doc.text, doc.pages)

\* The document names the reader of its text, and its structure is that of no other text:
\* the pages of a native text that was given up are not those of the answer.
SourceIsNamed ==
    stage = "done" =>
        /\ doc.ir \in {doc.text.by, "nobody"} \/ parsed.text.chars = 0
        /\ doc.recorded => (doc.method = "ocr") = (doc.text.by = "ocr")
        /\ doc.recorded => (doc.method = "reassembled") = (doc.text.by = "layout")

TextsAreTrue == NothingIsDestroyed /\ WorseNeverReplaces /\ LossIsSeen /\ SourceIsNamed

=============================================================================
