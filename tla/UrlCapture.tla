------------------------------ MODULE UrlCapture ------------------------------
(***************************************************************************)
(* URL captures: internal/operations/url.go under the import_url and        *)
(* refresh_url executors of internal/app/operations.go. The first bytes an  *)
(* operation fetches are stored, every later attempt ingests those, and the *)
(* row gives its bytes up when the document is published or at expiry.      *)
(*                                                                          *)
(* All operations work on one document; the attempts of one operation       *)
(* follow each other (OperationQueue). Generations and their fences are in  *)
(* DocumentGenerations: here an ingest is its start and its publication.    *)
(***************************************************************************)
EXTENDS Naturals, FiniteSets

CONSTANTS
    Imports, Refreshes,    \* operations of either type
    Body,               \* what the remote page may contain
    Nil

Op == Imports \cup Refreshes

VARIABLES
    site,       \* the remote page
    doc,        \* [status, hash, text]: content_hash, and what is published
    marker,     \* operations whose item is marked committed
    row,        \* url_captures: [state, sha] of each operation
    op,         \* where each operation is, and the bytes its attempt holds
    pub,        \* history: bytes that were published
    used,       \* history: bytes that each operation began to ingest
    spared      \* history: operations whose capture expired, or see Start

vars == <<site, doc, marker, row, op, pub, used, spared>>

Goto(o, l) == op' = [op EXCEPT ![o].at = l]

----------------------------------------------------------------------------
SiteChanges ==
    /\ \E b \in Body \ {site} : site' = b
    /\ UNCHANGED <<doc, marker, row, op, pub, used, spared>>

\* A marked item is only cleaned up; a ready document ends an import as it is.
Begin(o) ==
    /\ op[o].at = "queued"
    /\ Goto(o, IF o \in marker THEN "consume"
               ELSE IF o \in Refreshes /\ doc.status = "none" THEN "failed"
               ELSE IF o \in Imports /\ doc.status = "ready" THEN "finish" ELSE "fetch")
    /\ UNCHANGED <<site, doc, marker, row, pub, used, spared>>

Fetch(o) ==
    /\ op[o].at = "fetch" /\ op' = [op EXCEPT ![o] = [at |-> "ensure", body |-> site]]
    /\ UNCHANGED <<site, doc, marker, row, pub, used, spared>>

\* EnsureURLCapture: the bytes of an existing row win; a consumed row has none.
FetchedAgain(o) == op[o].body \* mutant
RowOnly(o) == row[o].sha \* mutant
Captured(o) == IF row[o].state = "none" THEN op[o].body ELSE row[o].sha

EnsureURLCapture(o) ==
    /\ op[o].at = "ensure"
    /\ IF row[o].state = "consumed" THEN Goto(o, "failed") /\ UNCHANGED row
       ELSE /\ op' = [op EXCEPT ![o] = [at |-> "start", body |-> Captured(o)]]
            /\ row' = IF row[o].state = "ready" THEN row
                      ELSE [row EXCEPT ![o] = [state |-> "ready", sha |-> op[o].body]]
    /\ UNCHANGED <<site, doc, marker, pub, used, spared>>

\* startDocumentIngest already writes the new content hash, and a refresh whose
\* bytes have the hash of the document leaves it alone. So after a crash before
\* the publication it takes bytes for published that are not: those refreshes
\* are recorded as spared.
Unmarked(o) == marker

Start(o) ==
    LET b == op[o].body
        same == o \in Refreshes /\ doc.hash = b
    IN
    /\ op[o].at = "start"
    /\ IF same
       THEN /\ Goto(o, "consume")
            /\ spared' = IF b \in pub THEN spared ELSE spared \cup {o}
            /\ UNCHANGED <<doc, marker, used>>
       ELSE /\ Goto(o, "publish")
            /\ doc' = [doc EXCEPT !.status = "processing", !.hash = b]
            /\ used' = [used EXCEPT ![o] = @ \cup {b}]
            /\ marker' = Unmarked(o) /\ UNCHANGED spared
    /\ UNCHANGED <<site, row, pub>>

\* A degraded ingest calls the document ready before it activates it.
Degrade(o) ==
    /\ op[o].at = "publish" /\ doc.status # "ready" /\ doc' = [doc EXCEPT !.status = "ready"]
    /\ UNCHANGED <<site, marker, row, op, pub, used, spared>>

\* activateDocumentGeneration with the commit hook
Publish(o) ==
    LET b == op[o].body IN
    /\ op[o].at = "publish" /\ Goto(o, "consume")
    /\ doc' = [status |-> "ready", hash |-> b, text |-> b]
    /\ pub' = pub \cup {b} /\ marker' = marker \cup {o}
    /\ UNCHANGED <<site, row, used, spared>>

\* failDocument writes the whole row of the attempt back.
IngestFails(o) ==
    /\ op[o].at = "publish" /\ Goto(o, "failed")
    /\ doc' = [doc EXCEPT !.status = "failed", !.hash = op[o].body]
    /\ UNCHANGED <<site, marker, row, pub, used, spared>>

ConsumeURLCapture(o) ==
    /\ op[o].at = "consume" /\ Goto(o, "finish")
    /\ row' = IF row[o].state = "ready" THEN [row EXCEPT ![o].state = "consumed"] ELSE row
    /\ UNCHANGED <<site, doc, marker, pub, used, spared>>

Finish(o) ==
    /\ op[o].at = "finish" /\ Goto(o, "succeeded")
    /\ UNCHANGED <<site, doc, marker, row, pub, used, spared>>

\* An unreachable page, or a failed write of the control plane.
Fail(o) ==
    /\ op[o].at \in {"fetch", "ensure", "start", "consume"} /\ Goto(o, "failed")
    /\ UNCHANGED <<site, doc, marker, row, pub, used, spared>>

Retry(o) ==
    /\ op[o].at = "failed" /\ Goto(o, "queued")
    /\ UNCHANGED <<site, doc, marker, row, pub, used, spared>>

\* ExpireURLCaptures does not look at the operation.
ExpireURLCaptures(o) ==
    /\ row[o].state = "ready" /\ row' = [row EXCEPT ![o].state = "consumed"]
    /\ spared' = spared \cup {o}
    /\ UNCHANGED <<site, doc, marker, op, pub, used>>

\* Operations are queued again, an interrupted document is pending.
Crash ==
    LET over(o) == op[o].at \in {"queued", "succeeded", "failed"} IN
    /\ \E o \in Op : ~over(o)
    /\ op' = [o \in Op |-> IF over(o) THEN op[o] ELSE [at |-> "queued", body |-> Nil]]
    /\ doc' = [doc EXCEPT !.status = IF @ = "processing" THEN "pending" ELSE @]
    /\ UNCHANGED <<site, marker, row, pub, used, spared>>

Init ==
    /\ site \in Body /\ doc = [status |-> "none", hash |-> Nil, text |-> Nil]
    /\ marker = {} /\ row = [o \in Op |-> [state |-> "none", sha |-> Nil]]
    /\ op = [o \in Op |-> [at |-> "queued", body |-> Nil]]
    /\ pub = {} /\ used = [o \in Op |-> {}] /\ spared = {}

Next ==
    \/ SiteChanges \/ Crash
    \/ \E o \in Op :
          \/ Begin(o) \/ Fetch(o) \/ EnsureURLCapture(o) \/ Start(o) \/ Degrade(o) \/ Publish(o)
          \/ IngestFails(o) \/ ConsumeURLCapture(o) \/ Finish(o) \/ Fail(o) \/ Retry(o)
          \/ ExpireURLCaptures(o)

----------------------------------------------------------------------------
TypeOK ==
    /\ site \in Body /\ marker \cup spared \subseteq Op
    /\ doc.status \in {"none", "processing", "pending", "ready", "failed"}
    /\ {doc.hash, doc.text} \subseteq Body \cup {Nil}
    /\ row \in [Op -> [state : {"none", "ready", "consumed"}, sha : Body \cup {Nil}]]
    /\ \A o \in Op : op[o].at \in {"start", "publish"} => op[o].body \in Body

\* Whatever the page contained when an attempt looked, all attempts of one
\* operation ingest the same bytes.
OneCapture == \A o \in Op : Cardinality(used[o]) <= 1

\* The bytes of an operation are given up only once they have been published, or
\* at expiry (or see Start): a crash or a failure before that keeps them.
CaptureKept ==
    \A o \in Op : row[o].state = "consumed" => row[o].sha \in pub \/ o \in spared

=============================================================================
