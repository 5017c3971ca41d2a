------------------------------ MODULE ContentMC ------------------------------
(***************************************************************************)
(* What comes in and what is asked, checked side by side: uploaded files,   *)
(* captured pages, trees of directories, the commands that requests become, *)
(* the catalog of bases, the process that does it, the text and the pieces  *)
(* files become, the ranking of search results, the context made of the     *)
(* semantic memory and the cache of models. They share no state, and in a   *)
(* behaviour one of them changes while the others rest (at 0, which is      *)
(* cheap to compare).                                                       *)
(***************************************************************************)
EXTENDS UploadStagingMC, SampleFiles

CONSTANTS imp, refresh, b1, b2, Nil, text1, text2, aBase, aDoc, bDoc, aKey, Nothing, NoPolicy,
          client1, client2, signer1, signer2, credential1,
          bBase, group1, group2, name1, secret1, Ungrouped, Keyless, Unset,
          process1, process2, Nobody,
          m1, r1, r2, r3, n1, n2, j1, j2

VARIABLES
    focus,
    site, page, marker, row, op, pub, used, spared,
    tree, closed, documents, sync, events,
    time, keys, issued, source, rows, acceptMu, calls,
    bases, groups, scope, requests, made,
    lock, applied, yaml, bundle, processes, mishaps,
    file, options, parsed, original, left, reading, runs,
    text, cutting, work, pieces, inline, links,
    search, context,
    disk, config, current, root, opMu, job, wanted, astray

U == INSTANCE UrlCapture WITH
        Imports <- {imp}, Refreshes <- {refresh}, Body <- {b1, b2}, doc <- page

\* A directory with a file in it at p, nothing yet at q.
D == INSTANCE DirectorySync WITH
        Sorted <- << <<"sub">>, <<"sub", "b">> >>, Dirs <- {<<"sub">>},
        Place <- {"p", "q"}, Content <- {text1, text2}, Retitled <- {<<"sub", "b">>},
        Disk <- [l \in {"p", "q"} |-> [e \in {<<>>, <<"sub">>, <<"sub", "b">>} |->
                    IF e = <<>> THEN "dir" ELSE IF l = "q" THEN "gone"
                    ELSE IF e = <<"sub">> THEN "dir" ELSE text1]],
        Copies <- 3, MaxEvents <- 2, disk <- tree, row <- documents

-----------------------------------------------------------------------------
(* Two clients, and the requests that meet: two ways to reindex the document  *)
(* of a base; one key for two payloads and two commands; a credential that is  *)
(* issued, used, and used for something else; keys made of the request alone. *)

Req(door, type, base, docs, input, key) ==
    [door |-> door, type |-> type, base |-> base, docs |-> docs, input |-> input, key |-> key]

Meetings ==
    "reindexing" :>
        {Req("operations", "reindex_base", aBase, {}, Nothing, Nothing),
         Req("routes", "reindex_document", aBase, {aDoc}, Nothing, Nothing)}
    @@ "retrying" :>
        {Req("operations", "import_text", aBase, {}, text1, aKey),
         Req("operations", "import_text", aBase, {}, text2, aKey),
         Req("operations", "migrate_model_cache", Nothing, {}, text1, aKey)}
    @@ "signing" :>
        {Req("keys", "delete_base", aBase, {}, Nothing, credential1),
         Req("operations", "delete_base", aBase, {}, Nothing, credential1),
         Req("operations", "import_text", aBase, {}, text1, credential1)}
    @@ "repeating" :>
        {Req("tools", "delete_document", aBase, {aDoc}, Nothing, Nothing),
         Req("routes", "remove_model", Nothing, {}, text1, Nothing)}

C(m) == INSTANCE CommandIntake WITH
        Client <- {client1, client2}, Requests <- Meetings[m],
        SigningKey <- IF m = "signing" THEN {signer1, signer2} ELSE {}, Credential <- {credential1},
        Base <- {aBase}, BaseOf <- (aDoc :> aBase), Enabled <- {aBase},
        Lifetime <- 1, Retention <- 1, MaxPending <- 1,
        MaxAttempts <- IF m = "retrying" THEN 2 ELSE 1,
        MaxTime <- IF m = "retrying" THEN 2 ELSE IF m = "signing" THEN 1 ELSE 0,
        MaxVersion <- IF m \in {"reindexing", "repeating"} THEN 1 ELSE 0, MaxOperations <- 2
ASSUME IntakeIsAssumed == \A m \in DOMAIN Meetings : C(m)!IntakeAssumption

-----------------------------------------------------------------------------
(* Two clients at the rows of two bases and two groups.                       *)

B == INSTANCE Catalog WITH
        Client <- {client1, client2}, Base <- {aBase, bBase}, Group <- {group1, group2},
        Name <- {name1}, Key <- {secret1}, NoGroup <- Ungrouped, NoKey <- Keyless,
        Absent <- Unset, MaxCalls <- 2, calls <- requests
ASSUME CatalogIsAssumed == B!CatalogAssumption

-----------------------------------------------------------------------------
(* Processes, files and texts.                                              *)

\* A process that serves or checks up, and one of a newer version; the second
\* configuration has services and commands of its own.
Says(aCommand, only, embedding, rerank, helpers) ==
    [command |-> aCommand, only |-> only, embedding |-> embedding, rerank |-> rerank, helpers |-> helpers]
A == INSTANCE AppLifecycle WITH
        Process <- {process1, process2}, Mode <- {"serve", "doctor"},
        Supports <- process1 :> 1 @@ process2 :> 2, Config <- {"managed", "mixed"},
        Settings <- "none" :> Says(FALSE, {}, "none", "off", {})
                    @@ "managed" :> Says(FALSE, {}, "local", "local", {"content"})
                    @@ "mixed" :> Says(FALSE, {"ocr", "embedding"}, "local", "remote",
                                       {"office", "ocr fallback", "renderer"}),
        MaxUpdates <- process1 :> 1 @@ process2 :> 0, MaxEvents <- 1,
        disk <- yaml, proc <- processes, events <- mishaps
ASSUME DirectoryIsAssumed == A!LifecycleAssumption

X == INSTANCE Extraction WITH
        Files <- SampleFile, Configs <- SampleConfigs, Texts <- TextsRead, Readings <- SampleReadings,
        Thin <- 2, Soft <- 4, Many <- 10, Few <- 3, Sparse <- 10, Rendered <- 10, Sure <- 80, Runs <- 2,
        config <- options, doc <- original, stage <- reading

T == INSTANCE Chunking WITH
        Requests <- SampleTexts, Size <- 6, Slack <- 2, Limit <- 4, MinSplit <- 3, MinMeaning <- 2,
        request <- text, stage <- cutting, todo <- work

-----------------------------------------------------------------------------
(* Three chunks of two documents, each in a base of its own; the first two say *)
(* nearly the same.                                                          *)

Near == {<<>>, (1 :> 50) @@ (2 :> 30), (1 :> 30) @@ (3 :> 90), (1 :> 30) @@ (2 :> 30) @@ (3 :> 50)}
Words == {<<>>, (1 :> 40), (2 :> 40) @@ (3 :> 20), (1 :> 40) @@ (2 :> 40), (3 :> 0)}
Phrasings == {[words |-> w, near |-> n] : w \in Words, n \in Near}
Rephrasings ==
    {p \in Phrasings :
        p.words \in {<<>>, (2 :> 40) @@ (3 :> 20)} /\ p.near \in {<<>>, (1 :> 50) @@ (2 :> 30)}}

R == INSTANCE Ranking WITH
        Chunk <- 1 .. 3, DocOf <- <<aDoc, aDoc, bDoc>>, BaseOf <- <<aDoc, aDoc, bDoc>>,
        Bases <- <<aDoc, bDoc>>, Reranker <- [base \in {aDoc, bDoc} |-> "r"],
        Similar <- [p \in (1 .. 3) \X (1 .. 3) |-> IF p[1] # 3 /\ p[2] # 3 THEN 90 ELSE 20],
        Embedded <- 1 .. 3, Fits <- 1 .. 3, Grades <- {20, 80},
        Queries <- {[phrasings |-> ps, mode |-> m, topK |-> 2, threshold |-> t, mmr |-> mmr,
                     quality |-> (aDoc :> q @@ bDoc :> "good")] :
            ps \in {<<p>> : p \in Phrasings} \cup (Rephrasings \X Rephrasings),
            m \in {"hybrid", "vector"}, t \in {0, 40}, mmr \in BOOLEAN, q \in {"low", "incomplete"}}

-----------------------------------------------------------------------------
(* Three memories: a plain history, facts that share a chunk, a long history. *)

V == INSTANCE VersionOrder

Sem(major, minor) == [family |-> "semantic", parts |-> <<major, minor>>, suffix |-> ""]
Rel(n) == [family |-> "release", parts |-> <<n>>, suffix |-> ""]
Token == [family |-> "token", parts |-> <<1>>, suffix |-> ""]
Day(n) == [family |-> "date", parts |-> <<n>>, suffix |-> ""]
No == V!NoVersion

Range3(form, from, to) == [form |-> form, from |-> from, to |-> to]
Ranges ==
    {Range3("none", No, No), Range3("pair", Sem(2, 0), Sem(1, 0)), Range3("pair", Day(1), Day(3)),
     Range3("recent", No, No), Range3("earlier", No, No)}
    \cup {Range3(form, v, No) : form \in {"before", "until", "after", "since"},
                                v \in {Sem(2, 0), Sem(11, 0), Token, Day(2)}}

Signals(fact, multihop) ==
    [fact |-> fact, temporal |-> 0, multihop |-> multihop, comparison |-> 0, cross |-> 0,
     global |-> 0, local |-> 0]

Unit(kind, version, status, event, matches, score, derived, sources) ==
    [kind |-> kind, version |-> version, status |-> status, event |-> event,
     matches |-> matches, score |-> score, derived |-> derived,
     sources |-> [i \in DOMAIN sources |-> [document |-> sources[i][1], chunk |-> sources[i][2]]]]

Plain ==
    [units |-> <<Unit("fact", Sem(1, 0), "superseded", "introduces", 1, 8, <<>>, << <<1, 1>> >>),
                 Unit("fact", Sem(2, 0), "superseded", "mentions", 1, 4, <<>>, << <<1, 2>> >>),
                 Unit("fact", Sem(10, 0), "active", "none", 2, 4, <<>>, << <<2, 1>> >>),
                 Unit("concept", No, "active", "none", 1, 4, <<1, 3>>, <<>>),
                 Unit("topic", No, "active", "none", 0, 0, <<4>>, <<>>)>>,
     relations |-> {[subject |-> 1, object |-> 3, active |-> TRUE]}]
Shared ==
    [units |-> <<Unit("fact", Sem(1, 0), "superseded", "none", 1, 8, <<>>, << <<1, 1>> >>),
                 Unit("fact", Sem(2, 0), "active", "mentions", 1, 8, <<>>, << <<1, 1>> >>),
                 Unit("fact", Rel(7), "active", "mentions", 1, 8, <<>>, << <<2, 1>> >>),
                 Unit("fact", Sem(1, 5), "deleted", "none", 1, 8, <<>>, << <<2, 2>> >>),
                 Unit("fact", No, "conflicted", "none", 1, 8, <<>>, << <<2, 2>> >>)>>,
     relations |-> {}]
Long ==
    [units |-> [i \in 1 .. 5 |->
        Unit("fact", Sem(<<1, 2, 9, 10, 11>>[i], 0), "superseded", "none", i % 2, 4, <<>>, << <<1, i>> >>)],
     relations |-> {}]

K == INSTANCE KnowledgeContext WITH
        Questions <- {[mentions |-> m, range |-> r, words |-> w, signals |-> s, policy |-> NoPolicy] :
            m \in {<<>>, <<Sem(1, 0)>>, <<Sem(2, 0), Sem(1, 0)>>, <<Rel(7)>>}, r \in Ranges,
            w \in {{}, {"evolution"}, {"current"}}, s \in {Signals(2, 0), Signals(0, 4)}},
        Found <- {[i \in DOMAIN hits |->
                    [document |-> hits[i][1], chunk |-> hits[i][2], version |-> hits[i][3],
                     stated |-> hits[i][4], unit |-> 0, score |-> hits[i][5]]] :
            hits \in {<<>>,
                <<<<1, 1, No, No, 50>>, <<2, 1, Sem(10, 0), No, 40>>>>,
                <<<<1, 2, No, Sem(2, 0), 60>>, <<2, 1, Sem(1, 0), No, 70>>, <<1, 2, No, Sem(1, 0), 20>>>>}},
        Corpora <- {Plain, Shared, Long}, Budgets <- {64, 256}, Top <- 8, FactTop <- 4,
        Representatives <- 2, PerVersion <- 4, LineCost <- 10, TitleCost <- 6, TextCost <- 30,
        CiteCost <- 12

\* A migration to a third cache may follow one that could not empty the first.
M == INSTANCE ModelCache WITH
        Model <- {m1}, Root <- {r1, r2, r3}, Manager <- {n1, n2}, Job <- {j1, j2}, Initial <- r1,
        Commands <- [j \in {j1, j2} |-> IF j = j1 THEN {"migrate"} ELSE {"download", "remove"}]

ASSUME CachesAreAssumed == M!ModelAssumption

-----------------------------------------------------------------------------
uVars == <<site, page, marker, row, op, pub, used, spared>>
dVars == <<tree, closed, documents, sync, events>>
cVars == <<time, keys, issued, source, rows, acceptMu, calls>>
inputs == <<vars, uVars, dVars, cVars>>
bVars == <<bases, groups, scope, requests, made>>
aVars == <<lock, applied, yaml, bundle, processes, mishaps>>
xVars == <<file, options, parsed, original, left, reading, runs>>
tVars == <<text, cutting, work, pieces, inline, links>>
texts == <<aVars, xVars, tVars>>
mVars == <<disk, config, current, root, opMu, job, wanted, astray>>
answers == <<bVars, texts, search, context, mVars>>

ContentInit ==
    /\ focus \in {"uploads", "captures", "directories", "catalog", "application",
                 "extraction", "chunking", "ranking", "context", "models"} \cup DOMAIN Meetings
    /\ Init
    /\ IF focus = "captures" THEN U!Init /\ site = b1   \* the bodies are interchangeable
       ELSE /\ site = 0 /\ page = 0 /\ marker = 0 /\ row = 0
            /\ op = 0 /\ pub = 0 /\ used = 0 /\ spared = 0
    /\ IF focus = "directories" THEN D!Init
       ELSE tree = 0 /\ closed = 0 /\ documents = 0 /\ sync = 0 /\ events = 0
    /\ IF focus \in DOMAIN Meetings THEN \E m \in {focus} : C(m)!Init
       ELSE /\ time = 0 /\ keys = 0 /\ issued = 0 /\ source = 0
            /\ rows = 0 /\ acceptMu = 0 /\ calls = 0
    /\ IF focus = "catalog" THEN B!Init
       ELSE bases = 0 /\ groups = 0 /\ scope = 0 /\ requests = 0 /\ made = 0
    /\ IF focus = "application" THEN A!Init
       ELSE lock = 0 /\ applied = 0 /\ yaml = 0 /\ bundle = 0 /\ processes = 0 /\ mishaps = 0
    /\ IF focus = "extraction" THEN X!Init
       ELSE /\ file = 0 /\ options = 0 /\ parsed = 0 /\ original = 0
            /\ left = 0 /\ reading = 0 /\ runs = 0
    /\ IF focus = "chunking" THEN T!Init
       ELSE text = 0 /\ cutting = 0 /\ work = 0 /\ pieces = 0 /\ inline = 0 /\ links = 0
    /\ IF focus = "ranking" THEN R!Init ELSE search = 0
    /\ IF focus = "context" THEN K!Init ELSE context = 0
    /\ IF focus = "models" THEN M!Init
       ELSE /\ disk = 0 /\ config = 0 /\ current = 0 /\ root = 0
            /\ opMu = 0 /\ job = 0 /\ wanted = 0 /\ astray = 0

ContentNext ==
    /\ UNCHANGED focus
    /\ \/ focus = "uploads" /\ Next /\ UNCHANGED <<uVars, dVars, cVars, answers>>
       \/ focus = "captures" /\ U!Next /\ UNCHANGED <<vars, dVars, cVars, answers>>
       \/ focus = "directories" /\ D!Next /\ UNCHANGED <<vars, uVars, cVars, answers>>
       \/ /\ \E m \in DOMAIN Meetings : focus = m /\ C(m)!Next
          /\ UNCHANGED <<vars, uVars, dVars, answers>>
       \/ focus = "catalog" /\ B!Next /\ UNCHANGED <<inputs, texts, search, context, mVars>>
       \/ focus = "application" /\ A!Next /\ UNCHANGED <<inputs, bVars, xVars, tVars, search, context, mVars>>
       \/ focus = "extraction" /\ X!Next /\ UNCHANGED <<inputs, bVars, aVars, tVars, search, context, mVars>>
       \/ focus = "chunking" /\ T!Next /\ UNCHANGED <<inputs, bVars, aVars, xVars, search, context, mVars>>
       \/ focus = "ranking" /\ R!Next /\ UNCHANGED <<inputs, bVars, texts, context, mVars>>
       \/ focus = "context" /\ K!Next /\ UNCHANGED <<inputs, bVars, texts, search, mVars>>
       \/ focus = "models" /\ M!Next /\ UNCHANGED <<inputs, bVars, texts, search, context>>

ContentSpec ==
    ContentInit /\ [][ContentNext]_<<focus, vars, uVars, dVars, cVars, answers>>

ContentSymmetry == Symmetry \cup Permutations({client1, client2}) \cup Permutations({r2, r3})

\* What a command imports guards nothing but another import, and no property of the
\* run speaks of it (US_Immutable does): states that differ in it alone are one.
ContentView ==
    <<focus, storeVars, command, putVars, workVars, procVars, faults, uVars, dVars, cVars, answers>>

-----------------------------------------------------------------------------
\* Type correctness of the staged inputs.
InputsTypeOK ==
    CASE focus = "uploads" -> TypeOK
      [] focus = "captures" -> U!TypeOK
      [] focus = "directories" -> D!TypeOK
      [] focus = "application" -> A!TypeOK
      [] focus = "models" -> M!TypeOK
      [] OTHER -> TRUE

\* All attempts of an operation ingest the same bytes, which outlive every failure
\* before the publication (operations/url.go); a directory sync that succeeds mirrors
\* the disk, and one that fails forgets no file (knowledge/service_dir.go).
SourcesAreFollowed ==
    /\ focus = "captures" => U!OneCapture /\ U!CaptureKept
    /\ focus = "directories" => D!SyncedMirrorsDisk /\ D!EntriesHaveRows

\* A change of a base, a group or the scope that nobody disturbed changes what it names
\* and nothing else, and what is deleted stays deleted (knowledge/service_base.go).
CatalogIsKept == focus = "catalog" => B!CatalogIsKept

\* A request whose answer was lost is answered with the one command that was made for
\* it, and nothing that refuses new work refuses it (operations.Service.Submit).
IntakeIsIdempotent ==
    [][\A m \in DOMAIN Meetings : focus = m => C(m)!IntakeIsIdempotent]_<<focus, cVars>>

\* Search answers are of the lanes, in the order of their evidence, weak vector-only
\* evidence stays out, and no word match is lost to it (knowledge/search.go).
AnswersAreRanked == focus = "ranking" => R!AnswersAreRanked

\* A context stays in the scope of versions of the question and cites all it tells
\* (knowledge/semantic_memory.go, semantic/context.go).
ContextIsSound == focus = "context" => K!ContextIsSound

\* One process at a time owns the data directory, it leaves nothing behind, and its
\* helpers are those of the configuration it has (app/app.go, cmd/shutu-knowledge).
DirectoryIsOwned == focus = "application" => A!DirectoryIsOwned

\* The configured model cache is complete (models/manager.go, app/app.go).
ConfiguredIsComplete == focus = "models" => M!ConfiguredIsComplete

\* What a file becomes is the best text that was read, its quality is told, and its
\* pieces hold all of it, each under its headings (knowledge/service_doc.go, chunk).
TextIsSound ==
    /\ focus = "extraction" => X!TextsAreTrue
    /\ focus = "chunking" => T!PiecesAreSound

=============================================================================
