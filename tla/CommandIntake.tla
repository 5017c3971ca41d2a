--------------------------- MODULE CommandIntake ---------------------------
(***************************************************************************)
(* How a request becomes a durable command, or is answered with the one     *)
(* that exists (operations.Service.Submit, the credentials that sign a key,  *)
(* and the three doors that submit: POST /api/operations, the older routes   *)
(* of web/api.go, the tools of the extension).                              *)
(*                                                                         *)
(* A request is [door, type, base, docs, input, key]: docs are the documents *)
(* it names, input stands for all it names besides, key is a client's own    *)
(* key, a credential, or Nothing. Binding an upload, choosing priorities and  *)
(* running commands are UploadStaging and OperationQueue; here a command is   *)
(* "queued" until it ends. Rows of before migration 0016 are left out.       *)
(***************************************************************************)
EXTENDS Integers, Sequences, FiniteSets

CONSTANTS
    Client, Requests, Nothing,
    SigningKey, Credential,     \* the signing keys and credentials there may be
    Base, BaseOf, Enabled,      \* BaseOf[d] is the base of document d; Enabled: the saved scope
    Lifetime, Retention,        \* of a credential; of a finished command's key
    MaxPending, MaxAttempts,
    MaxTime, MaxVersion, MaxOperations   \* bounds of the model

VARIABLES
    time,
    keys,       \* operation_signing_keys: the state of each
    issued,     \* the claims of every credential that was signed
    source,     \* the epoch of a base, the version and generation of a document; Gone
    rows,       \* operations, in the order they were made
    acceptMu,   \* who holds it
    calls       \* what each client is doing

vars == <<time, keys, issued, source, rows, acceptMu, calls>>

Doc == DOMAIN BaseOf
Gone == -1
Unsent == [door |-> "none", type |-> "none", base |-> Nothing, docs |-> {},
           input |-> Nothing, key |-> Nothing]
NoKey == [kind |-> "none", of |-> <<>>, at |-> <<>>]
Idle == [step |-> "idle", request |-> Unsent, key |-> NoKey, answer |-> "none", op |-> 0]

-----------------------------------------------------------------------------
(* What each door asks of a command: what it must name, what is looked up     *)
(* before it is submitted, and where its key comes from.                     *)

Command(type, needs, finds, keyed) ==
    [type |-> type, needs |-> needs, finds |-> finds, keyed |-> keyed]

OperationImports ==
    {Command("import_text", {}, "none", "client"),
     Command("import_url", {}, "none", "client"),
     Command("import_file", {"input"}, "none", "client"),
     Command("import_files", {"base", "input"}, "none", "client"),
     Command("import_directory", {"base", "input"}, "none", "client"),
     Command("delete_documents", {"base", "docs"}, "none", "client")}

OperationTargets ==
    {Command(type, {"docs"}, "none", "client") :
        type \in {"delete_directory", "rescan_directory", "refresh_url"}}
    \cup {Command("restore_base", {"base"}, "none", "client"),
          Command("reindex_document", {"docs"}, "none", "client or snapshot"),
          Command("delete_base", {"base"}, "none", "client"),
          Command("reindex_base", {"base"}, "none", "client or snapshot"),
          Command("download_ocr_model", {}, "none", "client")}

OperationModels ==
    {Command(type, {"input"}, "none", "client") :
        type \in {"self_test_reranker", "download_model", "ollama_pull", "remove_model",
                  "ollama_delete"}}
    \cup {Command("remove_ocr_model", {}, "none", "client")}

OperationStorage ==
    {Command("migrate_model_cache", {"input"}, "command", "client"),
     Command("plan_model_cache_migration", {"input"}, "none", "client"),
     Command("reindex_documents", {"base", "docs"}, "none", "client or snapshot"),
     Command("maintenance_storage", {}, "none", "client")}

BaseRoutes ==
    {Command("delete_base", {}, "base", "none"),
     Command("restore_base", {}, "base", "input")}

ImportRoutes ==
    {Command("import_text", {"input"}, "base", "none"),
     Command("import_files", {"input"}, "base", "none"),
     Command("reindex_base", {}, "base", "snapshot")}

SourceRoutes ==
    {Command("import_url", {"input"}, "base", "none"),
     Command("import_directory", {"input"}, "base", "none"),
     Command("rescan_directory", {}, "docs", "none"),
     Command("refresh_url", {}, "docs", "none")}

DeleteRoutes ==
    {Command("delete_document", {}, "docs", "none"),
     Command("delete_directory", {}, "docs", "none"),
     Command("delete_documents", {"docs"}, "some docs", "none")}

ReindexRoutes ==
    {Command("reindex_documents", {"docs"}, "docs", "snapshot"),
     Command("reindex_document", {}, "docs", "snapshot")}

ModelRoutes ==
    {Command(type, {}, "none", "none") : type \in {"download_ocr_model", "self_test_reranker"}}
    \cup {Command("remove_ocr_model", {}, "none", "input"),
          Command("download_model", {"input"}, "none", "none")}

CacheRoutes ==
    {Command("remove_model", {"input"}, "none", "input"), Command("ollama_pull", {}, "none", "none")}
    \cup {Command(type, {}, "none", "input") :
            type \in {"plan_model_cache_migration", "migrate_model_cache", "ollama_delete"}}

ToolCommands ==
    {Command("delete_base", {}, "enabled base", "none"),
     Command("import_text", {"input"}, "enabled base", "none"),
     Command("delete_document", {}, "enabled docs", "none"),
     Command("import_url", {}, "enabled base", "none"),
     Command("refresh_url", {}, "enabled docs", "none")}

ToolReindexes ==
    {Command("reindex_document", {}, "enabled docs", "snapshot"),
     Command("reindex_base", {}, "enabled base", "snapshot"),
     Command("maintenance_storage", {}, "none", "none")}

Commands(door) ==
    CASE door = "operations" ->
            OperationImports \cup OperationTargets \cup OperationModels \cup OperationStorage
      [] door = "routes" ->
            BaseRoutes \cup ImportRoutes \cup SourceRoutes \cup DeleteRoutes \cup ReindexRoutes
                \cup ModelRoutes \cup CacheRoutes
      [] door = "tools" -> ToolCommands \cup ToolReindexes

CommandOf(r) == CHOOSE c \in Commands(r.door) : c.type = r.type

Named(r) ==
    {n \in {"base", "docs", "input"} :
        CASE n = "base" -> r.base # Nothing [] n = "docs" -> r.docs # {} [] OTHER -> r.input # Nothing}

\* The document a command targets; a batch has none.
Target(r) == IF r.type \in {"delete_documents", "reindex_documents"} THEN {} ELSE r.docs

\* What is stored as the command: the routes leave out the document they target.
Payload(r) ==
    [docs |-> IF r.door = "routes" /\ r.type \in {"rescan_directory", "refresh_url",
                    "delete_document", "delete_directory"} THEN {} ELSE r.docs,
     input |-> IF r.type \in {"delete_base", "reindex_base"} THEN Nothing ELSE r.input]

Lost(x) == x # Nothing /\ source[x] = Gone

\* The look-ups of a door: what it finds missing, or "".
Missing(r) ==
    LET finds == CommandOf(r).finds
        known == {d \in r.docs : ~Lost(d)}
    IN CASE finds \in {"none", "command"} -> ""
         [] finds = "base" -> IF Lost(r.base) THEN "not-found" ELSE ""
         [] finds = "enabled base" ->
                IF Lost(r.base) \/ r.base \notin Enabled THEN "not-found" ELSE ""
         [] finds = "some docs" ->
                IF known = {} THEN "nothing to delete"
                ELSE IF \E d \in known : BaseOf[d] # r.base THEN "other base" ELSE ""
         [] OTHER ->
                IF known # r.docs \/ (finds = "enabled docs" /\ \E d \in r.docs : BaseOf[d] \notin Enabled)
                THEN "not-found"
                ELSE IF \E d \in r.docs : BaseOf[d] # r.base THEN "other base" ELSE ""

\* ReindexIdempotencyKey: the base's epoch, or the identity of every document.
Snapshot(r) ==
    [kind |-> "reindex", of |-> <<r.base>>,
     at |-> [x \in (IF r.docs = {} THEN {r.base} ELSE r.docs) |-> source[x]]]

TakesSnapshot(r) ==
    \/ CommandOf(r).keyed = "snapshot"
    \/ CommandOf(r).keyed = "client or snapshot" /\ r.key = Nothing

\* The key of a request whose key is no credential; a key made of the input is made of
\* nothing else.
OwnKey(r) ==
    IF TakesSnapshot(r) THEN Snapshot(r)
    ELSE IF CommandOf(r).keyed = "input"
    THEN [kind |-> "input", of |-> <<r.type, r.base, r.input>>, at |-> <<>>]
    ELSE IF CommandOf(r).keyed = "none" \/ r.key = Nothing THEN NoKey
    ELSE [kind |-> "plain", of |-> <<r.key>>, at |-> <<>>]

\* A request that is keyed by what it is about names documents or a base there are
\* (the routes carry them in the path), unless it is refused at once.
IntakeAssumption ==
    /\ Nothing \notin Client
    /\ Retention \in Int
    /\ \A r \in Requests :
        r.door # "keys" /\ TakesSnapshot(r) /\ CommandOf(r).needs \subseteq Named(r) =>
            /\ r.docs \subseteq Doc
            /\ r.docs = {} => r.base \in Base

-----------------------------------------------------------------------------
(* Credentials.                                                             *)

Go(c, step) == calls' = [calls EXCEPT ![c].step = step]

\* An answer without a command says only why.
Answer(c, answer, op) ==
    calls' = [calls EXCEPT ![c] =
        IF op = 0 THEN [Idle EXCEPT !.step = "answered", !.answer = answer]
        ELSE [@ EXCEPT !.step = "answered", !.answer = answer, !.op = op]]

\* ensureIdempotencySigningKey reads, and creates what it did not find.
EnsureKey(c) ==
    /\ calls[c].step = "ensure"
    /\ Go(c, IF \E k \in SigningKey : keys[k] = "active" THEN "sign" ELSE "create")
    /\ UNCHANGED <<time, keys, issued, source, rows, acceptMu>>

CreateKey(c) ==
    /\ calls[c].step = "create"
    /\ \E k \in SigningKey : keys[k] = "unused" /\ keys' = [keys EXCEPT ![k] = "active"]
    /\ Go(c, "sign")
    /\ UNCHANGED <<time, issued, source, rows, acceptMu>>

\* The active key may have been revoked since.
Sign(c) ==
    LET r == calls[c].request
    IN /\ calls[c].step = "sign"
       /\ \/ /\ \A k \in SigningKey : keys[k] # "active"
             /\ Answer(c, "no key", 0) /\ UNCHANGED issued
          \/ \E k \in SigningKey :
                /\ keys[k] = "active"
                /\ issued' = [issued EXCEPT ![r.key] =
                        [by |-> k, type |-> r.type, base |-> r.base, docs |-> Target(r),
                         expires |-> time + Lifetime]]
                /\ Answer(c, "issued", 0)
       /\ UNCHANGED <<time, keys, source, rows, acceptMu>>

Unissued == [by |-> Nothing, type |-> "none", base |-> Nothing, docs |-> {}, expires |-> 0]

\* ValidateIdempotencyCredential; retained_until of a retired key is never looked at.
Validate(c) ==
    LET r == calls[c].request
        claims == issued[r.key]
    IN /\ calls[c].step = "validate"
       /\ IF keys[claims.by] = "revoked" THEN Answer(c, "invalid_credential", 0)
          ELSE IF claims.expires <= time THEN Answer(c, "operation_credential_expired", 0)
          ELSE IF <<claims.type, claims.base, claims.docs>> # <<r.type, r.base, Target(r)>>
          THEN Answer(c, "invalid_credential", 0)
          ELSE calls' = [calls EXCEPT ![c].step = "locate",
                    ![c].key = [kind |-> "opcred", of |-> <<r.key>>, at |-> <<>>]]
       /\ UNCHANGED <<time, keys, issued, source, rows, acceptMu>>

Rotate ==
    /\ \E k \in SigningKey :
        /\ keys[k] = "unused"
        /\ keys' = [j \in SigningKey |->
                IF j = k THEN "active" ELSE IF keys[j] = "active" THEN "retired" ELSE keys[j]]
    /\ UNCHANGED <<time, issued, source, rows, acceptMu, calls>>

Revoke ==
    /\ \E k \in SigningKey :
        keys[k] \in {"active", "retired"} /\ keys' = [keys EXCEPT ![k] = "revoked"]
    /\ UNCHANGED <<time, issued, source, rows, acceptMu, calls>>

-----------------------------------------------------------------------------
(* A call. A client that lost an answer sends its request again.             *)

\* The handler decodes the body and checks what it must name.
Receive(c) ==
    /\ calls[c].step \in {"idle", "answered"}
    /\ \E r \in Requests :
        /\ r.key \in Credential => (r.door = "keys") = (issued[r.key] = Unissued)
        /\ calls' = [calls EXCEPT ![c] =
                [Idle EXCEPT !.request = r,
                    !.step = IF r.door = "keys" THEN "ensure"
                             ELSE IF r.door = "operations" /\ r.key \in Credential THEN "validate"
                             ELSE "locate"]]
    /\ UNCHANGED <<time, keys, issued, source, rows, acceptMu>>

\* What the door looks up before it submits, and the key it derives. Its reads are one
\* step: a deletion between two of them is answered as one before the first.
Locate(c) ==
    LET r == calls[c].request
        command == CommandOf(r)
        key == IF calls[c].key # NoKey THEN calls[c].key ELSE OwnKey(r)
    IN /\ calls[c].step = "locate"
       /\ IF ~(command.needs \subseteq Named(r)) THEN Answer(c, "error", 0)
          ELSE IF Missing(r) # "" THEN Answer(c, Missing(r), 0)
          ELSE IF TakesSnapshot(r) /\ (Lost(r.base) \/ \E d \in r.docs : Lost(d) \/ BaseOf[d] # r.base)
          THEN Answer(c, "not-found", 0)
          ELSE calls' = [calls EXCEPT ![c].key = key,
                    ![c].step = IF command.finds = "command" THEN "early" ELSE "accept"]
       /\ UNCHANGED <<time, keys, issued, source, rows, acceptMu>>

\* The row of a key.
Known(key) == {i \in DOMAIN rows : key # NoKey /\ rows[i].key = key}

\* The answer for a request whose key is known.
Replay(r, i) ==
    IF rows[i].expires # 0 /\ rows[i].expires <= time THEN "operation_expired"
    ELSE IF \/ rows[i].type # r.type \/ rows[i].fingerprint # <<r.type, r.base, Payload(r)>>
            \/ rows[i].base # r.base \/ (Target(r) # {} /\ rows[i].docs # Target(r))
    THEN "idempotency_conflict" ELSE "accepted"

\* FindIdempotencyOperationContext, before the costly checks of a migration.
Find(c) ==
    /\ calls[c].step = "early"
    /\ IF Known(calls[c].key) = {} THEN Go(c, "accept")
       ELSE \E i \in Known(calls[c].key) :
                LET answer == Replay(calls[c].request, i)
                IN Answer(c, answer, IF answer = "accepted" THEN i ELSE 0)
    /\ UNCHANGED <<time, keys, issued, source, rows, acceptMu>>

\* mutant: the short check and insert are not serialised
AcceptUnlocked(c) ==
    /\ calls[c].step = "accept"
    /\ IF Known(calls[c].key) = {} THEN acceptMu' = c /\ Go(c, "enrich")
       ELSE /\ \E i \in Known(calls[c].key) :
                LET answer == Replay(calls[c].request, i)
                IN Answer(c, answer, IF answer = "accepted" THEN i ELSE 0)
            /\ UNCHANGED acceptMu
    /\ UNCHANGED <<time, keys, issued, source, rows>>

\* Submit: under acceptMu, the existing key wins before any admission.
Accept(c) ==
    /\ calls[c].step = "accept"
    /\ acceptMu = Nothing
    /\ IF Known(calls[c].key) = {} THEN acceptMu' = c /\ Go(c, "enrich")
       ELSE /\ \E i \in Known(calls[c].key) :
                LET answer == Replay(calls[c].request, i)
                IN Answer(c, answer, IF answer = "accepted" THEN i ELSE 0)
            /\ UNCHANGED acceptMu
    /\ UNCHANGED <<time, keys, issued, source, rows>>

Refuse(c, why) == Answer(c, why, 0) /\ acceptMu' = Nothing

\* enrichOperationRequest reads the target, then disk space and budgets are checked.
Enrich(c) ==
    LET r == calls[c].request
    IN /\ calls[c].step = "enrich"
       /\ IF Lost(r.base) \/ (\E d \in Target(r) : Lost(d)) THEN Refuse(c, "not-found")
          ELSE IF r.base # Nothing /\ \E d \in Target(r) : BaseOf[d] # r.base
          THEN Refuse(c, "other base")
          ELSE \/ \E why \in {"disk_low_water", "quota_exceeded"} : Refuse(c, why)
               \/ Go(c, "insert") /\ UNCHANGED acceptMu
       /\ UNCHANGED <<time, keys, issued, source, rows>>

Ended == {"succeeded", "failed", "cancelled"}

\* The transaction that makes the row; its key is UNIQUE.
Insert(c) ==
    LET r == calls[c].request
    IN /\ calls[c].step = "insert"
       /\ IF Cardinality({i \in DOMAIN rows : rows[i].state \notin Ended}) >= MaxPending
          THEN Refuse(c, "queue_full") /\ UNCHANGED rows
          ELSE IF Known(calls[c].key) # {} THEN Refuse(c, "constraint") /\ UNCHANGED rows
          ELSE /\ Len(rows) < MaxOperations
               /\ rows' = Append(rows, [type |-> r.type, base |-> r.base, docs |-> Target(r),
                        fingerprint |-> <<r.type, r.base, Payload(r)>>,
                        key |-> calls[c].key, state |-> "queued", retryable |-> TRUE, attempt |-> 1,
                        expires |-> 0, stored |-> TRUE, made |-> source])
               /\ Answer(c, "accepted", Len(rows) + 1)
               /\ acceptMu' = Nothing
       /\ UNCHANGED <<time, keys, issued, source>>

\* The process dies: what was in flight is lost, what was written stays.
Crash ==
    /\ \E c \in Client : calls[c].step \notin {"idle", "answered"}
    /\ calls' = [c \in Client |-> IF calls[c].step = "answered" THEN calls[c] ELSE Idle]
    /\ acceptMu' = Nothing
    /\ UNCHANGED <<time, keys, issued, source, rows>>

-----------------------------------------------------------------------------
(* What happens to commands and to what they are about.                      *)

Moved(S) == [x \in Base \cup Doc |-> IF x \in S /\ source[x] # Gone THEN source[x] + 1 ELSE source[x]]

\* finishContext: a result that cannot be kept ends in a failure nobody retries.
Finish(i) ==
    /\ rows[i].state = "queued"
    /\ \E state \in Ended, retryable \in BOOLEAN :
        /\ ~retryable => state = "failed"
        /\ rows' = [rows EXCEPT ![i].state = state, ![i].retryable = retryable,
                                ![i].expires = time + Retention]
        /\ IF state = "succeeded" /\ rows[i].type \in {"reindex_document"}
           THEN /\ source' = Moved(rows[i].docs)        \* its active generation
                /\ \A d \in rows[i].docs : source[d] < MaxVersion
           ELSE UNCHANGED source
    /\ UNCHANGED <<time, keys, issued, acceptMu, calls>>

\* RetryContext keeps the time at which the key expires.
Retry(i) ==
    /\ rows[i].state = "failed" /\ rows[i].retryable /\ rows[i].attempt < MaxAttempts
    /\ rows' = [rows EXCEPT ![i].state = "queued", ![i].attempt = @ + 1]
    /\ UNCHANGED <<time, keys, issued, source, acceptMu, calls>>

Disposable(row) ==
    /\ row.expires # 0 /\ row.expires < time
    /\ row.state \in {"succeeded", "cancelled"} \/ (row.state = "failed" /\ ~row.retryable)

\* expireTerminalOperationPayloads.
Sweep ==
    /\ \E i \in DOMAIN rows : Disposable(rows[i]) /\ rows[i].stored
    /\ rows' = [i \in DOMAIN rows |->
            IF Disposable(rows[i]) THEN [rows[i] EXCEPT !.stored = FALSE] ELSE rows[i]]
    /\ UNCHANGED <<time, keys, issued, source, acceptMu, calls>>

\* A document gets other content, or is deleted; the epoch of its base advances with it.
Change ==
    /\ \E d \in Doc :
        /\ source[d] \in 0 .. MaxVersion - 1 /\ source[BaseOf[d]] < MaxVersion
        /\ \/ source' = Moved({d, BaseOf[d]})
           \/ source' = [Moved({BaseOf[d]}) EXCEPT ![d] = Gone]
    /\ UNCHANGED <<time, keys, issued, rows, acceptMu, calls>>

Tick ==
    /\ time < MaxTime /\ time' = time + 1
    /\ UNCHANGED <<keys, issued, source, rows, acceptMu, calls>>

Init ==
    /\ time = 0
    /\ keys = [k \in SigningKey |-> "unused"]
    /\ issued = [i \in Credential |-> Unissued]
    /\ source = [x \in Base \cup Doc |-> 0]
    /\ rows = <<>>
    /\ acceptMu = Nothing
    /\ calls = [c \in Client |-> Idle]

Handle(c) ==
    \/ Receive(c) \/ EnsureKey(c) \/ CreateKey(c) \/ Sign(c) \/ Validate(c) \/ Locate(c)
    \/ Find(c) \/ Accept(c) \/ Enrich(c) \/ Insert(c)

Next ==
    \/ \E c \in Client : Handle(c)
    \/ \E i \in DOMAIN rows : Finish(i) \/ Retry(i)
    \/ Rotate \/ Revoke \/ Sweep \/ Change \/ Tick \/ Crash

-----------------------------------------------------------------------------
Accepted == {c \in Client : calls[c].step = "answered" /\ calls[c].answer = "accepted"}

\* An answer is the command that was asked for: the same kind, target and payload, under
\* the key of the request; two requests with one key get one command, and a valid
\* duplicate never sees the constraint that keeps it so (service.go:1005-1015).
OneCommandPerKey ==
    /\ \A c \in Accepted :
        LET row == rows[calls[c].op] r == calls[c].request
        IN /\ row.fingerprint = <<r.type, r.base, Payload(r)>> /\ row.key = calls[c].key
           /\ Target(r) \subseteq row.docs
    /\ \A c, d \in Accepted :
        calls[c].key = calls[d].key /\ calls[c].key # NoKey => calls[c].op = calls[d].op
    /\ \A c \in Client : calls[c].answer # "constraint"

\* A reindex is never answered with one that was asked of an older source
\* (ReindexIdempotencyKey).
ReindexIsOfNow ==
    \A c \in Accepted :
        calls[c].key.kind = "reindex" =>
            \A x \in DOMAIN calls[c].key.at :
                LET made == rows[calls[c].op].made[x] IN made = Gone \/ made >= calls[c].key.at[x]

\* What may still run keeps its command, however late (service.go:810-814).
InputsAreKept ==
    \A i \in DOMAIN rows :
        rows[i].state = "queued" \/ (rows[i].state = "failed" /\ rows[i].retryable) => rows[i].stored

\* Lost answers are recovered: what refuses new work never refuses a known key, which
\* stays known for ever (service.go:1013-1015, operations.go:1465-1468).
KnownIsNeverRefused ==
    /\ \A c \in Client :
        calls[c].step = "enrich" /\ calls'[c].step = "answered" => Known(calls[c].key) = {}
    /\ \A i \in DOMAIN rows :
        i \in DOMAIN rows' /\ rows'[i].key = rows[i].key /\ rows'[i].fingerprint = rows[i].fingerprint

\* All of them, of a step and the state after it.
IntakeIsIdempotent == OneCommandPerKey' /\ ReindexIsOfNow' /\ InputsAreKept' /\ KnownIsNeverRefused

=============================================================================
