------------------------- MODULE CommandIntakeProofs -------------------------
(***************************************************************************)
(* Theorems about CommandIntake, for any clients, requests, keys and times: *)
(* a request that is sent again gets the one command that was made for it.  *)
(* The second part is about UrlCapture, which does for the content of a     *)
(* command what the intake does for the command: later attempts get what    *)
(* the first one found.                                                     *)
(***************************************************************************)
EXTENDS CommandIntake, FiniteSetTheorems, TLAPS

Steps == {"idle", "ensure", "create", "sign", "validate", "locate", "early", "accept", "enrich",
          "insert", "answered"}
Refusals == {"no key", "invalid_credential", "operation_credential_expired", "error", "not-found",
             "nothing to delete", "other base", "operation_expired", "idempotency_conflict",
             "disk_low_water", "quota_exceeded", "queue_full", "constraint", "issued"}
Answers == Refusals \cup {"none", "accepted"}

Source == [Base \cup Doc -> Int]
Keys == [kind : {"none", "plain", "input", "reindex", "opcred"},
         of : {<<>>} \cup {<<r.base>> : r \in Requests} \cup {<<r.key>> : r \in Requests}
              \cup {<<r.type, r.base, r.input>> : r \in Requests},
         at : {<<>>} \cup UNION {[X -> Int] : X \in SUBSET (Base \cup Doc)}]

Row == [type : {r.type : r \in Requests}, base : {r.base : r \in Requests},
        docs : {Target(r) : r \in Requests},
        fingerprint : {<<r.type, r.base, Payload(r)>> : r \in Requests},
        key : Keys, state : {"queued"} \cup Ended, retryable : BOOLEAN, attempt : Nat,
        expires : Int, stored : BOOLEAN, made : Source]

CallSet == [step : Steps, request : Requests \cup {Unsent}, key : Keys, answer : Answers, op : Nat]

Typed ==
    /\ time \in Nat /\ source \in Source /\ rows \in Seq(Row)
    /\ acceptMu \in Client \cup {Nothing} /\ calls \in [Client -> CallSet]

-----------------------------------------------------------------------------
(* What is true of one call, ...                                            *)

\* Whoever is at work has a request, and only a command is looked up.
Working(call) ==
    /\ call.step \notin {"idle", "answered"} => call.request \in Requests
    /\ call.step \in {"validate", "locate"} => call.request.door # "keys"

\* Between its look at the rows and its own row a call holds acceptMu, and its key
\* stays unknown.
IsNew(key, made) == {i \in DOMAIN made : key # NoKey /\ made[i].key = key} = {}
Serial(c, call, mutex, made) ==
    call.step \in {"enrich", "insert"} => mutex = c /\ IsNew(call.key, made)

\* The command it is answered with is the one it asked for.
IsOf(row, call) ==
    /\ row.fingerprint = <<call.request.type, call.request.base, Payload(call.request)>>
    /\ row.key = call.key /\ Target(call.request) \subseteq row.docs

Served(call, made) ==
    call.step = "answered" /\ call.answer = "accepted" =>
        call.op \in DOMAIN made /\ IsOf(made[call.op], call)

\* A source that only moves on, and the sources that a key was made of.
Later(from, to) ==
    \A x \in Base \cup Doc : to[x] = Gone \/ (from[x] # Gone /\ to[x] >= from[x])
OfNow(key, now) ==
    key.kind = "reindex" => \A x \in DOMAIN key.at :
        x \in Base \cup Doc /\ key.at[x] \in Int /\ (now[x] = Gone \/ now[x] >= key.at[x])

Sound(c, call, mutex, made, now) ==
    /\ Working(call) /\ Serial(c, call, mutex, made) /\ Served(call, made) /\ OfNow(call.key, now)
    /\ call.answer # "constraint"

(* ... and of the rows.                                                     *)
KeysAreUnique == \A i, j \in DOMAIN rows : rows[i].key = rows[j].key /\ rows[i].key # NoKey => i = j
RowsAreOfNow == \A i \in DOMAIN rows : OfNow(rows[i].key, rows[i].made)

IntakeInv ==
    /\ Typed /\ KeysAreUnique /\ RowsAreOfNow /\ InputsAreKept
    /\ \A c \in Client : Sound(c, calls[c], acceptMu, rows, source)

-----------------------------------------------------------------------------
(* Types.                                                                   *)

LEMMA NoKeyTyped == NoKey \in Keys
  BY DEF NoKey, Keys

LEMMA IdleTyped == Idle \in CallSet
  BY NoKeyTyped DEF Idle, CallSet, Steps, Answers

\* An answer changes the call of its client only.
LEMMA AnswerGives ==
    ASSUME Typed, NEW c \in Client, NEW answer \in Answers, NEW n \in Nat, Answer(c, answer, n)
    PROVE  /\ calls' \in [Client -> CallSet]
           /\ \A d \in Client \ {c} : calls'[d] = calls[d]
           /\ calls'[c].step = "answered" /\ calls'[c].answer = answer
           /\ n = 0 => calls'[c].key = NoKey
           /\ n # 0 => /\ calls'[c].op = n /\ calls'[c].key = calls[c].key
                       /\ calls'[c].request = calls[c].request
  <1> DEFINE a == [Idle EXCEPT !.step = "answered", !.answer = answer]
             b == [calls[c] EXCEPT !.step = "answered", !.answer = answer, !.op = n]
  <1>1. a \in CallSet /\ a.step = "answered" /\ a.answer = answer /\ a.key = NoKey
    BY NoKeyTyped DEF Idle, CallSet, Steps
  <1>2. /\ b \in CallSet /\ b.step = "answered" /\ b.answer = answer /\ b.op = n
        /\ b.key = calls[c].key /\ b.request = calls[c].request
    BY DEF Typed, CallSet, Steps
  <1>3. calls' = [calls EXCEPT ![c] = IF n = 0 THEN a ELSE b]
    BY DEF Answer
  <1> HIDE DEF a, b
  <1>4. CASE n = 0
    BY <1>1, <1>3, <1>4 DEF Typed
  <1>5. CASE n # 0
    BY <1>2, <1>3, <1>5 DEF Typed
  <1>6. QED
    BY <1>4, <1>5

\* So does a step onwards.
LEMMA GoGives ==
    ASSUME Typed, NEW c \in Client, NEW step \in Steps, Go(c, step)
    PROVE  /\ calls' \in [Client -> CallSet]
           /\ \A d \in Client \ {c} : calls'[d] = calls[d]
           /\ calls'[c].step = step /\ calls'[c].answer = calls[c].answer
           /\ calls'[c].op = calls[c].op /\ calls'[c].key = calls[c].key
           /\ calls'[c].request = calls[c].request
  <1> DEFINE b == [calls[c] EXCEPT !.step = step]
  <1>1. /\ b \in CallSet /\ b.step = step /\ b.answer = calls[c].answer /\ b.op = calls[c].op
        /\ b.key = calls[c].key /\ b.request = calls[c].request
    BY DEF Typed, CallSet
  <1>2. calls' = [calls EXCEPT ![c] = b]
    BY DEF Go
  <1> HIDE DEF b
  <1>3. QED
    BY <1>1, <1>2 DEF Typed

-----------------------------------------------------------------------------
(* What a step leaves to the others.                                        *)

\* Rows stay, with all that a request is compared with.
Persist(old, new) ==
    \A i \in DOMAIN old :
        /\ i \in DOMAIN new /\ new[i].key = old[i].key /\ new[i].docs = old[i].docs
        /\ new[i].fingerprint = old[i].fingerprint /\ new[i].made = old[i].made

\* A source that moves on keeps what is of now.
LEMMA OfNowStays ==
    ASSUME NEW key, NEW from \in Source, NEW to \in Source, OfNow(key, from), Later(from, to)
    PROVE  OfNow(key, to)
  <1> SUFFICES ASSUME key.kind = "reindex", NEW x \in DOMAIN key.at
               PROVE  x \in Base \cup Doc /\ key.at[x] \in Int /\ (to[x] = Gone \/ to[x] >= key.at[x])
    BY DEF OfNow
  <1>1. x \in Base \cup Doc /\ key.at[x] \in Int /\ (from[x] = Gone \/ from[x] >= key.at[x])
    BY DEF OfNow
  <1>2. to[x] = Gone \/ (from[x] # Gone /\ to[x] >= from[x])
    BY <1>1 DEF Later
  <1>3. from[x] \in Int /\ to[x] \in Int
    BY <1>1 DEF Source
  <1>4. QED
    BY <1>1, <1>2, <1>3

LEMMA LaterSame == ASSUME NEW now \in Source PROVE Later(now, now)
  BY DEF Later, Source

LEMMA PersistSame == ASSUME NEW made PROVE Persist(made, made)
  BY DEF Persist

\* A call that does not move stays sound when rows stay, the source moves on, and
\* nobody took the mutex from it or made a row of its key.
LEMMA CallStays ==
    ASSUME NEW c, NEW call, NEW mutex, NEW mutexNext, NEW old, NEW new,
           NEW from \in Source, NEW to \in Source,
           Sound(c, call, mutex, old, from), Persist(old, new), Later(from, to),
           call.step \in {"enrich", "insert"} => mutexNext = mutex /\ IsNew(call.key, new)
    PROVE  Sound(c, call, mutexNext, new, to)
  <1>1. Serial(c, call, mutexNext, new)
    BY DEF Sound, Serial
  <1>2. Served(call, new)
    BY DEF Sound, Served, IsOf, Persist
  <1>3. OfNow(call.key, to)
    BY OfNowStays DEF Sound
  <1>4. QED
    BY <1>1, <1>2, <1>3 DEF Sound

\* A step of c that touches neither rows nor source.
LEMMA OwnStep ==
    ASSUME IntakeAssumption, IntakeInv, NEW c \in Client, UNCHANGED <<time, source, rows>>,
           calls' \in [Client -> CallSet], \A d \in Client \ {c} : calls'[d] = calls[d],
           \/ acceptMu' = acceptMu
           \/ acceptMu \in {c, Nothing} /\ acceptMu' \in {c, Nothing},
           Sound(c, calls'[c], acceptMu', rows, source)
    PROVE  IntakeInv'
  <1>1. Typed'
    BY DEF IntakeInv, Typed
  <1>2. KeysAreUnique' /\ RowsAreOfNow' /\ InputsAreKept'
    BY DEF IntakeInv, KeysAreUnique, RowsAreOfNow, InputsAreKept
  <1>3. ASSUME NEW d \in Client \ {c} PROVE Sound(d, calls[d], acceptMu', rows, source)
    <2>1. Sound(d, calls[d], acceptMu, rows, source)
      BY DEF IntakeInv
    <2>2. calls[d].step \in {"enrich", "insert"} => acceptMu = d /\ IsNew(calls[d].key, rows)
      BY <2>1 DEF Sound, Serial
    <2>3. calls[d].step \in {"enrich", "insert"} => acceptMu' = acceptMu
      BY <2>2 DEF IntakeAssumption
    <2>4. source \in Source
      BY DEF IntakeInv, Typed
    <2>5. QED
      BY <2>1, <2>2, <2>3, <2>4, LaterSame, PersistSame, CallStays
  <1>4. \A d \in Client : Sound(d, calls'[d], acceptMu', rows, source)
    BY <1>3
  <1>5. (\A d \in Client : Sound(d, calls[d], acceptMu, rows, source))'
    BY <1>4
  <1>6. QED
    BY <1>1, <1>2, <1>5 DEF IntakeInv

-----------------------------------------------------------------------------
(* Steps of a call that make no row.                                        *)

\* The answer of a call that gets no command.
LEMMA RefusalSound ==
    ASSUME IntakeAssumption, IntakeInv, NEW c \in Client, NEW why \in Refusals \ {"constraint"},
           Answer(c, why, 0), UNCHANGED <<time, source, rows>>,
           \/ acceptMu' = acceptMu
           \/ acceptMu \in {c, Nothing} /\ acceptMu' \in {c, Nothing}
    PROVE  IntakeInv'
  <1>1. Typed /\ why \in Answers
    BY DEF IntakeInv, Answers
  <1>2. /\ calls' \in [Client -> CallSet] /\ \A d \in Client \ {c} : calls'[d] = calls[d]
        /\ calls'[c].step = "answered" /\ calls'[c].answer = why /\ calls'[c].key = NoKey
    BY <1>1, AnswerGives
  <1>3. why # "accepted" /\ why # "constraint"
    BY DEF Refusals
  <1>4. Sound(c, calls'[c], acceptMu', rows, source)
    BY <1>2, <1>3 DEF Sound, Working, Serial, Served, OfNow, NoKey
  <1>5. QED
    BY <1>2, <1>4, OwnStep

\* The answer of a call whose key is known.
LEMMA ReplaySound ==
    ASSUME IntakeAssumption, IntakeInv, NEW c \in Client, NEW i \in Known(calls[c].key),
           Answer(c, Replay(calls[c].request, i),
                  IF Replay(calls[c].request, i) = "accepted" THEN i ELSE 0),
           UNCHANGED <<time, source, rows, acceptMu>>
    PROVE  IntakeInv'
  <1> DEFINE answer == Replay(calls[c].request, i)
  <1>1. i \in DOMAIN rows /\ rows[i].key = calls[c].key /\ i \in Nat /\ i # 0
    BY DEF Known, IntakeInv, Typed
  <1>2. answer \in {"operation_expired", "idempotency_conflict", "accepted"}
    BY DEF Replay
  <1>3. CASE answer # "accepted"
    <2>1. Answer(c, answer, 0) /\ answer \in Refusals \ {"constraint"}
      BY <1>2, <1>3 DEF Refusals
    <2> HIDE DEF answer
    <2>2. QED
      BY <2>1, RefusalSound
  <1>4. CASE answer = "accepted"
    <2>1. Answer(c, "accepted", i) /\ "accepted" \in Answers /\ Typed
      BY <1>4 DEF Answers, IntakeInv
    <2>2. /\ calls' \in [Client -> CallSet] /\ \A d \in Client \ {c} : calls'[d] = calls[d]
          /\ calls'[c].step = "answered" /\ calls'[c].answer = "accepted" /\ calls'[c].op = i
          /\ calls'[c].key = calls[c].key /\ calls'[c].request = calls[c].request
      BY <1>1, <2>1, AnswerGives
    <2>3. IsOf(rows[i], calls[c])
      BY <1>1, <1>4 DEF Replay, IsOf
    <2>4. IsOf(rows[i], calls'[c])
      BY <2>2, <2>3 DEF IsOf
    <2>5. OfNow(calls'[c].key, source)
      BY <2>2 DEF IntakeInv, Sound
    <2>6. Sound(c, calls'[c], acceptMu', rows, source)
      BY <1>1, <2>2, <2>4, <2>5 DEF Sound, Working, Serial, Served
    <2>7. QED
      BY <2>2, <2>6, OwnStep
  <1>5. QED
    BY <1>3, <1>4

\* A step onwards. Only Accept and Enrich lead to where the mutex is held.
LEMMA OnwardSound ==
    ASSUME IntakeAssumption, IntakeInv, NEW c \in Client, NEW step \in Steps \ {"answered", "validate", "locate"},
           Go(c, step), calls[c].step \notin {"idle", "answered"}, UNCHANGED <<time, source, rows>>,
           \/ acceptMu' = acceptMu
           \/ acceptMu \in {c, Nothing} /\ acceptMu' \in {c, Nothing},
           step \in {"enrich", "insert"} => acceptMu' = c /\ IsNew(calls[c].key, rows)
    PROVE  IntakeInv'
  <1>1. /\ calls' \in [Client -> CallSet] /\ \A d \in Client \ {c} : calls'[d] = calls[d]
        /\ calls'[c].step = step /\ calls'[c].answer = calls[c].answer
        /\ calls'[c].key = calls[c].key /\ calls'[c].request = calls[c].request
    BY GoGives DEF IntakeInv
  <1>2. Sound(c, calls[c], acceptMu, rows, source)
    BY DEF IntakeInv
  <1>3. Working(calls'[c])
    BY <1>1, <1>2 DEF Sound, Working
  <1>4. Serial(c, calls'[c], acceptMu', rows)
    BY <1>1 DEF Serial
  <1>5. Served(calls'[c], rows) /\ OfNow(calls'[c].key, source) /\ calls'[c].answer # "constraint"
    BY <1>1, <1>2 DEF Sound, Served
  <1>6. Sound(c, calls'[c], acceptMu', rows, source)
    BY <1>3, <1>4, <1>5 DEF Sound
  <1>7. QED
    BY <1>1, <1>6, OwnStep

LEMMA SigningSound ==
    ASSUME IntakeAssumption, IntakeInv, NEW c \in Client, EnsureKey(c) \/ CreateKey(c) \/ Sign(c)
    PROVE  IntakeInv'
  <1>1. CASE EnsureKey(c) \/ CreateKey(c)
    <2>1. PICK step \in {"sign", "create"} : Go(c, step)
      BY <1>1 DEF EnsureKey, CreateKey
    <2>2. calls[c].step \notin {"idle", "answered"} /\ UNCHANGED <<time, source, rows, acceptMu>>
      BY <1>1 DEF EnsureKey, CreateKey
    <2>3. step \in Steps \ {"answered", "validate", "locate"} /\ step \notin {"enrich", "insert"}
      BY <2>1 DEF Steps
    <2>4. QED
      BY <2>1, <2>2, <2>3, OnwardSound
  <1>2. CASE Sign(c)
    <2>1. PICK why \in {"no key", "issued"} : Answer(c, why, 0)
      BY <1>2 DEF Sign
    <2>2. UNCHANGED <<time, source, rows, acceptMu>> /\ why \in Refusals \ {"constraint"}
      BY <1>2, <2>1 DEF Sign, Refusals
    <2>3. QED
      BY <2>1, <2>2, RefusalSound
  <1>3. QED
    BY <1>1, <1>2

\* A new request, with nothing of the last one.
LEMMA ReceiveSound ==
    ASSUME IntakeAssumption, IntakeInv, NEW c \in Client, Receive(c)
    PROVE  IntakeInv'
  <1>1. PICK r \in Requests :
          calls' = [calls EXCEPT ![c] =
                [Idle EXCEPT !.request = r,
                    !.step = IF r.door = "keys" THEN "ensure"
                             ELSE IF r.door = "operations" /\ r.key \in Credential THEN "validate"
                             ELSE "locate"]]
    BY DEF Receive
  <1> DEFINE step == IF r.door = "keys" THEN "ensure"
                     ELSE IF r.door = "operations" /\ r.key \in Credential THEN "validate"
                     ELSE "locate"
             call == [Idle EXCEPT !.request = r, !.step = step]
  <1>2. step \in {"ensure", "validate", "locate"} /\ (step # "ensure" => r.door # "keys")
    OBVIOUS
  <1> HIDE DEF step
  <1>3. /\ call \in CallSet /\ call.request = r /\ call.step = step /\ call.key = NoKey
        /\ call.answer = "none"
    BY <1>2, NoKeyTyped DEF CallSet, Idle, Steps, Answers
  <1>4. calls' = [calls EXCEPT ![c] = call]
    BY <1>1 DEF step
  <1> HIDE DEF call
  <1>5. /\ calls' \in [Client -> CallSet] /\ calls'[c] = call
        /\ \A d \in Client \ {c} : calls'[d] = calls[d]
    BY <1>3, <1>4 DEF IntakeInv, Typed
  <1>6. UNCHANGED <<time, source, rows, acceptMu>>
    BY DEF Receive
  <1>7. Sound(c, call, acceptMu', rows, source)
    BY <1>2, <1>3 DEF Sound, Working, Serial, Served, OfNow, NoKey
  <1>8. QED
    BY <1>5, <1>6, <1>7, OwnStep

LEMMA ValidateSound ==
    ASSUME IntakeAssumption, IntakeInv, NEW c \in Client, Validate(c)
    PROVE  IntakeInv'
  <1>1. UNCHANGED <<time, source, rows, acceptMu>> /\ calls[c].step = "validate"
    BY DEF Validate
  <1>2. CASE \E why \in {"invalid_credential", "operation_credential_expired"} : Answer(c, why, 0)
    <2>1. \A why \in {"invalid_credential", "operation_credential_expired"} :
            why \in Refusals \ {"constraint"}
      BY DEF Refusals
    <2>2. QED
      BY <1>1, <1>2, <2>1, RefusalSound
  <1>3. CASE calls' = [calls EXCEPT ![c].step = "locate",
                    ![c].key = [kind |-> "opcred", of |-> <<calls[c].request.key>>, at |-> <<>>]]
    <2> DEFINE key == [kind |-> "opcred", of |-> <<calls[c].request.key>>, at |-> <<>>]
               call == [calls[c] EXCEPT !.step = "locate", !.key = key]
    <2>1. Working(calls[c]) /\ Served(calls[c], rows) /\ calls[c].answer # "constraint"
      BY DEF IntakeInv, Sound
    <2>2. calls[c].request \in Requests /\ calls[c].request.door # "keys"
      BY <1>1, <2>1 DEF Working
    <2>3. key \in Keys /\ key.kind = "opcred"
      BY <2>2 DEF Keys
    <2> HIDE DEF key
    <2>4. /\ call \in CallSet /\ call.step = "locate" /\ call.key = key
          /\ call.request = calls[c].request /\ call.answer = calls[c].answer
      BY <2>3 DEF IntakeInv, Typed, CallSet, Steps
    <2>5. calls' = [calls EXCEPT ![c] = call]
      BY <1>3 DEF key, IntakeInv, Typed
    <2> HIDE DEF call
    <2>6. /\ calls' \in [Client -> CallSet] /\ calls'[c] = call
          /\ \A d \in Client \ {c} : calls'[d] = calls[d]
      BY <2>4, <2>5 DEF IntakeInv, Typed
    <2>7. Sound(c, call, acceptMu', rows, source)
      BY <2>1, <2>2, <2>3, <2>4 DEF Sound, Working, Serial, Served, OfNow
    <2>8. QED
      BY <1>1, <2>6, <2>7, OwnStep
  <1>4. QED
    BY <1>2, <1>3 DEF Validate

\* A snapshot is of the sources as they are.
LEMMA SnapshotOfNow ==
    ASSUME NEW now \in Source, now = source, NEW r \in Requests,
           r.docs \subseteq Doc, r.docs = {} => r.base \in Base
    PROVE  Snapshot(r) \in Keys /\ OfNow(Snapshot(r), now)
  <1> DEFINE X == IF r.docs = {} THEN {r.base} ELSE r.docs
             at == [x \in X |-> source[x]]
  <1>1. X \in SUBSET (Base \cup Doc)
    OBVIOUS
  <1> HIDE DEF X
  <1>2. at \in [X -> Int] /\ \A x \in X : at[x] = now[x] /\ now[x] \in Int
    BY <1>1 DEF Source
  <1>3. Snapshot(r) = [kind |-> "reindex", of |-> <<r.base>>, at |-> at]
    BY DEF Snapshot, X
  <1> HIDE DEF at
  <1>4. at \in UNION {[Y -> Int] : Y \in SUBSET (Base \cup Doc)}
    BY <1>1, <1>2
  <1>5. Snapshot(r) \in Keys
    BY <1>3, <1>4 DEF Keys
  <1>6. DOMAIN at = X
    BY <1>2
  <1>7. OfNow(Snapshot(r), now)
    BY <1>1, <1>2, <1>3, <1>6 DEF OfNow
  <1>8. QED
    BY <1>5, <1>7

LEMMA OwnKeyTyped ==
    ASSUME IntakeAssumption, NEW now \in Source, now = source, NEW r \in Requests, r.door # "keys",
           CommandOf(r).needs \subseteq Named(r)
    PROVE  OwnKey(r) \in Keys /\ OfNow(OwnKey(r), now)
  <1>1. CASE TakesSnapshot(r)
    <2>1. r.docs \subseteq Doc /\ (r.docs = {} => r.base \in Base)
      BY <1>1 DEF IntakeAssumption
    <2>2. OwnKey(r) = Snapshot(r)
      BY <1>1 DEF OwnKey
    <2>3. QED
      BY <2>1, <2>2, SnapshotOfNow
  <1>2. CASE ~TakesSnapshot(r)
    <2>1. OwnKey(r) \in {[kind |-> "input", of |-> <<r.type, r.base, r.input>>, at |-> <<>>],
                         NoKey, [kind |-> "plain", of |-> <<r.key>>, at |-> <<>>]}
      BY <1>2 DEF OwnKey
    <2>2. /\ [kind |-> "input", of |-> <<r.type, r.base, r.input>>, at |-> <<>>] \in Keys
          /\ [kind |-> "plain", of |-> <<r.key>>, at |-> <<>>] \in Keys
      BY DEF Keys
    <2>3. QED
      BY <2>1, <2>2, NoKeyTyped DEF OfNow, NoKey
  <1>3. QED
    BY <1>1, <1>2

LEMMA LocateSound ==
    ASSUME IntakeAssumption, IntakeInv, NEW c \in Client, Locate(c)
    PROVE  IntakeInv'
  <1> DEFINE r == calls[c].request
             key == IF calls[c].key # NoKey THEN calls[c].key ELSE OwnKey(r)
  <1>1. UNCHANGED <<time, source, rows, acceptMu>> /\ calls[c].step = "locate"
    BY DEF Locate
  <1>2. /\ Working(calls[c]) /\ Served(calls[c], rows) /\ calls[c].answer # "constraint"
        /\ OfNow(calls[c].key, source) /\ source \in Source
    BY DEF IntakeInv, Sound, Typed
  <1>3. r \in Requests /\ r.door # "keys"
    BY <1>1, <1>2 DEF Working
  <1>4. CASE \E why \in {"error", "not-found", "nothing to delete", "other base"} : Answer(c, why, 0)
    <2>1. \A why \in {"error", "not-found", "nothing to delete", "other base"} :
            why \in Refusals \ {"constraint"}
      BY DEF Refusals
    <2>2. QED
      BY <1>1, <1>4, <2>1, RefusalSound
  <1>5. ASSUME CommandOf(r).needs \subseteq Named(r), NEW step \in {"early", "accept"},
               calls' = [calls EXCEPT ![c].key = key, ![c].step = step]
        PROVE  IntakeInv'
    <2>1. OwnKey(r) \in Keys /\ OfNow(OwnKey(r), source)
      BY <1>2, <1>3, <1>5, OwnKeyTyped
    <2>2. key \in Keys /\ OfNow(key, source)
      BY <1>2, <2>1 DEF IntakeInv, Typed, CallSet
    <2> HIDE DEF key
    <2> DEFINE call == [calls[c] EXCEPT !.key = key, !.step = step]
    <2>4. /\ call \in CallSet /\ call.step = step /\ call.key = key
          /\ call.request = r /\ call.answer = calls[c].answer
      BY <2>2 DEF IntakeInv, Typed, CallSet, Steps
    <2>5. calls' = [calls EXCEPT ![c] = call]
      BY <1>5 DEF IntakeInv, Typed
    <2> HIDE DEF call
    <2>6. /\ calls' \in [Client -> CallSet] /\ calls'[c] = call
          /\ \A d \in Client \ {c} : calls'[d] = calls[d]
      BY <2>4, <2>5 DEF IntakeInv, Typed
    <2>7. Sound(c, call, acceptMu', rows, source)
      BY <1>2, <1>3, <2>2, <2>4 DEF Sound, Working, Serial, Served
    <2>8. QED
      BY <1>1, <2>6, <2>7, OwnStep
  <1>6. Missing(r) \in {"", "not-found", "nothing to delete", "other base"}
    BY DEF Missing
  <1>7. \/ Answer(c, "error", 0) \/ Answer(c, "not-found", 0)
        \/ Missing(r) # "" /\ Answer(c, Missing(r), 0)
        \/ /\ CommandOf(r).needs \subseteq Named(r)
           /\ \E step \in {"early", "accept"} : calls' = [calls EXCEPT ![c].key = key, ![c].step = step]
    BY DEF Locate
  <1>8. QED
    BY <1>4, <1>5, <1>6, <1>7

LEMMA FindSound ==
    ASSUME IntakeAssumption, IntakeInv, NEW c \in Client, Find(c)
    PROVE  IntakeInv'
  <1>1. UNCHANGED <<time, source, rows, acceptMu>> /\ calls[c].step = "early"
    BY DEF Find
  <1>2. CASE Known(calls[c].key) = {}
    <2>1. Go(c, "accept") /\ "accept" \in Steps \ {"answered", "validate", "locate"}
      BY <1>2 DEF Find, Steps
    <2>2. QED
      BY <1>1, <2>1, OnwardSound
  <1>3. CASE Known(calls[c].key) # {}
    <2>1. PICK i \in Known(calls[c].key) :
            Answer(c, Replay(calls[c].request, i),
                   IF Replay(calls[c].request, i) = "accepted" THEN i ELSE 0)
      BY <1>3 DEF Find
    <2>2. QED
      BY <1>1, <2>1, ReplaySound
  <1>4. QED
    BY <1>2, <1>3

\* The look at the rows that counts: the mutex is taken when the key is not known.
LEMMA AcceptSound ==
    ASSUME IntakeAssumption, IntakeInv, NEW c \in Client, Accept(c)
    PROVE  IntakeInv'
  <1>1. UNCHANGED <<time, source, rows>> /\ calls[c].step = "accept" /\ acceptMu = Nothing
    BY DEF Accept
  <1>2. CASE Known(calls[c].key) = {}
    <2>1. Go(c, "enrich") /\ acceptMu' = c /\ "enrich" \in Steps \ {"answered", "validate", "locate"}
      BY <1>2 DEF Accept, Steps
    <2>2. IsNew(calls[c].key, rows)
      BY <1>2 DEF Known, IsNew
    <2>3. QED
      BY <1>1, <2>1, <2>2, OnwardSound
  <1>3. CASE Known(calls[c].key) # {}
    <2>1. PICK i \in Known(calls[c].key) :
            Answer(c, Replay(calls[c].request, i),
                   IF Replay(calls[c].request, i) = "accepted" THEN i ELSE 0)
      BY <1>3 DEF Accept
    <2>2. acceptMu' = acceptMu
      BY <1>3 DEF Accept
    <2>3. QED
      BY <1>1, <2>1, <2>2, ReplaySound
  <1>4. QED
    BY <1>2, <1>3

\* What is refused under the mutex gives it back.
LEMMA RefuseSound ==
    ASSUME IntakeAssumption, IntakeInv, NEW c \in Client, NEW why \in Refusals \ {"constraint"},
           calls[c].step \in {"enrich", "insert"}, Refuse(c, why), UNCHANGED <<time, source, rows>>
    PROVE  IntakeInv'
  <1>1. acceptMu = c
    BY DEF IntakeInv, Sound, Serial
  <1>2. Answer(c, why, 0) /\ acceptMu' = Nothing
    BY DEF Refuse
  <1>3. QED
    BY <1>1, <1>2, RefusalSound

LEMMA EnrichSound ==
    ASSUME IntakeAssumption, IntakeInv, NEW c \in Client, Enrich(c)
    PROVE  IntakeInv'
  <1>1. UNCHANGED <<time, source, rows>> /\ calls[c].step = "enrich"
    BY DEF Enrich
  <1>2. CASE \E why \in {"not-found", "other base", "disk_low_water", "quota_exceeded"} : Refuse(c, why)
    <2>1. \A why \in {"not-found", "other base", "disk_low_water", "quota_exceeded"} :
            why \in Refusals \ {"constraint"}
      BY DEF Refusals
    <2>2. QED
      BY <1>1, <1>2, <2>1, RefuseSound
  <1>3. CASE Go(c, "insert") /\ UNCHANGED acceptMu
    <2>1. acceptMu = c /\ IsNew(calls[c].key, rows)
      BY <1>1 DEF IntakeInv, Sound, Serial
    <2>2. "insert" \in Steps \ {"answered", "validate", "locate"}
      BY DEF Steps
    <2>3. QED
      BY <1>1, <1>3, <2>1, <2>2, OnwardSound
  <1>4. QED
    BY <1>2, <1>3 DEF Enrich

-----------------------------------------------------------------------------
(* The row of a call.                                                       *)

LEMMA InsertSound ==
    ASSUME IntakeAssumption, IntakeInv, NEW c \in Client, Insert(c)
    PROVE  IntakeInv'
  <1> DEFINE r == calls[c].request
             new == [type |-> r.type, base |-> r.base, docs |-> Target(r),
                     fingerprint |-> <<r.type, r.base, Payload(r)>>,
                     key |-> calls[c].key, state |-> "queued", retryable |-> TRUE, attempt |-> 1,
                     expires |-> 0, stored |-> TRUE, made |-> source]
             n == Len(rows) + 1
  <1>1. /\ UNCHANGED <<time, keys, issued, source>> /\ calls[c].step = "insert"
        /\ Sound(c, calls[c], acceptMu, rows, source)
    BY DEF Insert, IntakeInv
  <1>2. acceptMu = c /\ IsNew(calls[c].key, rows) /\ r \in Requests
    BY <1>1 DEF Sound, Serial, Working
  <1>3. Known(calls[c].key) = {}
    BY <1>2 DEF IsNew, Known
  <1>4. CASE Refuse(c, "queue_full") /\ UNCHANGED rows
    <2>1. "queue_full" \in Refusals \ {"constraint"}
      BY DEF Refusals
    <2>2. QED
      BY <1>1, <1>4, <2>1, RefuseSound
  <1>5. CASE rows' = Append(rows, new) /\ Answer(c, "accepted", n) /\ acceptMu' = Nothing
    <2>1. Typed /\ rows \in Seq(Row) /\ source \in Source /\ calls[c].key \in Keys
      BY DEF IntakeInv, Typed, CallSet
    <2>2. /\ new \in Row /\ new.key = calls[c].key /\ new.docs = Target(r) /\ new.made = source
          /\ new.fingerprint = <<r.type, r.base, Payload(r)>> /\ new.stored
      <3>1. /\ r.type \in {q.type : q \in Requests} /\ r.base \in {q.base : q \in Requests}
            /\ Target(r) \in {Target(q) : q \in Requests}
            /\ <<r.type, r.base, Payload(r)>> \in {<<q.type, q.base, Payload(q)>> : q \in Requests}
        BY <1>2
      <3>2. new \in Row
        BY <2>1, <3>1 DEF Row
      <3>3. QED
        BY <3>2
    <2> HIDE DEF new
    <2>3. /\ rows' \in Seq(Row) /\ n \in Nat /\ n # 0 /\ n \notin DOMAIN rows
          /\ DOMAIN rows' = DOMAIN rows \cup {n}
          /\ rows'[n] = new /\ \A i \in DOMAIN rows : rows'[i] = rows[i]
      <3>1. rows' = Append(rows, new) /\ new \in Row
        BY <1>5, <2>2
      <3>2. DOMAIN rows = 1 .. Len(rows) /\ Len(rows) \in Nat
        BY <2>1
      <3>3. rows' \in Seq(Row) /\ DOMAIN rows' = 1 .. n
        BY <2>1, <3>1, <3>2
      <3>4. rows'[n] = new
        BY <2>1, <3>1, <3>2
      <3>5. \A i \in 1 .. Len(rows) : rows'[i] = rows[i]
        BY <2>1, <3>1, <3>2
      <3>6. n \in Nat /\ n # 0 /\ n \notin 1 .. Len(rows) /\ 1 .. n = 1 .. Len(rows) \cup {n}
        BY <3>2
      <3>7. QED
        BY <3>2, <3>3, <3>4, <3>5, <3>6
    <2> HIDE DEF n
    <2>4. /\ calls' \in [Client -> CallSet] /\ \A d \in Client \ {c} : calls'[d] = calls[d]
          /\ calls'[c].step = "answered" /\ calls'[c].answer = "accepted"
          /\ calls'[c].op = n /\ calls'[c].key = calls[c].key /\ calls'[c].request = r
      <3>1. "accepted" \in Answers
        BY DEF Answers
      <3>2. Answer(c, "accepted", n) /\ n \in Nat /\ n # 0 /\ Typed
        BY <1>5, <2>1, <2>3
      <3>3. QED
        BY <3>1, <3>2, AnswerGives
    <2>5. Persist(rows, rows')
      BY <2>3 DEF Persist
    <2>6. Typed'
      BY <1>1, <1>5, <2>1, <2>3, <2>4 DEF Typed
    <2>7. KeysAreUnique'
      <3>1. ASSUME NEW i \in DOMAIN rows PROVE rows[i].key # calls[c].key \/ calls[c].key = NoKey
        BY <1>2 DEF IsNew
      <3>2. \A i, j \in DOMAIN rows : rows[i].key = rows[j].key /\ rows[i].key # NoKey => i = j
        BY DEF IntakeInv, KeysAreUnique
      <3>3. \A i, j \in DOMAIN rows' : rows'[i].key = rows'[j].key /\ rows'[i].key # NoKey => i = j
        BY <2>2, <2>3, <3>1, <3>2
      <3>4. QED
        BY <3>3 DEF KeysAreUnique
    <2>8. RowsAreOfNow'
      <3>1. OfNow(new.key, new.made)
        BY <1>1, <2>2 DEF Sound
      <3>2. \A i \in DOMAIN rows : OfNow(rows[i].key, rows[i].made)
        BY DEF IntakeInv, RowsAreOfNow
      <3>3. \A i \in DOMAIN rows' : OfNow(rows'[i].key, rows'[i].made)
        BY <2>3, <3>1, <3>2
      <3>4. QED
        BY <3>3 DEF RowsAreOfNow
    <2>9. InputsAreKept'
      BY <2>2, <2>3 DEF IntakeInv, InputsAreKept
    <2>10. ASSUME NEW d \in Client \ {c} PROVE Sound(d, calls[d], acceptMu', rows', source)
      <3>1. Sound(d, calls[d], acceptMu, rows, source)
        BY DEF IntakeInv
      <3>2. calls[d].step \notin {"enrich", "insert"}
        BY <1>2, <3>1 DEF Sound, Serial
      <3>3. QED
        BY <2>1, <2>5, <3>1, <3>2, LaterSame, CallStays
    <2>11. Sound(c, calls'[c], acceptMu', rows', source)
      <3>1. IsOf(rows'[n], calls'[c])
        BY <2>2, <2>3, <2>4 DEF IsOf
      <3>2. Served(calls'[c], rows')
        BY <2>3, <2>4, <3>1 DEF Served
      <3>3. OfNow(calls'[c].key, source)
        BY <1>1, <2>4 DEF Sound
      <3>4. QED
        BY <2>4, <3>2, <3>3 DEF Sound, Working, Serial
    <2>12. \A d \in Client : Sound(d, calls'[d], acceptMu', rows', source')
      BY <1>1, <2>4, <2>10, <2>11
    <2>13. (\A d \in Client : Sound(d, calls[d], acceptMu, rows, source))'
      BY <2>12
    <2>14. QED
      BY <2>6, <2>7, <2>8, <2>9, <2>13 DEF IntakeInv
  <1>6. QED
    BY <1>3, <1>4, <1>5 DEF Insert

-----------------------------------------------------------------------------
(* What happens beside the calls.                                           *)

\* Rows stay where they are, and sources move on.
LEMMA BesideSound ==
    ASSUME IntakeInv, UNCHANGED <<acceptMu, calls>>, Typed', InputsAreKept',
           DOMAIN rows' = DOMAIN rows, Persist(rows, rows'), Later(source, source')
    PROVE  IntakeInv'
  <1>1. Typed /\ source \in Source /\ source' \in Source
    BY DEF IntakeInv, Typed
  <1>2. KeysAreUnique'
    BY DEF IntakeInv, KeysAreUnique, Persist
  <1>3. RowsAreOfNow'
    <2>1. \A i \in DOMAIN rows' : OfNow(rows'[i].key, rows'[i].made)
      BY DEF IntakeInv, RowsAreOfNow, Persist
    <2>2. QED
      BY <2>1 DEF RowsAreOfNow
  <1>4. ASSUME NEW d \in Client PROVE Sound(d, calls[d], acceptMu, rows', source')
    <2>1. Sound(d, calls[d], acceptMu, rows, source)
      BY DEF IntakeInv
    <2>2. calls[d].step \in {"enrich", "insert"} => IsNew(calls[d].key, rows')
      BY <2>1 DEF Sound, Serial, IsNew, Persist
    <2>3. QED
      BY <1>1, <2>1, <2>2, CallStays
  <1>5. \A d \in Client : Sound(d, calls'[d], acceptMu', rows', source')
    BY <1>4
  <1>6. (\A d \in Client : Sound(d, calls[d], acceptMu, rows, source))'
    BY <1>5
  <1>7. QED
    BY <1>2, <1>3, <1>6 DEF IntakeInv

LEMMA MovedOn == ASSUME source \in Source, NEW S PROVE Moved(S) \in Source /\ Later(source, Moved(S))
  BY DEF Moved, Later, Source, Gone

LEMMA FinishSound ==
    ASSUME IntakeAssumption, IntakeInv, NEW i \in DOMAIN rows, Finish(i)
    PROVE  IntakeInv'
  <1>1. PICK state \in Ended, retryable \in BOOLEAN :
          rows' = [rows EXCEPT ![i].state = state, ![i].retryable = retryable,
                               ![i].expires = time + Retention]
    BY DEF Finish
  <1> DEFINE row == [rows[i] EXCEPT !.state = state, !.retryable = retryable, !.expires = time + Retention]
  <1>2. /\ Typed /\ rows \in Seq(Row) /\ rows[i] \in Row /\ time + Retention \in Int
        /\ source \in Source
    BY DEF IntakeInv, Typed, IntakeAssumption
  <1>3. rows[i].state = "queued" /\ rows[i].stored
    BY DEF Finish, IntakeInv, InputsAreKept
  <1>4. /\ row \in Row /\ row.key = rows[i].key /\ row.docs = rows[i].docs /\ row.made = rows[i].made
        /\ row.fingerprint = rows[i].fingerprint /\ row.stored
    BY <1>2, <1>3 DEF Row
  <1>5. rows' = [rows EXCEPT ![i] = row]
    BY <1>1, <1>2
  <1> HIDE DEF row
  <1>6. /\ rows' \in Seq(Row) /\ DOMAIN rows' = DOMAIN rows /\ rows'[i] = row
        /\ \A j \in DOMAIN rows \ {i} : rows'[j] = rows[j]
    BY <1>2, <1>4, <1>5
  <1>7. Persist(rows, rows')
    BY <1>4, <1>6 DEF Persist
  <1>8. InputsAreKept'
    BY <1>4, <1>6 DEF IntakeInv, InputsAreKept
  <1>9. source' \in Source /\ Later(source, source')
    <2>1. source' = source \/ source' = Moved(rows[i].docs)
      BY DEF Finish
    <2>2. QED
      BY <1>2, <2>1, MovedOn, LaterSame
  <1>10. UNCHANGED <<time, acceptMu, calls>>
    BY DEF Finish
  <1>11. Typed'
    BY <1>2, <1>6, <1>9, <1>10 DEF Typed
  <1>12. QED
    BY <1>6, <1>7, <1>8, <1>9, <1>10, <1>11, BesideSound

LEMMA RetrySound ==
    ASSUME IntakeInv, NEW i \in DOMAIN rows, Retry(i)
    PROVE  IntakeInv'
  <1> DEFINE row == [rows[i] EXCEPT !.state = "queued", !.attempt = @ + 1]
  <1>1. rows' = [rows EXCEPT ![i].state = "queued", ![i].attempt = @ + 1]
    BY DEF Retry
  <1>2. Typed /\ rows \in Seq(Row) /\ rows[i] \in Row /\ source \in Source
    BY DEF IntakeInv, Typed
  <1>3. rows[i].stored
    BY DEF Retry, IntakeInv, InputsAreKept
  <1>4. /\ row \in Row /\ row.key = rows[i].key /\ row.docs = rows[i].docs /\ row.made = rows[i].made
        /\ row.fingerprint = rows[i].fingerprint /\ row.stored
    <2>1. rows[i].attempt + 1 \in Nat
      BY <1>2 DEF Row
    <2>2. row \in Row
      BY <1>2, <2>1 DEF Row
    <2>3. row.stored
      BY <1>2, <1>3 DEF Row
    <2>4. QED
      BY <1>2, <2>2, <2>3 DEF Row
  <1>5. rows' = [rows EXCEPT ![i] = row]
    BY <1>1, <1>2
  <1> HIDE DEF row
  <1>6. /\ rows' \in Seq(Row) /\ DOMAIN rows' = DOMAIN rows /\ rows'[i] = row
        /\ \A j \in DOMAIN rows \ {i} : rows'[j] = rows[j]
    BY <1>2, <1>4, <1>5
  <1>7. Persist(rows, rows')
    BY <1>4, <1>6 DEF Persist
  <1>8. InputsAreKept'
    BY <1>4, <1>6 DEF IntakeInv, InputsAreKept
  <1>9. UNCHANGED <<time, source, acceptMu, calls>>
    BY DEF Retry
  <1>10. Typed'
    BY <1>2, <1>6, <1>9 DEF Typed
  <1>11. Later(source, source')
    BY <1>2, <1>9, LaterSame
  <1>12. QED
    BY <1>6, <1>7, <1>8, <1>9, <1>10, <1>11, BesideSound

\* The sweep takes the payloads of commands that are over.
LEMMA SweepSound ==
    ASSUME IntakeInv, Sweep
    PROVE  IntakeInv'
  <1>1. rows' = [i \in DOMAIN rows |->
            IF Disposable(rows[i]) THEN [rows[i] EXCEPT !.stored = FALSE] ELSE rows[i]]
    BY DEF Sweep
  <1>2. Typed /\ rows \in Seq(Row) /\ source \in Source
    BY DEF IntakeInv, Typed
  <1>3. ASSUME NEW i \in DOMAIN rows
        PROVE  /\ rows'[i] \in Row /\ rows'[i].key = rows[i].key /\ rows'[i].docs = rows[i].docs
               /\ rows'[i].made = rows[i].made /\ rows'[i].fingerprint = rows[i].fingerprint
               /\ rows'[i].state = rows[i].state /\ rows'[i].retryable = rows[i].retryable
               /\ ~Disposable(rows[i]) => rows'[i].stored = rows[i].stored
    <2>1. rows[i] \in Row
      BY <1>2
    <2>2. CASE Disposable(rows[i])
      BY <1>1, <2>1, <2>2 DEF Row
    <2>3. CASE ~Disposable(rows[i])
      BY <1>1, <2>1, <2>3
    <2>4. QED
      BY <2>2, <2>3
  <1>4. DOMAIN rows' = DOMAIN rows
    BY <1>1
  <1>5. rows' \in Seq(Row)
    <2>1. DOMAIN rows = 1 .. Len(rows) /\ Len(rows) \in Nat
      BY <1>2
    <2>2. rows' = [i \in 1 .. Len(rows) |-> rows'[i]]
      BY <1>1, <2>1
    <2>3. \A i \in 1 .. Len(rows) : rows'[i] \in Row
      BY <1>3, <2>1
    <2>4. QED
      BY <2>1, <2>2, <2>3
  <1>6. Persist(rows, rows')
    BY <1>3, <1>4 DEF Persist
  <1>7. InputsAreKept'
    <2>1. \A i \in DOMAIN rows : rows[i].state = "queued" \/ (rows[i].state = "failed" /\ rows[i].retryable)
              => rows[i].stored /\ ~Disposable(rows[i])
      BY DEF IntakeInv, InputsAreKept, Disposable
    <2>2. QED
      BY <1>3, <1>4, <2>1 DEF InputsAreKept
  <1>8. UNCHANGED <<time, source, acceptMu, calls>>
    BY DEF Sweep
  <1>9. Typed'
    BY <1>2, <1>5, <1>8 DEF Typed
  <1>10. Later(source, source')
    BY <1>2, <1>8, LaterSame
  <1>11. QED
    BY <1>4, <1>6, <1>7, <1>8, <1>9, <1>10, BesideSound

LEMMA ChangeSound ==
    ASSUME IntakeInv, Change
    PROVE  IntakeInv'
  <1>1. UNCHANGED <<time, rows, acceptMu, calls>> /\ Typed /\ source \in Source
    BY DEF Change, IntakeInv, Typed
  <1>2. source' \in Source /\ Later(source, source')
    <2>1. PICK d \in Doc : \/ source' = Moved({d, BaseOf[d]})
                           \/ source' = [Moved({BaseOf[d]}) EXCEPT ![d] = Gone]
      BY DEF Change
    <2>2. CASE source' = Moved({d, BaseOf[d]})
      BY <1>1, <2>2, MovedOn
    <2>3. CASE source' = [Moved({BaseOf[d]}) EXCEPT ![d] = Gone]
      <3>1. Moved({BaseOf[d]}) \in Source /\ Later(source, Moved({BaseOf[d]}))
        BY <1>1, MovedOn
      <3>2. QED
        BY <2>3, <3>1 DEF Source, Later, Gone
    <2>4. QED
      BY <2>1, <2>2, <2>3
  <1>3. Typed'
    BY <1>1, <1>2 DEF Typed
  <1>4. InputsAreKept' /\ Persist(rows, rows') /\ DOMAIN rows' = DOMAIN rows
    BY <1>1, PersistSame DEF IntakeInv, InputsAreKept
  <1>5. QED
    BY <1>1, <1>2, <1>3, <1>4, BesideSound

LEMMA QuietSound ==
    ASSUME IntakeInv, UNCHANGED <<source, rows, acceptMu, calls>>, time' \in Nat
    PROVE  IntakeInv'
  <1>1. Typed' /\ source \in Source
    BY DEF IntakeInv, Typed
  <1>2. InputsAreKept' /\ Persist(rows, rows') /\ DOMAIN rows' = DOMAIN rows
    BY PersistSame DEF IntakeInv, InputsAreKept
  <1>3. QED
    BY <1>1, <1>2, LaterSame, BesideSound

\* What was in flight is lost, with the mutex.
LEMMA CrashSound ==
    ASSUME IntakeInv, Crash
    PROVE  IntakeInv'
  <1>1. /\ calls' = [c \in Client |-> IF calls[c].step = "answered" THEN calls[c] ELSE Idle]
        /\ acceptMu' = Nothing /\ UNCHANGED <<time, source, rows>>
    BY DEF Crash
  <1>2. calls' \in [Client -> CallSet]
    BY <1>1, IdleTyped DEF IntakeInv, Typed
  <1>3. Typed'
    BY <1>1, <1>2 DEF IntakeInv, Typed
  <1>4. KeysAreUnique' /\ RowsAreOfNow' /\ InputsAreKept'
    BY <1>1 DEF IntakeInv, KeysAreUnique, RowsAreOfNow, InputsAreKept
  <1>5. ASSUME NEW c \in Client PROVE Sound(c, calls'[c], acceptMu', rows', source')
    <2>1. CASE calls[c].step = "answered"
      <3>1. Sound(c, calls[c], acceptMu, rows, source) /\ calls'[c] = calls[c]
        BY <1>1, <2>1 DEF IntakeInv
      <3>2. QED
        BY <1>1, <2>1, <3>1 DEF Sound, Serial
    <2>2. CASE calls[c].step # "answered"
      <3>1. calls'[c] = Idle
        BY <1>1, <2>2
      <3>2. QED
        BY <3>1 DEF Sound, Working, Serial, Served, OfNow, Idle, NoKey
    <2>3. QED
      BY <2>1, <2>2
  <1>6. (\A c \in Client : Sound(c, calls[c], acceptMu, rows, source))'
    BY <1>5
  <1>7. QED
    BY <1>3, <1>4, <1>6 DEF IntakeInv

-----------------------------------------------------------------------------
LEMMA InitIntake == ASSUME IntakeAssumption PROVE Init => IntakeInv
  <1> SUFFICES ASSUME Init PROVE IntakeInv
    OBVIOUS
  <1>1. calls \in [Client -> CallSet] /\ \A c \in Client : calls[c] = Idle
    BY IdleTyped DEF Init
  <1>2. source \in Source /\ rows = <<>> /\ time \in Nat /\ acceptMu = Nothing
    BY DEF Init, Source
  <1>3. rows \in Seq(Row) /\ DOMAIN rows = {}
    BY <1>2
  <1>4. Typed
    BY <1>1, <1>2, <1>3 DEF Typed
  <1>5. \A c \in Client : Sound(c, calls[c], acceptMu, rows, source)
    BY <1>1 DEF Sound, Working, Serial, Served, OfNow, Idle, NoKey
  <1>6. QED
    BY <1>3, <1>4, <1>5 DEF IntakeInv, KeysAreUnique, RowsAreOfNow, InputsAreKept

LEMMA NextIntake == ASSUME IntakeAssumption PROVE IntakeInv /\ [Next]_vars => IntakeInv'
  <1> SUFFICES ASSUME IntakeInv, [Next]_vars PROVE IntakeInv'
    OBVIOUS
  <1>1. ASSUME NEW c \in Client, Handle(c) PROVE IntakeInv'
    BY <1>1, ReceiveSound, SigningSound, ValidateSound, LocateSound, FindSound, AcceptSound,
       EnrichSound, InsertSound DEF Handle
  <1>2. CASE \E i \in DOMAIN rows : Finish(i) \/ Retry(i)
    BY <1>2, FinishSound, RetrySound
  <1>3. CASE Sweep \/ Change \/ Crash
    BY <1>3, SweepSound, ChangeSound, CrashSound
  <1>4. CASE Rotate \/ Revoke \/ Tick \/ UNCHANGED vars
    <2>1. UNCHANGED <<source, rows, acceptMu, calls>>
      BY <1>4 DEF Rotate, Revoke, Tick, vars
    <2>2. time' \in Nat
      <3>1. time' \in {time, time + 1} /\ time \in Nat
        BY <1>4 DEF Rotate, Revoke, Tick, vars, IntakeInv, Typed
      <3>2. QED
        BY <3>1
    <2>3. QED
      BY <2>1, <2>2, QuietSound
  <1>5. QED
    BY <1>1, <1>2, <1>3, <1>4 DEF Next

LEMMA IntakeHolds == ASSUME IntakeAssumption PROVE Init /\ [][Next]_vars => []IntakeInv
  BY InitIntake, NextIntake, PTL

\* No step takes a row away, or changes its key or what it was asked for.
LEMMA RowsPersist == ASSUME IntakeInv, [Next]_vars PROVE Persist(rows, rows')
  <1>0. rows \in Seq(Row)
    BY DEF IntakeInv, Typed
  <1>1. ASSUME NEW c \in Client, Insert(c) PROVE Persist(rows, rows')
    <2>1. rows' = rows \/ \E new : rows' = Append(rows, new)
      BY <1>1 DEF Insert
    <2>2. CASE \E new : rows' = Append(rows, new)
      <3>1. PICK new : rows' = Append(rows, new)
        BY <2>2
      <3>2. \A i \in DOMAIN rows : i \in DOMAIN rows' /\ rows'[i] = rows[i]
        BY <1>0, <3>1
      <3>3. QED
        BY <3>2 DEF Persist
    <2>3. QED
      BY <2>1, <2>2, PersistSame
  <1>2. ASSUME NEW i \in DOMAIN rows, NEW state, NEW retryable, NEW attempt, NEW expires,
               \/ rows' = [rows EXCEPT ![i].state = state, ![i].retryable = retryable, ![i].expires = expires]
               \/ rows' = [rows EXCEPT ![i].state = state, ![i].attempt = attempt]
        PROVE  Persist(rows, rows')
    <2> DEFINE row == rows'[i]
    <2>1. rows[i] \in Row
      BY <1>0
    <2>2. /\ DOMAIN rows' = DOMAIN rows /\ \A j \in DOMAIN rows \ {i} : rows'[j] = rows[j]
          /\ \/ row = [rows[i] EXCEPT !.state = state, !.retryable = retryable, !.expires = expires]
             \/ row = [rows[i] EXCEPT !.state = state, !.attempt = attempt]
      BY <1>0, <1>2
    <2> HIDE DEF row
    <2>3. /\ row.key = rows[i].key /\ row.docs = rows[i].docs /\ row.made = rows[i].made
          /\ row.fingerprint = rows[i].fingerprint
      BY <2>1, <2>2 DEF Row
    <2>4. QED
      BY <2>2, <2>3 DEF Persist, row
  <1>3. CASE \E i \in DOMAIN rows : Finish(i) \/ Retry(i)
    <2>1. PICK i \in DOMAIN rows : Finish(i) \/ Retry(i)
      BY <1>3
    <2>2. CASE Finish(i)
      <3>1. PICK state \in Ended, retryable \in BOOLEAN :
              rows' = [rows EXCEPT ![i].state = state, ![i].retryable = retryable,
                                   ![i].expires = time + Retention]
        BY <2>2 DEF Finish
      <3>2. QED
        BY <1>2, <3>1
    <2>3. CASE Retry(i)
      <3>1. rows' = [rows EXCEPT ![i].state = "queued", ![i].attempt = rows[i].attempt + 1]
        BY <1>0, <2>3 DEF Retry
      <3>2. QED
        BY <1>2, <3>1
    <2>4. QED
      BY <2>1, <2>2, <2>3
  <1>4. CASE Sweep
    BY <1>0, <1>4 DEF Sweep, Row, Persist
  <1>5. CASE rows' = rows
    BY <1>5, PersistSame
  <1>6. QED
    BY <1>1, <1>3, <1>4, <1>5 DEF Next, Handle, Receive, EnsureKey, CreateKey, Sign, Validate,
       Locate, Find, Accept, Enrich, Rotate, Revoke, Change, Tick, Crash, vars

-----------------------------------------------------------------------------
(* A request that is sent again, by anybody and at any time, gets the one       *)
(* command of its key, of the kind, the target and the payload it asks for, and *)
(* never the constraint that would stop a second row (operations.Service.Submit).*)
THEOREM RetriesGetTheirCommand ==
    ASSUME IntakeAssumption
    PROVE  Init /\ [][Next]_vars => []OneCommandPerKey
  <1>1. IntakeInv => OneCommandPerKey
    <2> SUFFICES ASSUME IntakeInv PROVE OneCommandPerKey
      OBVIOUS
    <2>1. ASSUME NEW c \in Accepted
          PROVE  /\ c \in Client /\ calls[c].op \in DOMAIN rows
                 /\ IsOf(rows[calls[c].op], calls[c])
      BY <2>1 DEF Accepted, IntakeInv, Sound, Served
    <2>2. \A c, d \in Accepted :
            calls[c].key = calls[d].key /\ calls[c].key # NoKey => calls[c].op = calls[d].op
      BY <2>1 DEF IsOf, IntakeInv, KeysAreUnique
    <2>3. \A c \in Client : calls[c].answer # "constraint"
      BY DEF IntakeInv, Sound
    <2>4. QED
      BY <2>1, <2>2, <2>3 DEF OneCommandPerKey, IsOf
  <1>2. QED
    BY <1>1, IntakeHolds, PTL

(* A reindex is never answered with a command that was made of an older source  *)
(* (ReindexIdempotencyKey).                                                     *)
THEOREM ReindexesAreOfNow ==
    ASSUME IntakeAssumption
    PROVE  Init /\ [][Next]_vars => []ReindexIsOfNow
  <1>1. IntakeInv => ReindexIsOfNow
    <2> SUFFICES ASSUME IntakeInv, NEW c \in Accepted, calls[c].key.kind = "reindex",
                        NEW x \in DOMAIN calls[c].key.at
                 PROVE  \/ rows[calls[c].op].made[x] = Gone
                        \/ rows[calls[c].op].made[x] >= calls[c].key.at[x]
      BY DEF ReindexIsOfNow
    <2>1. calls[c].op \in DOMAIN rows /\ rows[calls[c].op].key = calls[c].key
      BY DEF Accepted, IntakeInv, Sound, Served, IsOf
    <2>2. OfNow(calls[c].key, rows[calls[c].op].made)
      BY <2>1 DEF IntakeInv, RowsAreOfNow
    <2>3. QED
      BY <2>2 DEF OfNow
  <1>2. QED
    BY <1>1, IntakeHolds, PTL

(* What a known key was made for is kept as long as it may run, its row is there *)
(* for ever, and what refuses new work never refuses it: together with the two   *)
(* above, all that the run of the composed inputs checks of a step.              *)
THEOREM KnownKeysAreServed ==
    ASSUME IntakeAssumption
    PROVE  Init /\ [][Next]_vars => [][IntakeIsIdempotent]_vars
  <1>1. IntakeInv /\ [Next]_vars => KnownIsNeverRefused
    <2> SUFFICES ASSUME IntakeInv, [Next]_vars PROVE KnownIsNeverRefused
      OBVIOUS
    <2>1. ASSUME NEW c \in Client, calls[c].step = "enrich" PROVE Known(calls[c].key) = {}
      BY <2>1 DEF IntakeInv, Sound, Serial, IsNew, Known
    <2>2. Persist(rows, rows')
      BY RowsPersist
    <2>3. QED
      BY <2>1, <2>2 DEF KnownIsNeverRefused, Persist
  <1>2. IntakeInv => InputsAreKept
    BY DEF IntakeInv
  <1>3. Init /\ [][Next]_vars => [](OneCommandPerKey /\ ReindexIsOfNow /\ InputsAreKept)
    BY <1>2, RetriesGetTheirCommand, ReindexesAreOfNow, IntakeHolds, PTL
  <1>4. IntakeInv /\ (OneCommandPerKey /\ ReindexIsOfNow /\ InputsAreKept)' /\ [Next]_vars
            => [IntakeIsIdempotent]_vars
    BY <1>1 DEF IntakeIsIdempotent
  <1>5. QED
    BY <1>3, <1>4, IntakeHolds, PTL

-----------------------------------------------------------------------------
(* URL captures, for any operations and page contents: however the page     *)
(* changes under the attempts of an operation, and wherever they fail,      *)
(* crash or expire, the operation ingests one body and keeps it until it is *)
(* published.                                                               *)

CONSTANTS Imports, Refreshes, Body, Nil
VARIABLES site, doc, marker, row, op, pub, used, spared

U == INSTANCE UrlCapture

\* The instance counts as FiniteSets does.
LEMMA CountsAlike == ASSUME NEW S PROVE U!Cardinality(S) = Cardinality(S)
  BY DEF U!Cardinality, Cardinality

Places == {"queued", "fetch", "ensure", "start", "publish", "consume", "finish", "succeeded", "failed"}

CaptureTyped ==
    /\ site \in Body
    /\ doc \in [status : {"none", "processing", "pending", "ready", "failed"},
                hash : Body \cup {Nil}, text : Body \cup {Nil}]
    /\ marker \subseteq U!Op /\ spared \subseteq U!Op
    /\ row \in [U!Op -> [state : {"none", "ready", "consumed"}, sha : Body \cup {Nil}]]
    /\ op \in [U!Op -> [at : Places, body : Body \cup {Nil}]]
    /\ used \in [U!Op -> SUBSET Body]

\* The bytes of the row may be given up.
MayGo(o) == row[o].sha \in pub \/ o \in spared

\* The row of an operation decides what its attempts may hold: before the row
\* nothing was ingested, and later an attempt ingests the bytes of the row, also
\* when the row has expired meanwhile. The last three parts carry "published"
\* from the commit hook to the clean-up, across crashes.
Bound(o) ==
    /\ op[o].at \in {"ensure", "start", "publish"} => op[o].body \in Body
    /\ op[o].at \in {"start", "publish"} => row[o].state # "none" /\ op[o].body = row[o].sha
    /\ IF row[o].state = "none" THEN used[o] = {} ELSE row[o].sha \in Body
    /\ used[o] \subseteq {row[o].sha}
    /\ o \in marker => row[o].state # "none" /\ row[o].sha \in pub
    /\ op[o].at = "consume" => MayGo(o)
    /\ row[o].state = "consumed" => MayGo(o)

CaptureInv == CaptureTyped /\ \A o \in U!Op : Bound(o)

-----------------------------------------------------------------------------
LEMMA InitBound == U!Init => CaptureInv
  BY DEF U!Init, CaptureInv, CaptureTyped, Bound, Places

\* An operation that moves without a row, a mark or a use of its own keeps all
\* that its place asks for.
LEMMA MovesOn ==
    ASSUME CaptureTyped, NEW o \in U!Op, Bound(o), NEW l \in Places \ {"ensure", "start", "publish"},
           U!Goto(o, l), l = "consume" => MayGo(o), UNCHANGED <<site, row, spared, used, marker, pub, doc>>
    PROVE  CaptureTyped' /\ Bound(o)'
  <1>1. /\ op'[o].at = l /\ op'[o].body = op[o].body
        /\ op' \in [U!Op -> [at : Places, body : Body \cup {Nil}]]
    BY DEF CaptureTyped, U!Goto
  <1>2. CaptureTyped'
    BY <1>1 DEF CaptureTyped
  <1>3. QED
    BY <1>1, <1>2 DEF Bound, MayGo

\* What others do leaves an operation as it is: bytes stay published.
LEMMA OthersStay ==
    ASSUME NEW o \in U!Op, Bound(o), row'[o] = row[o], used'[o] = used[o], op'[o] = op[o],
           o \in marker' => o \in marker, pub \subseteq pub', spared \subseteq spared'
    PROVE  Bound(o)'
  BY DEF Bound, MayGo

-----------------------------------------------------------------------------
\* The steps of an operation. Each keeps the types and what binds the operation.

LEMMA BeginBound ==
    ASSUME CaptureTyped, NEW o \in U!Op, Bound(o), U!Begin(o)
    PROVE  CaptureTyped' /\ Bound(o)'
  <1> DEFINE l == IF o \in marker THEN "consume"
                  ELSE IF o \in Refreshes /\ doc.status = "none" THEN "failed"
                  ELSE IF o \in Imports /\ doc.status = "ready" THEN "finish" ELSE "fetch"
  <1>1. U!Goto(o, l) /\ UNCHANGED <<site, row, spared, used, marker, pub, doc>>
    BY DEF U!Begin
  <1>2. l \in Places \ {"ensure", "start", "publish"} /\ (l = "consume" => MayGo(o))
    BY DEF Places, Bound, MayGo
  <1> HIDE DEF l
  <1>3. QED
    BY <1>1, <1>2, MovesOn

LEMMA FetchBound ==
    ASSUME CaptureTyped, NEW o \in U!Op, Bound(o), U!Fetch(o)
    PROVE  CaptureTyped' /\ Bound(o)'
  <1>1. op'[o] = [at |-> "ensure", body |-> site] /\ site \in Body
    BY DEF U!Fetch, CaptureTyped
  <1>2. op' \in [U!Op -> [at : Places, body : Body \cup {Nil}]]
    BY DEF U!Fetch, CaptureTyped, Places
  <1>3. CaptureTyped'
    BY <1>2 DEF U!Fetch, CaptureTyped
  <1>4. QED
    BY <1>1, <1>3 DEF U!Fetch, Bound, MayGo

\* The first bytes become the row; an attempt that finds a row takes its bytes.
LEMMA EnsureBound ==
    ASSUME CaptureTyped, NEW o \in U!Op, Bound(o), U!EnsureURLCapture(o)
    PROVE  CaptureTyped' /\ Bound(o)'
  <1>0. op[o].at = "ensure" /\ op[o].body \in Body /\ row[o].sha \in Body \cup {Nil}
    BY DEF U!EnsureURLCapture, Bound, CaptureTyped
  <1>1. CASE row[o].state = "consumed"
    <2>1. U!Goto(o, "failed") /\ UNCHANGED <<site, row, spared, used, marker, pub, doc>>
      BY <1>1 DEF U!EnsureURLCapture
    <2>2. QED
      BY <2>1, MovesOn DEF Places
  <1>2. CASE row[o].state = "ready"
    <2>1. /\ op' = [op EXCEPT ![o] = [at |-> "start", body |-> row[o].sha]]
          /\ UNCHANGED <<site, row, spared, used, marker, pub, doc>>
      BY <1>2 DEF U!EnsureURLCapture, U!Captured
    <2>2. row[o].sha \in Body
      BY <1>2 DEF Bound
    <2>3. op'[o] = [at |-> "start", body |-> row[o].sha] /\ row[o].state # "none"
      BY <1>2, <2>1 DEF CaptureTyped
    <2>4. CaptureTyped'
      BY <2>1, <2>2 DEF CaptureTyped, Places
    <2>5. QED
      BY <2>1, <2>2, <2>3, <2>4 DEF Bound, MayGo
  <1>3. CASE row[o].state = "none"
    <2>1. /\ op' = [op EXCEPT ![o] = [at |-> "start", body |-> op[o].body]]
          /\ row' = [row EXCEPT ![o] = [state |-> "ready", sha |-> op[o].body]]
          /\ UNCHANGED <<site, spared, used, marker, pub, doc>>
      BY <1>3 DEF U!EnsureURLCapture, U!Captured
    <2>2. /\ op'[o] = [at |-> "start", body |-> op[o].body]
          /\ row'[o] = [state |-> "ready", sha |-> op[o].body]
      BY <2>1 DEF CaptureTyped
    <2>3. CaptureTyped'
      BY <1>0, <2>1 DEF CaptureTyped, Places
    <2>4. used[o] = {} /\ o \notin marker
      BY <1>3 DEF Bound
    <2>5. QED
      BY <1>0, <2>1, <2>2, <2>3, <2>4 DEF Bound, MayGo
  <1>4. QED
    BY <1>1, <1>2, <1>3 DEF CaptureTyped

\* An ingest begins with the bytes of the row.
LEMMA StartBound ==
    ASSUME CaptureTyped, NEW o \in U!Op, Bound(o), U!Start(o)
    PROVE  CaptureTyped' /\ Bound(o)'
  <1> DEFINE b == op[o].body
             same == o \in Refreshes /\ doc.hash = b
  <1>0. /\ op[o].at = "start" /\ b \in Body /\ row[o].state # "none" /\ b = row[o].sha
        /\ UNCHANGED <<site, row, pub>>
    BY DEF U!Start, Bound
  <1>1. CASE same
    <2>1. /\ U!Goto(o, "consume") /\ UNCHANGED <<site, row, pub, doc, marker, used>>
          /\ spared' = IF b \in pub THEN spared ELSE spared \cup {o}
      BY <1>0, <1>1 DEF U!Start
    <2>2. /\ op'[o].at = "consume" /\ op' \in [U!Op -> [at : Places, body : Body \cup {Nil}]]
      BY <2>1 DEF U!Goto, CaptureTyped, Places
    <2>3. CaptureTyped'
      BY <2>1, <2>2 DEF CaptureTyped
    <2>4. MayGo(o)'
      BY <1>0, <2>1 DEF MayGo
    <2>5. QED
      BY <2>1, <2>2, <2>3, <2>4 DEF Bound
  <1>2. CASE ~same
    <2>1. /\ U!Goto(o, "publish") /\ UNCHANGED <<site, row, pub, marker, spared>>
          /\ doc' = [doc EXCEPT !.status = "processing", !.hash = b]
          /\ used' = [used EXCEPT ![o] = @ \cup {b}]
      BY <1>0, <1>2 DEF U!Start, U!Unmarked
    <2>2. /\ op'[o].at = "publish" /\ op'[o].body = b
          /\ op' \in [U!Op -> [at : Places, body : Body \cup {Nil}]]
      BY <2>1 DEF U!Goto, CaptureTyped, Places
    <2>3. used'[o] = used[o] \cup {b} /\ used' \in [U!Op -> SUBSET Body]
      BY <1>0, <2>1 DEF CaptureTyped
    <2>4. doc' \in [status : {"none", "processing", "pending", "ready", "failed"},
                    hash : Body \cup {Nil}, text : Body \cup {Nil}]
      BY <1>0, <2>1 DEF CaptureTyped
    <2>5. CaptureTyped'
      BY <2>1, <2>2, <2>3, <2>4 DEF CaptureTyped
    <2>6. used'[o] \subseteq {row[o].sha}
      BY <1>0, <2>3 DEF Bound
    <2>7. QED
      BY <1>0, <2>1, <2>2, <2>5, <2>6 DEF Bound, MayGo
  <1>3. QED
    BY <1>1, <1>2

LEMMA DegradeBound ==
    ASSUME CaptureTyped, NEW o \in U!Op, U!Degrade(o)
    PROVE  CaptureTyped' /\ \A p \in U!Op : Bound(p) => Bound(p)'
  <1>1. doc' \in [status : {"none", "processing", "pending", "ready", "failed"},
                  hash : Body \cup {Nil}, text : Body \cup {Nil}]
    BY DEF U!Degrade, CaptureTyped
  <1>2. CaptureTyped'
    BY <1>1 DEF U!Degrade, CaptureTyped
  <1>3. QED
    BY <1>2 DEF U!Degrade, Bound, MayGo

\* The commit hook marks the item in the transaction that publishes its bytes.
LEMMA PublishBound ==
    ASSUME CaptureTyped, NEW o \in U!Op, Bound(o), U!Publish(o)
    PROVE  CaptureTyped' /\ Bound(o)'
  <1> DEFINE b == op[o].body
  <1>0. /\ b \in Body /\ row[o].state # "none" /\ b = row[o].sha
    BY DEF U!Publish, Bound
  <1>1. /\ op' = [op EXCEPT ![o].at = "consume"] /\ doc' = [status |-> "ready", hash |-> b, text |-> b]
        /\ pub' = pub \cup {b} /\ marker' = marker \cup {o} /\ UNCHANGED <<site, row, used, spared>>
    BY DEF U!Publish, U!Goto
  <1>2. op'[o].at = "consume" /\ op' \in [U!Op -> [at : Places, body : Body \cup {Nil}]]
    BY <1>1 DEF CaptureTyped, Places
  <1>3. CaptureTyped'
    BY <1>0, <1>1, <1>2 DEF CaptureTyped
  <1>4. QED
    BY <1>0, <1>1, <1>2, <1>3 DEF Bound, MayGo

LEMMA IngestFailsBound ==
    ASSUME CaptureTyped, NEW o \in U!Op, Bound(o), U!IngestFails(o)
    PROVE  CaptureTyped' /\ Bound(o)'
  <1>0. op[o].body \in Body
    BY DEF U!IngestFails, Bound
  <1>1. op'[o].at = "failed" /\ op' \in [U!Op -> [at : Places, body : Body \cup {Nil}]]
    BY DEF U!IngestFails, U!Goto, CaptureTyped, Places
  <1>2. doc' \in [status : {"none", "processing", "pending", "ready", "failed"},
                  hash : Body \cup {Nil}, text : Body \cup {Nil}]
    BY <1>0 DEF U!IngestFails, CaptureTyped
  <1>3. CaptureTyped'
    BY <1>1, <1>2 DEF U!IngestFails, CaptureTyped
  <1>4. QED
    BY <1>1, <1>3 DEF U!IngestFails, Bound, MayGo

\* The clean-up gives up bytes that may go.
LEMMA ConsumeBound ==
    ASSUME CaptureTyped, NEW o \in U!Op, Bound(o), U!ConsumeURLCapture(o)
    PROVE  CaptureTyped' /\ Bound(o)'
  <1>0. MayGo(o)
    BY DEF U!ConsumeURLCapture, Bound
  <1>1. op'[o].at = "finish" /\ op' \in [U!Op -> [at : Places, body : Body \cup {Nil}]]
    BY DEF U!ConsumeURLCapture, U!Goto, CaptureTyped, Places
  <1>2. /\ row' \in [U!Op -> [state : {"none", "ready", "consumed"}, sha : Body \cup {Nil}]]
        /\ row'[o].sha = row[o].sha /\ (row'[o].state = "none" <=> row[o].state = "none")
    BY DEF U!ConsumeURLCapture, CaptureTyped
  <1>3. CaptureTyped'
    BY <1>1, <1>2 DEF U!ConsumeURLCapture, CaptureTyped
  <1>4. MayGo(o)'
    BY <1>0, <1>2 DEF U!ConsumeURLCapture, MayGo
  <1>5. QED
    BY <1>1, <1>2, <1>3, <1>4 DEF U!ConsumeURLCapture, Bound

LEMMA RestBound ==
    ASSUME CaptureTyped, NEW o \in U!Op, Bound(o), U!Finish(o) \/ U!Fail(o) \/ U!Retry(o)
    PROVE  CaptureTyped' /\ Bound(o)'
  <1>1. PICK l \in {"succeeded", "failed", "queued"} :
          U!Goto(o, l) /\ UNCHANGED <<site, row, spared, used, marker, pub, doc>>
    BY DEF U!Finish, U!Fail, U!Retry
  <1>2. l \in Places \ {"ensure", "start", "publish"} /\ l # "consume"
    BY DEF Places
  <1>3. QED
    BY <1>1, <1>2, MovesOn

\* An expiry takes the bytes of a row that an attempt may hold.
LEMMA ExpireBound ==
    ASSUME CaptureTyped, NEW o \in U!Op, Bound(o), U!ExpireURLCaptures(o)
    PROVE  CaptureTyped' /\ Bound(o)'
  <1>1. /\ row' \in [U!Op -> [state : {"none", "ready", "consumed"}, sha : Body \cup {Nil}]]
        /\ row'[o].sha = row[o].sha /\ row'[o].state # "none" /\ row[o].state # "none"
    BY DEF U!ExpireURLCaptures, CaptureTyped
  <1>2. spared' \subseteq U!Op /\ o \in spared'
    BY DEF U!ExpireURLCaptures, CaptureTyped
  <1>3. CaptureTyped'
    BY <1>1, <1>2 DEF U!ExpireURLCaptures, CaptureTyped
  <1>4. QED
    BY <1>1, <1>2, <1>3 DEF U!ExpireURLCaptures, Bound, MayGo

-----------------------------------------------------------------------------
Act(o) ==
    \/ U!Begin(o) \/ U!Fetch(o) \/ U!EnsureURLCapture(o) \/ U!Start(o) \/ U!Publish(o)
    \/ U!IngestFails(o) \/ U!ConsumeURLCapture(o) \/ U!Finish(o) \/ U!Fail(o) \/ U!Retry(o)
    \/ U!ExpireURLCaptures(o)

\* A step of o leaves the row, the place and the bytes of every other operation.
LEMMA ActFrame ==
    ASSUME CaptureTyped, NEW o \in U!Op, Act(o), NEW p \in U!Op, p # o
    PROVE  /\ row'[p] = row[p] /\ used'[p] = used[p] /\ op'[p] = op[p]
           /\ p \in marker' => p \in marker
           /\ pub \subseteq pub' /\ spared \subseteq spared'
  <1>1. CASE U!Begin(o) \/ U!Fetch(o)
    BY <1>1 DEF U!Begin, U!Fetch, U!Goto, CaptureTyped
  <1>2. CASE U!EnsureURLCapture(o)
    BY <1>2 DEF U!EnsureURLCapture, U!Goto, CaptureTyped
  <1>3. CASE U!Start(o)
    BY <1>3 DEF U!Start, U!Goto, U!Unmarked, CaptureTyped
  <1>4. CASE U!Publish(o) \/ U!IngestFails(o)
    BY <1>4 DEF U!Publish, U!IngestFails, U!Goto, CaptureTyped
  <1>5. CASE U!ConsumeURLCapture(o) \/ U!ExpireURLCaptures(o)
    BY <1>5 DEF U!ConsumeURLCapture, U!ExpireURLCaptures, U!Goto, CaptureTyped
  <1>6. CASE U!Finish(o) \/ U!Fail(o) \/ U!Retry(o)
    BY <1>6 DEF U!Finish, U!Fail, U!Retry, U!Goto, CaptureTyped
  <1>7. QED
    BY <1>1, <1>2, <1>3, <1>4, <1>5, <1>6 DEF Act

LEMMA ActBound ==
    ASSUME CaptureInv, NEW o \in U!Op, Act(o)
    PROVE  CaptureInv'
  <1>0. CaptureTyped /\ Bound(o)
    BY DEF CaptureInv
  <1>1. CaptureTyped' /\ Bound(o)'
    BY <1>0, BeginBound, FetchBound, EnsureBound, StartBound, PublishBound, IngestFailsBound,
       ConsumeBound, RestBound, ExpireBound DEF Act
  <1>2. ASSUME NEW p \in U!Op, p # o PROVE Bound(p)'
    BY <1>0, <1>2, ActFrame, OthersStay DEF CaptureInv
  <1>3. QED
    BY <1>1, <1>2 DEF CaptureInv

\* A crash forgets what the attempts held, and nothing that is stored.
LEMMA CrashBound == CaptureInv /\ U!Crash => CaptureInv'
  <1> SUFFICES ASSUME CaptureInv, U!Crash PROVE CaptureInv'
    OBVIOUS
  <1> DEFINE over(o) == op[o].at \in {"queued", "succeeded", "failed"}
  <1>1. op' = [o \in U!Op |-> IF over(o) THEN op[o] ELSE [at |-> "queued", body |-> Nil]]
    BY DEF U!Crash
  <1>2. op' \in [U!Op -> [at : Places, body : Body \cup {Nil}]]
    BY <1>1 DEF CaptureInv, CaptureTyped, Places
  <1>3. doc' \in [status : {"none", "processing", "pending", "ready", "failed"},
                  hash : Body \cup {Nil}, text : Body \cup {Nil}]
    BY DEF U!Crash, CaptureInv, CaptureTyped
  <1>4. CaptureTyped'
    BY <1>2, <1>3 DEF U!Crash, CaptureInv, CaptureTyped
  <1>5. ASSUME NEW o \in U!Op PROVE Bound(o)'
    <2>1. op'[o].at \in {"queued", "succeeded", "failed"}
      BY <1>1
    <2>2. Bound(o) /\ UNCHANGED <<site, marker, row, pub, used, spared>>
      BY DEF U!Crash, CaptureInv
    <2>3. QED
      BY <2>1, <2>2 DEF Bound, MayGo
  <1>6. QED
    BY <1>4, <1>5 DEF CaptureInv

LEMMA NextBound == CaptureInv /\ [U!Next]_U!vars => CaptureInv'
  <1> SUFFICES ASSUME CaptureInv, [U!Next]_U!vars PROVE CaptureInv'
    OBVIOUS
  <1>1. CASE U!SiteChanges
    <2>1. CaptureTyped'
      BY <1>1 DEF U!SiteChanges, CaptureInv, CaptureTyped
    <2>2. QED
      BY <1>1, <2>1 DEF U!SiteChanges, CaptureInv, Bound, MayGo
  <1>2. CASE U!Crash
    BY <1>2, CrashBound
  <1>3. CASE \E o \in U!Op : U!Degrade(o)
    BY <1>3, DegradeBound DEF CaptureInv
  <1>4. CASE \E o \in U!Op : Act(o)
    BY <1>4, ActBound
  <1>5. CASE UNCHANGED U!vars
    BY <1>5 DEF U!vars, CaptureInv, CaptureTyped, Bound, MayGo
  <1>6. QED
    BY <1>1, <1>2, <1>3, <1>4, <1>5 DEF U!Next, Act

LEMMA CaptureHolds == U!Init /\ [][U!Next]_U!vars => []CaptureInv
  BY InitBound, NextBound, PTL

-----------------------------------------------------------------------------
(* Types are correct, for any operations and page contents (url.go).        *)
THEOREM CapturesAreTyped == U!Init /\ [][U!Next]_U!vars => []U!TypeOK
  <1>1. CaptureInv => U!TypeOK
    BY DEF CaptureInv, CaptureTyped, Bound, U!TypeOK
  <1>2. QED
    BY <1>1, CaptureHolds, PTL

(* All attempts of one operation ingest the same bytes, whatever the page    *)
(* contained when each of them looked (EnsureURLCapture).                    *)
THEOREM OneBodyPerOperation == U!Init /\ [][U!Next]_U!vars => []U!OneCapture
  <1>1. CaptureInv => U!OneCapture
    <2> SUFFICES ASSUME CaptureInv, NEW o \in U!Op PROVE Cardinality(used[o]) <= 1
      BY CountsAlike DEF U!OneCapture
    <2>1. used[o] \subseteq {row[o].sha}
      BY DEF CaptureInv, Bound
    <2>2. IsFiniteSet({row[o].sha}) /\ Cardinality({row[o].sha}) = 1
      BY FS_Singleton
    <2>3. QED
      BY <2>1, <2>2, FS_Subset
  <1>2. QED
    BY <1>1, CaptureHolds, PTL

(* The bytes of an operation are given up only once they were published, or  *)
(* at expiry, or for a refresh that took the hash of unpublished bytes for   *)
(* the published ones (ConsumeURLCapture, ExpireURLCaptures).                *)
THEOREM BytesAreKept == U!Init /\ [][U!Next]_U!vars => []U!CaptureKept
  <1>1. CaptureInv => U!CaptureKept
    BY DEF CaptureInv, Bound, MayGo, U!CaptureKept
  <1>2. QED
    BY <1>1, CaptureHolds, PTL

=============================================================================
