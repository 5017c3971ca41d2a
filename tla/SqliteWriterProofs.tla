------------------------- MODULE SqliteWriterProofs -------------------------
(***************************************************************************)
(* The two sides of the database. Of the writer: type correctness, the       *)
(* truth of its answers and the quiet after Stop, for any number of callers  *)
(* and any capacity of the queues. Of the readers beside it (Retrieval): an  *)
(* answer is of one view. Of the schema models kept in the same database     *)
(* (SchemaModel), by readers that take no view: each is stored and loaded    *)
(* whole, unless one was replaced meanwhile.                                *)
(*                                                                         *)
(* What makes answers true is that a request is in one place: in its queue   *)
(* once, or with the loop, or nowhere. While it is somewhere its slot is not  *)
(* used again, and nothing has been decided about it.                        *)
(***************************************************************************)
EXTENDS SqliteWriter, TLAPS, SequenceTheorems

-----------------------------------------------------------------------------
(* The inductive invariant.                                                  *)

Typed ==
    /\ caller \in [Request -> {"idle", "waiting", "answered"}]
    /\ expired \subseteq Request /\ committed \subseteq Request
    /\ answer \in [Request -> Answers] /\ result \in [Request -> Results]
    /\ queue \in [Priority -> Seq(Request)]
    /\ \A p \in Priority : Len(queue[p]) <= Capacity
    /\ loop \in Stages /\ burst \in 0 .. ControlBurst
    /\ IF loop = "run" THEN current \in Request ELSE current = NoRequest
    /\ stopper \in {"idle", "waiting", "stopped"}

\* Nothing was decided about r: its caller waits, or left without knowing the outcome.
Undecided(r) ==
    /\ result[r] = "none" /\ r \notin committed
    /\ \/ caller[r] = "waiting"
       \/ caller[r] = "answered" /\ answer[r] \in {"unknown", "stopped"}

\* A request is in the queue of its priority, once, and not with the loop as well.
Placed ==
    \A p \in Priority : \A i \in 1 .. Len(queue[p]) :
        /\ PriorityOf[queue[p][i]] = p
        /\ queue[p][i] # current
        /\ \A j \in 1 .. Len(queue[p]) : queue[p][j] = queue[p][i] => j = i

Queued(r) == \E p \in Priority : \E i \in 1 .. Len(queue[p]) : queue[p][i] = r
Open == \A r \in Request : Queued(r) \/ current = r => Undecided(r)

\* What caller, result and database say of one request agree.
Agreeing ==
    \A r \in Request :
        /\ caller[r] = "idle" => answer[r] = "none" /\ result[r] = "none"
        /\ caller[r] = "waiting" => answer[r] = "none"
        /\ result[r] = "ok" <=> r \in committed
        /\ answer[r] \in {"ok", "failed"} => result[r] = answer[r]
        /\ answer[r] = "refused" => result[r] = "none"

StoppedIsOver == stopper = "stopped" => loop = "done"

WriterInv == Typed /\ Placed /\ Open /\ Agreeing /\ StoppedIsOver

-----------------------------------------------------------------------------
(* Queues.                                                                   *)

\* What is left of a queue whose first request is taken.
LEMMA TakingFirst ==
    ASSUME NEW s \in Seq(Request), s # <<>>
    PROVE  /\ 1 \in 1 .. Len(s) /\ Head(s) = s[1] /\ Head(s) \in Request
           /\ Tail(s) \in Seq(Request) /\ Len(Tail(s)) = Len(s) - 1
           /\ \A i \in 1 .. Len(Tail(s)) : i + 1 \in 1 .. Len(s) /\ Tail(s)[i] = s[i + 1]
BY HeadTailProperties, EmptySeq, LenProperties

\* Taking the head of a queue away, or giving it to the loop, leaves the others in place.
LEMMA HeadIsTaken ==
    ASSUME Typed, Placed, NEW q \in Priority, queue[q] # <<>>, loop # "run",
           queue' = [queue EXCEPT ![q] = Tail(@)],
           current' \in {NoRequest, Head(queue[q])}
    PROVE  /\ Head(queue[q]) \in Request /\ Queued(Head(queue[q]))
           /\ queue' \in [Priority -> Seq(Request)]
           /\ \A p \in Priority : Len(queue'[p]) <= Capacity
           /\ Placed'
           /\ \A r \in Request : Queued(r)' => Queued(r) /\ r # Head(queue[q])
<1> DEFINE h == Head(queue[q])
<1>0. queue \in [Priority -> Seq(Request)] /\ \A p \in Priority : Len(queue[p]) <= Capacity
  BY DEF Typed
<1>1. /\ 1 \in 1 .. Len(queue[q]) /\ h = queue[q][1] /\ h \in Request
      /\ Tail(queue[q]) \in Seq(Request) /\ Len(Tail(queue[q])) = Len(queue[q]) - 1
      /\ \A i \in 1 .. Len(Tail(queue[q])) :
            i + 1 \in 1 .. Len(queue[q]) /\ Tail(queue[q])[i] = queue[q][i + 1]
  BY <1>0, TakingFirst
<1>2. queue' \in [Priority -> Seq(Request)]
  BY <1>0, <1>1
<1>3. \A p \in Priority : Len(queue'[p]) <= Capacity
  <2>1. Len(queue[q]) \in Nat /\ Capacity \in Nat
    BY <1>0, LenProperties, BoundAssumption
  <2> QED BY <1>0, <1>1, <2>1
<1>4. ASSUME NEW p \in Priority, NEW i \in 1 .. Len(queue'[p])
      PROVE  \E k \in 1 .. Len(queue[p]) :
                /\ queue'[p][i] = queue[p][k] /\ queue[p][k] \in Request /\ queue[p][k] # h
                /\ k = IF p = q THEN i + 1 ELSE i
  <2>1. CASE p = q
    <3>1. queue'[p] = Tail(queue[q])
      BY <1>0, <2>1
    <3>2. i + 1 \in 1 .. Len(queue[q]) /\ queue'[p][i] = queue[q][i + 1]
      BY <1>1, <3>1
    <3>3. queue[q][i + 1] \in Request
      BY <1>0, <3>2, ElementOfSeq
    <3>4. i + 1 # 1
      BY <1>2, LenProperties
    <3>5. queue[q][i + 1] # h
      BY <1>1, <3>2, <3>4 DEF Placed
    <3> QED BY <2>1, <3>2, <3>3, <3>5
  <2>2. CASE p # q
    <3>1. queue'[p] = queue[p]
      BY <1>0, <2>2
    <3>2. queue[p][i] \in Request
      BY <1>0, <3>1, ElementOfSeq
    <3>3. PriorityOf[queue[p][i]] = p /\ PriorityOf[h] = q
      BY <1>1, <3>1 DEF Placed
    <3> QED BY <2>2, <3>1, <3>2, <3>3
  <2> QED BY <2>1, <2>2
<1>5. Placed'
  <2> SUFFICES ASSUME NEW p \in Priority, NEW i \in 1 .. Len(queue'[p])
               PROVE  /\ PriorityOf[queue'[p][i]] = p
                      /\ queue'[p][i] # current'
                      /\ \A j \in 1 .. Len(queue'[p]) : queue'[p][j] = queue'[p][i] => j = i
    BY DEF Placed
  <2>1. PICK k \in 1 .. Len(queue[p]) :
            /\ queue'[p][i] = queue[p][k] /\ queue[p][k] \in Request /\ queue[p][k] # h
            /\ k = IF p = q THEN i + 1 ELSE i
    BY <1>4
  <2>2. queue'[p][i] # current'
    BY <2>1, RequestAssumption
  <2>3. ASSUME NEW j \in 1 .. Len(queue'[p]), queue'[p][j] = queue'[p][i]
        PROVE  j = i
    <3>1. PICK l \in 1 .. Len(queue[p]) :
              queue'[p][j] = queue[p][l] /\ l = IF p = q THEN j + 1 ELSE j
      BY <1>4
    <3>2. l = k
      BY <2>1, <2>3, <3>1 DEF Placed
    <3>3. Len(queue'[p]) \in Nat
      BY <1>2, LenProperties
    <3> QED BY <2>1, <3>1, <3>2, <3>3
  <2>4. PriorityOf[queue'[p][i]] = p
    BY <2>1 DEF Placed
  <2> QED BY <2>2, <2>3, <2>4
<1>6. ASSUME NEW r \in Request, Queued(r)'
      PROVE  Queued(r) /\ r # h
  <2>1. PICK p \in Priority : \E i \in 1 .. Len(queue'[p]) : queue'[p][i] = r
    BY <1>6, Zenon DEF Queued
  <2>2. PICK i \in 1 .. Len(queue'[p]) : queue'[p][i] = r
    BY <2>1, Zenon
  <2>3. PICK k \in 1 .. Len(queue[p]) : queue'[p][i] = queue[p][k] /\ queue[p][k] # h
    BY <1>4, Zenon
  <2>4. queue[p][k] = r /\ r # h
    BY <2>2, <2>3, Zenon
  <2> QED BY <2>4, Zenon DEF Queued
<1>7. Queued(h)
  BY <1>1 DEF Queued
<1> QED BY <1>1, <1>2, <1>3, <1>5, <1>6, <1>7

\* A request that is nowhere may be added to the end of its queue.
LEMMA RequestIsAdded ==
    ASSUME Typed, Placed, NEW r \in Request, ~Queued(r), current # r, ~Full(r),
           queue' = [queue EXCEPT ![PriorityOf[r]] = Append(@, r)], current' = current
    PROVE  /\ queue' \in [Priority -> Seq(Request)]
           /\ \A p \in Priority : Len(queue'[p]) <= Capacity
           /\ Placed'
           /\ \A s \in Request : Queued(s)' => Queued(s) \/ s = r
<1> DEFINE q == PriorityOf[r]
<1>0. /\ queue \in [Priority -> Seq(Request)] /\ \A p \in Priority : Len(queue[p]) <= Capacity
      /\ q \in Priority
  BY RequestAssumption DEF Typed
<1>1. /\ Append(queue[q], r) \in Seq(Request)
      /\ Len(Append(queue[q], r)) = Len(queue[q]) + 1
      /\ \A i \in 1 .. Len(queue[q]) : Append(queue[q], r)[i] = queue[q][i]
      /\ Append(queue[q], r)[Len(queue[q]) + 1] = r
      /\ Len(queue[q]) \in Nat
  BY <1>0, AppendProperties, LenProperties
<1>2. queue' \in [Priority -> Seq(Request)]
  BY <1>0, <1>1
<1>3. \A p \in Priority : Len(queue'[p]) <= Capacity
  BY <1>0, <1>1, BoundAssumption DEF Full
<1>4. ASSUME NEW p \in Priority, NEW i \in 1 .. Len(queue'[p])
      PROVE  \/ i \in 1 .. Len(queue[p]) /\ queue'[p][i] = queue[p][i] /\ queue[p][i] # r
             \/ p = q /\ i = Len(queue[q]) + 1 /\ queue'[p][i] = r
  <2>1. CASE p = q /\ i = Len(queue[q]) + 1
    BY <1>0, <1>1, <2>1
  <2>2. CASE p = q /\ i # Len(queue[q]) + 1
    <3>1. i \in 1 .. Len(queue[p]) /\ queue'[p][i] = queue[p][i]
      BY <1>0, <1>1, <2>2
    <3> QED BY <3>1 DEF Queued
  <2>3. CASE p # q
    <3>1. i \in 1 .. Len(queue[p]) /\ queue'[p][i] = queue[p][i]
      BY <1>0, <2>3
    <3> QED BY <3>1 DEF Queued
  <2> QED BY <2>1, <2>2, <2>3
<1>5. Placed'
  <2> SUFFICES ASSUME NEW p \in Priority, NEW i \in 1 .. Len(queue'[p])
               PROVE  /\ PriorityOf[queue'[p][i]] = p
                      /\ queue'[p][i] # current'
                      /\ \A j \in 1 .. Len(queue'[p]) : queue'[p][j] = queue'[p][i] => j = i
    BY DEF Placed
  <2>1. CASE i \in 1 .. Len(queue[p]) /\ queue'[p][i] = queue[p][i] /\ queue[p][i] # r
    BY <1>4, <2>1 DEF Placed
  <2>2. CASE p = q /\ i = Len(queue[q]) + 1 /\ queue'[p][i] = r
    BY <1>4, <2>2
  <2> QED BY <1>4, <2>1, <2>2
<1>6. ASSUME NEW s \in Request, Queued(s)'
      PROVE  Queued(s) \/ s = r
  <2>1. PICK p \in Priority : \E i \in 1 .. Len(queue'[p]) : queue'[p][i] = s
    BY <1>6 DEF Queued
  <2> QED BY <1>4, <2>1 DEF Queued
<1> QED BY <1>2, <1>3, <1>5, <1>6

-----------------------------------------------------------------------------
(* Every step keeps the invariant.                                           *)

LEMMA WriterStarts == Init => WriterInv
<1> SUFFICES ASSUME Init PROVE WriterInv
  OBVIOUS
<1> USE DEF Init
<1>1. Typed
  BY EmptySeq, BoundAssumption DEF Typed, Answers, Results, Stages
<1>2. ~\E p \in Priority : \E i \in 1 .. Len(queue[p]) : TRUE
  BY EmptySeq
<1>3. Placed /\ Open
  BY <1>2, RequestAssumption DEF Placed, Open, Queued
<1>4. Agreeing /\ StoppedIsOver
  BY DEF Agreeing, StoppedIsOver
<1> QED BY <1>1, <1>3, <1>4 DEF WriterInv

\* Calls: admitted, refused, expired, answered, forgotten.
LEMMA AdmitKeeps ==
    ASSUME WriterInv, NEW r \in Request, Admit(r)
    PROVE  WriterInv'
<1> USE DEF WriterInv
<1>1. ~Undecided(r)
  BY DEF Admit, Undecided
<1>2. ~Queued(r) /\ current # r
  BY <1>1 DEF Open
<1>3. /\ queue' \in [Priority -> Seq(Request)]
      /\ \A p \in Priority : Len(queue'[p]) <= Capacity
      /\ Placed'
      /\ \A s \in Request : Queued(s)' => Queued(s) \/ s = r
  BY <1>2, RequestIsAdded DEF Admit, loopVars
<1>4. Typed'
  BY <1>3 DEF Admit, Typed, loopVars
<1>5. Undecided(r)' /\ \A s \in Request \ {r} : Undecided(s) => Undecided(s)'
  BY DEF Admit, Undecided, Agreeing, Typed
<1>6. Open'
  BY <1>3, <1>5 DEF Admit, Open, loopVars
<1>7. Agreeing' /\ StoppedIsOver'
  BY DEF Admit, Agreeing, Typed, StoppedIsOver, loopVars
<1> QED BY <1>3, <1>4, <1>6, <1>7

LEMMA CallKeeps ==
    ASSUME WriterInv, NEW r \in Request, Refuse(r) \/ ContextDone(r) \/ Wait(r) \/ Forget(r)
    PROVE  WriterInv'
<1> USE DEF WriterInv, Refuse, ContextDone, Wait, Forget, StopSeen, Answered, ContextAnswer
<1>1. Typed'
  <2>1. queue' = queue /\ loop' = loop /\ current' = current /\ burst' = burst /\ stopper' = stopper
    BY DEF loopVars
  <2>2. /\ caller' \in [Request -> {"idle", "waiting", "answered"}]
        /\ expired' \subseteq Request /\ committed' \subseteq Request
    BY DEF Typed
  <2>3. result' \in [Request -> Results]
    BY DEF Typed, Results
  <2>4. answer' \in [Request -> Answers]
    BY DEF Typed, Answers, Results
  <2> QED BY <2>1, <2>2, <2>3, <2>4 DEF Typed
<1>2. Placed'
  BY DEF Placed, loopVars
<1>3. Undecided(r) => Undecided(r)'
  BY DEF Undecided, Agreeing, Typed
<1>4. \A s \in Request \ {r} : Undecided(s) => Undecided(s)'
  BY DEF Undecided, Typed
<1>5. Open'
  BY <1>3, <1>4 DEF Open, Queued, loopVars
<1>6. Agreeing'
  BY DEF Agreeing, Typed, Results
<1>7. StoppedIsOver'
  BY DEF StoppedIsOver, loopVars
<1> QED BY <1>1, <1>2, <1>5, <1>6, <1>7

\* The loop takes a request: it runs it, or answers that its context is done.
LEMMA TakeKeeps ==
    ASSUME WriterInv, NEW p \in Priority, loop \in {"first", "second"}, Take(p)
    PROVE  WriterInv'
<1> DEFINE h == Head(queue[p])
<1> USE DEF WriterInv
<1>1. current' \in {NoRequest, h}
  BY DEF Take
<1>2. /\ h \in Request /\ Queued(h)
      /\ queue' \in [Priority -> Seq(Request)]
      /\ \A q \in Priority : Len(queue'[q]) <= Capacity
      /\ Placed'
      /\ \A r \in Request : Queued(r)' => Queued(r) /\ r # h
  BY <1>1, HeadIsTaken DEF Take
<1>3. Undecided(h)
  BY <1>2 DEF Open
<1>4. Typed'
  <2>1. burst' \in 0 .. ControlBurst
    BY BoundAssumption DEF Take, Typed
  <2>2. /\ caller' = caller /\ expired' = expired /\ answer' = answer
        /\ committed' = committed /\ stopper' = stopper
    BY DEF Take, callerVars
  <2>3. /\ result' \in [Request -> Results] /\ loop' \in Stages
        /\ IF loop' = "run" THEN current' \in Request ELSE current' = NoRequest
    <3>1. CASE Skips(h)
      BY <1>2, <3>1 DEF Take, Typed, Results, Stages
    <3>2. CASE ~Skips(h)
      BY <1>2, <3>2 DEF Take, Typed, Results, Stages
    <3> QED BY <3>1, <3>2
  <2> QED BY <1>2, <2>1, <2>2, <2>3 DEF Typed
<1>5. \A r \in Request : r # h => result'[r] = result[r]
  BY <1>2 DEF Take, Typed
<1>6. \A r \in Request : Queued(r)' => Undecided(r)'
  BY <1>2, <1>5 DEF Take, Open, Undecided, callerVars
<1>7. \A r \in Request : current' = r => Undecided(r)'
  BY <1>3, RequestAssumption DEF Take, Undecided, callerVars
<1>8. Agreeing'
  BY <1>2, <1>3, <1>5 DEF Take, Agreeing, Undecided, Typed, callerVars
<1>9. StoppedIsOver'
  BY DEF Take, StoppedIsOver
<1> QED BY <1>2, <1>4, <1>6, <1>7, <1>8, <1>9 DEF Open

\* The loop after Stop: the requests that wait are answered with the stop.
LEMMA RejectKeeps ==
    ASSUME WriterInv, RejectQueued
    PROVE  WriterInv'
<1> DEFINE p == RejectOf(loop)
<1> DEFINE h == Head(queue[p])
<1> USE DEF WriterInv
<1>0. p \in Priority /\ loop # "run" /\ current = NoRequest /\ AfterReject(loop) \in Stages \ {"run"}
  BY DEF RejectQueued, Rejecting, RejectOf, AfterReject, Priority, Typed, Stages
<1>1. CASE queue[p] = <<>>
  <2>1. loop' = AfterReject(loop) /\ UNCHANGED <<queue, result, callerVars, committed, current, burst, stopper>>
    BY <1>1 DEF RejectQueued
  <2>2. Typed' /\ Placed' /\ Open' /\ Agreeing'
    BY <1>0, <2>1 DEF Typed, Placed, Open, Queued, Undecided, Agreeing, callerVars
  <2>3. StoppedIsOver'
    BY <2>1 DEF RejectQueued, Rejecting, StoppedIsOver
  <2> QED BY <2>2, <2>3
<1>2. CASE queue[p] # <<>>
  <2>1. /\ result' = [result EXCEPT ![h] = "stopped"]
        /\ queue' = [queue EXCEPT ![p] = Tail(@)]
        /\ UNCHANGED <<loop, callerVars, committed, current, burst, stopper>>
    BY <1>2 DEF RejectQueued
  <2>2. /\ h \in Request /\ Queued(h)
        /\ queue' \in [Priority -> Seq(Request)]
        /\ \A q \in Priority : Len(queue'[q]) <= Capacity
        /\ Placed'
        /\ \A r \in Request : Queued(r)' => Queued(r) /\ r # h
    BY <1>0, <1>2, <2>1, HeadIsTaken
  <2>3. Undecided(h)
    BY <2>2 DEF Open
  <2>4. Typed'
    BY <1>0, <2>1, <2>2 DEF Typed, Results, callerVars
  <2>5. Open'
    BY <1>0, <2>1, <2>2, RequestAssumption DEF Open, Undecided, Typed, callerVars
  <2>6. Agreeing'
    BY <2>1, <2>2, <2>3 DEF Agreeing, Undecided, Typed, callerVars
  <2>7. StoppedIsOver'
    BY <2>1 DEF StoppedIsOver
  <2> QED BY <2>2, <2>4, <2>5, <2>6, <2>7
<1> QED BY <1>1, <1>2

\* The callback returns.
LEMMA ReturnKeeps ==
    ASSUME WriterInv, Return
    PROVE  WriterInv'
<1> USE DEF WriterInv
<1>1. current \in Request /\ current' = NoRequest /\ ~Queued(current)
  BY DEF Return, Typed, Queued, Placed
<1>2. Undecided(current)
  BY <1>1 DEF Open
<1>3. Typed'
  BY <1>1 DEF Return, Typed, Results, Stages, callerVars
<1>4. Placed'
  <2> SUFFICES ASSUME NEW p \in Priority, NEW i \in 1 .. Len(queue[p])
               PROVE  queue[p][i] # NoRequest
    BY <1>1 DEF Return, Placed
  <2>1. queue[p][i] \in Request
    BY ElementOfSeq DEF Typed
  <2> QED BY <2>1, RequestAssumption
<1>5. \A r \in Request \ {current} : result'[r] = result[r] /\ (r \in committed' <=> r \in committed)
  BY <1>1 DEF Return, Typed
<1>6. Open'
  BY <1>1, <1>5, RequestAssumption DEF Return, Open, Queued, Undecided, callerVars
<1>7. Agreeing'
  <2> SUFFICES ASSUME NEW r \in Request
               PROVE  /\ caller[r] = "idle" => answer[r] = "none" /\ result'[r] = "none"
                      /\ caller[r] = "waiting" => answer[r] = "none"
                      /\ result'[r] = "ok" <=> r \in committed'
                      /\ answer[r] \in {"ok", "failed"} => result'[r] = answer[r]
                      /\ answer[r] = "refused" => result'[r] = "none"
    BY DEF Return, Agreeing, callerVars
  <2>1. CASE r = current
    BY <1>1, <1>2, <2>1 DEF Return, Undecided, Agreeing, Typed
  <2>2. CASE r # current
    BY <1>5, <2>2 DEF Agreeing
  <2> QED BY <2>1, <2>2
<1>8. StoppedIsOver'
  BY DEF Return, StoppedIsOver
<1> QED BY <1>3, <1>4, <1>6, <1>7, <1>8

LEMMA WriterKeeps == WriterInv /\ [Next]_vars => WriterInv'
<1> SUFFICES ASSUME WriterInv, [Next]_vars PROVE WriterInv'
  OBVIOUS
<1>1. ASSUME NEW r \in Request, Admit(r) PROVE WriterInv'
  BY <1>1, AdmitKeeps
<1>2. ASSUME NEW r \in Request, Refuse(r) \/ ContextDone(r) \/ Wait(r) \/ Forget(r) PROVE WriterInv'
  BY <1>2, CallKeeps
<1>3. ASSUME NEW p \in Priority, TakeFavoured(p) \/ TakeAny(p) PROVE WriterInv'
  BY <1>3, TakeKeeps DEF TakeFavoured, TakeAny
<1>4. CASE NothingFavoured \/ SeeStop
  <2>1. /\ UNCHANGED <<callerVars, queue, result, committed, current, burst, stopper>>
        /\ loop # "run" /\ loop # "done" /\ loop' \in Stages /\ loop' # "run"
    BY <1>4 DEF NothingFavoured, SeeStop, Stages
  <2>2. Typed'
    BY <2>1 DEF WriterInv, Typed, callerVars
  <2>3. Placed'
    BY <2>1 DEF WriterInv, Placed
  <2>4. Open'
    BY <2>1 DEF WriterInv, Open, Queued, Undecided, callerVars
  <2>5. Agreeing' /\ StoppedIsOver'
    BY <2>1 DEF WriterInv, Agreeing, StoppedIsOver, callerVars
  <2> QED BY <2>2, <2>3, <2>4, <2>5 DEF WriterInv
<1>5. CASE Return
  BY <1>5, ReturnKeeps
<1>6. CASE RejectQueued
  BY <1>6, RejectKeeps
<1>7. CASE Stop \/ StopReturns
  BY <1>7 DEF Stop, StopReturns, LoopIsOver, WriterInv, Typed, Placed, Open, Queued, Undecided,
              Agreeing, StoppedIsOver, callerVars, loopVars
<1>8. CASE UNCHANGED vars
  BY <1>8 DEF vars, callerVars, loopVars, WriterInv, Typed, Placed, Open, Queued, Undecided,
              Agreeing, StoppedIsOver
<1> QED BY <1>1, <1>2, <1>3, <1>4, <1>5, <1>6, <1>7, <1>8 DEF Next, LoopStep

-----------------------------------------------------------------------------
(* The theorems.                                                             *)

\* A request is in one place at a time and undecided while it is anywhere: the
\* inductive invariant of Writer.do and Writer.loop.
THEOREM RequestsAreInOnePlace == Spec => []WriterInv
<1>1. Init => WriterInv
  BY WriterStarts
<1>2. WriterInv /\ [Next]_vars => WriterInv'
  BY WriterKeeps
<1> QED BY <1>1, <1>2, PTL DEF Spec

\* The shape of the state, for any callers and capacities.
THEOREM TypeCorrect == Spec => []TypeOK
<1>1. WriterInv => TypeOK
  <2> SUFFICES ASSUME WriterInv PROVE TypeOK
    OBVIOUS
  <2>1. \A p \in Priority : ToSet(queue[p]) \subseteq Request
    BY ElementOfSeq, LenProperties DEF WriterInv, Typed, ToSet
  <2> QED BY <2>1 DEF WriterInv, Typed, TypeOK
<1> QED BY <1>1, RequestsAreInOnePlace, PTL

\* An answer of the writer tells the truth about the database: success was committed,
\* failure and refusal were not (Writer.do, ErrWriteUnknown).
THEOREM AnswersTellTheTruth == Spec => []AnswersAreTrue
<1>1. WriterInv => AnswersAreTrue
  BY DEF WriterInv, Agreeing, AnswersAreTrue
<1> QED BY <1>1, RequestsAreInOnePlace, PTL

\* Once Stop has answered without an error nothing is committed (Writer.Stop).
THEOREM QuietAfterStop == Spec => StoppedIsQuiet
<1> DEFINE Quiet == stopper = "stopped" => committed' \subseteq committed /\ loop' # "run"
<1>1. WriterInv /\ [Next]_vars => [Quiet]_vars
  <2> SUFFICES ASSUME WriterInv, Next, stopper = "stopped"
               PROVE  committed' \subseteq committed /\ loop' # "run"
    BY DEF Quiet
  <2>1. loop = "done"
    BY DEF WriterInv, StoppedIsOver
  <2>2. ~LoopStep
    BY <2>1 DEF LoopStep, TakeFavoured, TakeAny, NothingFavoured, SeeStop, Return, RejectQueued, Rejecting
  <2> QED BY <2>1, <2>2 DEF Next, Admit, Refuse, ContextDone, Wait, Forget, Stop, StopReturns, loopVars
<1> QED BY <1>1, RequestsAreInOnePlace, PTL DEF Spec, StoppedIsQuiet, Quiet

-----------------------------------------------------------------------------
(* The readers, for any documents, generations and scopes, whatever is       *)
(* published, retired or deleted beside them.                                *)

CONSTANTS Doc, Changing, BaseOf, ChunksOf, Scopes, Siblings, Radius, MaxGen, MaxVariants
VARIABLES db, reader

R == INSTANCE Retrieval

Searching == {"lexical", "embed", "vector", "fuse", "rerank", "windows", "visible"}
Continuing == {"identify", "anchor", "neighbours"}

Database == [active : [Doc -> R!Gen], mapped : SUBSET (Doc \X R!Gen), chunks : SUBSET R!Chunk,
             deleted : SUBSET Doc, torn : SUBSET (Doc \X R!Gen)]

ReadRequest == [pc : Searching \cup Continuing \cup {"providers", "pin", "answered", "continued"},
             scope : Scopes \cup {{}}, bases : SUBSET R!Base, mode : {"hybrid", "vector", "lexical"},
             variant : Nat, view : SUBSET R!Chunk, found : SUBSET R!Chunk, around : SUBSET R!Chunk,
             gone : SUBSET Doc, doc : SUBSET Doc, gen : 0 .. MaxGen, disturbed : BOOLEAN]

ReaderTyped == db \in Database /\ reader \in {R!NoReader} \cup ReadRequest

\* The chunks of document d and generation g among those of b.
Kept(b, d, g) == R!Generation(d, g) \subseteq b.chunks

\* What is published is there.
Stored(b) ==
    /\ \A d \in Doc \ b.deleted : Kept(b, d, b.active[d])
    /\ \A m \in b.mapped \ b.torn : m[1] \notin b.deleted => Kept(b, m[1], m[2])

\* A view is of one generation of each document, and has all of it.
OneView(view) ==
    /\ \A b, c \in view : b.doc = c.doc => b.gen = c.gen
    /\ \A h \in view : R!Generation(h.doc, h.gen) \subseteq view

\* A search keeps to its view and its bases.
InScope(r) == r.bases = R!Base \/ r.bases \subseteq r.scope
HitsOf(r) == {c \in r.view : BaseOf[c.doc] \in r.bases}
WindowsOf(r) == {c \in r.view : \E h \in r.found : c.doc = h.doc /\ c.idx \in R!Around(h, Siblings)}
Searches(r) ==
    /\ r.pc \in {"providers", "pin"} => InScope(r) /\ r.found = {}
    /\ r.pc \in Searching => InScope(r) /\ OneView(r.view) /\ r.found \subseteq HitsOf(r)
    /\ r.pc = "visible" => r.around = WindowsOf(r)
    /\ r.pc = "answered" =>
        /\ \A b, c \in r.found \cup r.around :
            /\ b.doc = c.doc => b.gen = c.gen
            /\ b.doc \notin r.gone
            /\ BaseOf[b.doc] \in r.scope \/ r.bases = R!Base
        /\ \A h \in r.found : \A c \in R!Generation(h.doc, h.gen) :
            c.idx \in R!Around(h, Siblings) => c \in r.around

\* A continuation that nothing disturbed reads what it found when it began.
CurrentOf(b, d) == {c \in b.chunks : c.doc = d /\ c.gen = b.active[d]}
RestOf(r, C) == {c \in C : \E a \in r.found : c.idx \in R!Around(a, Radius)}
Continues(r, b) ==
    /\ r.pc \in Continuing \cup {"continued"} => \E d \in Doc : r.doc = {d}
    /\ r.pc = "identify" => r.gen # 0
    /\ r.pc \in Continuing /\ ~r.disturbed =>
        \A d \in r.doc \ b.deleted :
            /\ r.gen = 0 => r.view = CurrentOf(b, d)
            /\ r.gen # 0 /\ r.pc # "identify" => <<d, r.gen>> \in b.mapped
    /\ r.pc = "continued" =>
        /\ r.gen # 0 => \A c \in r.around : c.gen = r.gen
        /\ ~r.disturbed => \A d \in r.doc \ b.deleted :
              \/ r.around = RestOf(r, IF r.gen = 0 THEN r.view ELSE R!Generation(d, r.gen))
              \/ <<d, r.gen>> \in b.torn

RetrievalInv ==
    /\ ReaderTyped /\ Stored(db)
    /\ reader # R!NoReader => Searches(reader) /\ Continues(reader, db)

-----------------------------------------------------------------------------
(* Chunks and requests.                                                      *)

LEMMA GenerationHas ==
    ASSUME NEW d, NEW g, NEW c \in R!Generation(d, g)
    PROVE  c.doc = d /\ c.gen = g
  BY DEF R!Generation

LEMMA GenerationIn ==
    ASSUME NEW d \in Doc, NEW g \in R!Gen
    PROVE  R!Generation(d, g) \subseteq R!Chunk
  BY DEF R!Chunk

LEMMA ChunkIs ==
    ASSUME NEW c \in R!Chunk
    PROVE  /\ c.doc \in Doc /\ c.gen \in R!Gen
           /\ \A d, g : c \in R!Generation(d, g) <=> c.doc = d /\ c.gen = g
  <1>1. PICK d \in Doc, g \in R!Gen : c \in R!Generation(d, g)
    BY DEF R!Chunk
  <1>2. c.doc = d /\ c.gen = g
    BY <1>1, GenerationHas
  <1>3. QED
    BY <1>1, <1>2, GenerationHas

\* Only a request that was taken up is anywhere.
LEMMA RequestIs ==
    ASSUME RetrievalInv, reader.pc # "idle"
    PROVE  reader \in ReadRequest /\ Searches(reader) /\ Continues(reader, db)
  BY DEF RetrievalInv, ReaderTyped, R!NoReader

LEMMA ReaderSound ==
    ASSUME RetrievalInv, db' = db, reader' \in ReadRequest, Searches(reader'), Continues(reader', db)
    PROVE  RetrievalInv'
  <1>1. ReaderTyped' /\ Stored(db')
    BY DEF RetrievalInv, ReaderTyped
  <1>2. Searches(reader') /\ Continues(reader', db')
    OBVIOUS
  <1>3. (reader # R!NoReader => Searches(reader) /\ Continues(reader, db))'
    BY <1>2
  <1>4. Stored(db)'
    BY <1>1
  <1>5. QED
    BY <1>1, <1>3, <1>4 DEF RetrievalInv

-----------------------------------------------------------------------------
(* The writers.                                                              *)

\* What a continuation of d looks at is as before.
Untouched(d) ==
    /\ CurrentOf(db', d) = CurrentOf(db, d)
    /\ \A g : <<d, g>> \in db.mapped => <<d, g>> \in db'.mapped

Onward == db' \in Database /\ Stored(db') /\ db.deleted \subseteq db'.deleted /\ db.torn \subseteq db'.torn

\* A step that no continuation under way can notice.
LEMMA BesideSound ==
    ASSUME RetrievalInv, Onward, reader' = reader,
           reader.pc \in Continuing => \A d \in reader.doc \ db'.deleted : Untouched(d)
    PROVE  RetrievalInv'
  <1>1. ReaderTyped' /\ Stored(db)'
    BY DEF Onward, RetrievalInv, ReaderTyped
  <1>2. ASSUME reader # R!NoReader PROVE Searches(reader) /\ Continues(reader, db')
    <2>1. reader \in ReadRequest /\ Searches(reader) /\ Continues(reader, db)
      BY <1>2 DEF RetrievalInv, ReaderTyped
    <2>2. \A d \in reader.doc \ db'.deleted : d \in reader.doc \ db.deleted
      BY DEF Onward
    <2>3. reader.pc \in Continuing /\ ~reader.disturbed =>
            \A d \in reader.doc \ db'.deleted :
              /\ reader.gen = 0 => reader.view = CurrentOf(db', d)
              /\ reader.gen # 0 /\ reader.pc # "identify" => <<d, reader.gen>> \in db'.mapped
      BY <2>1, <2>2 DEF Continues, Untouched
    <2>4. reader.pc = "continued" /\ ~reader.disturbed => \A d \in reader.doc \ db'.deleted :
            \/ reader.around = RestOf(reader, IF reader.gen = 0 THEN reader.view ELSE R!Generation(d, reader.gen))
            \/ <<d, reader.gen>> \in db'.torn
      BY <2>1, <2>2 DEF Continues, Onward
    <2>5. Continues(reader, db')
      BY <2>1, <2>3, <2>4 DEF Continues
    <2>6. QED
      BY <2>1, <2>5
  <1>3. (reader # R!NoReader => Searches(reader) /\ Continues(reader, db))'
    BY <1>2
  <1>4. QED
    BY <1>1, <1>3 DEF RetrievalInv

\* A step about e that a continuation of e takes note of.
LEMMA DisturbSound ==
    ASSUME RetrievalInv, Onward, NEW e \in Doc, R!Disturb(e),
           \A d \in Doc \ (db'.deleted \cup {e}) : Untouched(d)
    PROVE  RetrievalInv'
  <1>0. reader # R!NoReader => reader \in ReadRequest /\ reader.doc \subseteq Doc
    BY DEF RetrievalInv, ReaderTyped, ReadRequest
  <1>1. CASE ~(reader.pc \in Continuing /\ e \in reader.doc)
    <2>1. reader' = reader
      BY <1>1 DEF R!Disturb, Continuing
    <2>2. reader.pc \in Continuing => \A d \in reader.doc \ db'.deleted : Untouched(d)
      <3>1. reader.pc \in Continuing => reader # R!NoReader
        BY DEF Continuing, R!NoReader
      <3>2. QED
        BY <1>0, <1>1, <3>1
    <2>3. QED
      BY <2>1, <2>2, BesideSound
  <1>2. CASE reader.pc \in Continuing /\ e \in reader.doc
    <2>1. reader.pc # "idle"
      BY <1>2 DEF Continuing
    <2>2. reader \in ReadRequest /\ Continues(reader, db)
      BY <2>1, RequestIs
    <2>3. reader' = [reader EXCEPT !.disturbed = TRUE]
      BY <1>2 DEF R!Disturb, Continuing
    <2>4. /\ reader' \in ReadRequest /\ reader'.pc = reader.pc /\ reader'.disturbed = TRUE
          /\ reader'.doc = reader.doc /\ reader'.gen = reader.gen
      BY <2>2, <2>3 DEF ReadRequest
    <2>5. Searches(reader')
      BY <1>2, <2>4 DEF Searches, Searching, Continuing
    <2>6. Continues(reader', db')
      BY <1>2, <2>2, <2>4 DEF Continues, Continuing
    <2>7. ReaderTyped' /\ Stored(db)'
      BY <2>4 DEF Onward, ReaderTyped
    <2>8. (reader # R!NoReader => Searches(reader) /\ Continues(reader, db))'
      BY <2>5, <2>6
    <2>9. QED
      BY <2>7, <2>8 DEF RetrievalInv
  <1>3. QED
    BY <1>1, <1>2

\* The next generation is beside the active one.
LEMMA StageSound ==
    ASSUME R!RetrievalAssumption, RetrievalInv, NEW e \in Changing, R!Stage(e)
    PROVE  RetrievalInv'
  <1> DEFINE new == R!Generation(e, db.active[e] + 1)
  <1>1. e \in Doc /\ db \in Database /\ Stored(db)
    BY DEF R!RetrievalAssumption, RetrievalInv, ReaderTyped
  <1>2. new \subseteq R!Chunk /\ db.active[e] \in Nat
    BY <1>1, GenerationIn DEF R!Stage, R!Gen, Database
  <1>3. \A c \in new : c.doc = e /\ c.gen = db.active[e] + 1
    BY GenerationHas
  <1>4. db' = [db EXCEPT !.chunks = @ \cup new] /\ reader' = reader
    BY DEF R!Stage
  <1> HIDE DEF new
  <1>5. /\ db' \in Database /\ db'.chunks = db.chunks \cup new /\ db'.active = db.active
        /\ db'.mapped = db.mapped /\ db'.deleted = db.deleted /\ db'.torn = db.torn
    BY <1>1, <1>2, <1>4 DEF Database
  <1>6. Stored(db')
    BY <1>1, <1>5 DEF Stored, Kept
  <1>7. Onward
    BY <1>5, <1>6 DEF Onward
  <1>8. ASSUME NEW d \in Doc PROVE Untouched(d)
    <2>1. \A c \in new : c.doc = d => c.gen # db.active[d]
      BY <1>2, <1>3
    <2>2. CurrentOf(db', d) = CurrentOf(db, d)
      BY <1>5, <2>1 DEF CurrentOf
    <2>3. QED
      BY <1>5, <2>2 DEF Untouched
  <1>9. reader.pc \in Continuing => reader.doc \subseteq Doc
    BY DEF RetrievalInv, ReaderTyped, ReadRequest, R!NoReader, Continuing
  <1>10. QED
    BY <1>4, <1>7, <1>8, <1>9, BesideSound

\* Only whole generations are activated.
LEMMA ActivateSound ==
    ASSUME R!RetrievalAssumption, RetrievalInv, NEW e \in Changing, R!activateDocumentGeneration(e)
    PROVE  RetrievalInv'
  <1> DEFINE g == db.active[e] + 1
  <1>1. e \in Doc /\ db \in Database /\ Stored(db)
    BY DEF R!RetrievalAssumption, RetrievalInv, ReaderTyped
  <1>2. g \in R!Gen /\ Kept(db, e, g) /\ R!Disturb(e)
        /\ db' = [db EXCEPT !.active[e] = g, !.mapped = @ \cup {<<e, g>>}]
    BY DEF R!activateDocumentGeneration, Kept
  <1> HIDE DEF g
  <1>3. /\ db' \in Database /\ db'.chunks = db.chunks /\ db'.deleted = db.deleted /\ db'.torn = db.torn
        /\ db'.mapped = db.mapped \cup {<<e, g>>} /\ db'.active[e] = g
        /\ \A d \in Doc \ {e} : db'.active[d] = db.active[d]
    <2>1. /\ db' = [active |-> [db.active EXCEPT ![e] = g], mapped |-> db.mapped \cup {<<e, g>>},
                    chunks |-> db.chunks, deleted |-> db.deleted, torn |-> db.torn]
          /\ db.active \in [Doc -> R!Gen] /\ db.mapped \subseteq Doc \X R!Gen
      BY <1>1, <1>2 DEF Database
    <2>2. [db.active EXCEPT ![e] = g] \in [Doc -> R!Gen] /\ db.mapped \cup {<<e, g>>} \subseteq Doc \X R!Gen
      BY <1>1, <1>2, <2>1
    <2>3. db' \in Database
      BY <1>1, <2>1, <2>2 DEF Database
    <2>4. QED
      BY <1>1, <2>1, <2>3
  <1>4. \A d, h : Kept(db', d, h) <=> Kept(db, d, h)
    BY <1>3 DEF Kept
  <1>5. Stored(db')
    BY <1>1, <1>2, <1>3, <1>4 DEF Stored
  <1>6. Onward
    BY <1>3, <1>5 DEF Onward
  <1>7. \A d \in Doc \ (db'.deleted \cup {e}) : Untouched(d)
    BY <1>3 DEF Untouched, CurrentOf
  <1>8. QED
    BY <1>1, <1>2, <1>6, <1>7, DisturbSound

LEMMA RetireMappingSound ==
    ASSUME R!RetrievalAssumption, RetrievalInv, NEW e \in Changing, NEW g \in R!Gen, R!RetireMapping(e, g)
    PROVE  RetrievalInv'
  <1>1. e \in Doc /\ db \in Database /\ Stored(db)
    BY DEF R!RetrievalAssumption, RetrievalInv, ReaderTyped
  <1>2. db' = [db EXCEPT !.mapped = @ \ {<<e, g>>}] /\ R!Disturb(e)
    BY DEF R!RetireMapping
  <1>3. /\ db' \in Database /\ db'.chunks = db.chunks /\ db'.deleted = db.deleted /\ db'.torn = db.torn
        /\ db'.mapped = db.mapped \ {<<e, g>>} /\ db'.active = db.active
    BY <1>1, <1>2 DEF Database
  <1>4. Stored(db')
    BY <1>1, <1>3 DEF Stored, Kept
  <1>5. Onward
    BY <1>3, <1>4 DEF Onward
  <1>6. \A d \in Doc \ (db'.deleted \cup {e}) : Untouched(d)
    BY <1>3 DEF Untouched, CurrentOf
  <1>7. QED
    BY <1>1, <1>2, <1>5, <1>6, DisturbSound

\* A chunk of an older generation goes, and tears what is still mapped.
LEMMA RetireChunkSound ==
    ASSUME R!RetrievalAssumption, RetrievalInv, NEW x \in db.chunks, R!RetireChunk(x)
    PROVE  RetrievalInv'
  <1>1. /\ db \in Database /\ Stored(db) /\ x \in R!Chunk /\ x.doc \in Doc /\ x.gen \in R!Gen
        /\ x.gen < db.active[x.doc]
    BY ChunkIs DEF RetrievalInv, ReaderTyped, Database, R!RetireChunk
  <1>2. /\ db' = [db EXCEPT !.chunks = @ \ {x}, !.torn = @ \cup ({<<x.doc, x.gen>>} \cap db.mapped)]
        /\ reader' = reader
    BY DEF R!RetireChunk
  <1>3. /\ db' \in Database /\ db'.chunks = db.chunks \ {x} /\ db'.deleted = db.deleted
        /\ db'.torn = db.torn \cup ({<<x.doc, x.gen>>} \cap db.mapped)
        /\ db'.mapped = db.mapped /\ db'.active = db.active
    BY <1>1, <1>2 DEF Database
  <1>4. x.gen # db.active[x.doc]
    BY <1>1 DEF R!Gen, Database
  <1>5. Stored(db')
    <2>1. ASSUME NEW d \in Doc \ db'.deleted PROVE Kept(db', d, db'.active[d])
      <3>1. x \notin R!Generation(d, db.active[d])
        BY <1>1, <1>4, ChunkIs
      <3>2. QED
        BY <1>1, <1>3, <2>1, <3>1 DEF Stored, Kept
    <2>2. ASSUME NEW m \in db'.mapped \ db'.torn, m[1] \notin db'.deleted PROVE Kept(db', m[1], m[2])
      <3>1. m = <<m[1], m[2]>> /\ m # <<x.doc, x.gen>> /\ m \in db.mapped \ db.torn
        BY <1>1, <1>3, <2>2 DEF Database
      <3>2. x \notin R!Generation(m[1], m[2])
        BY <1>1, <3>1, ChunkIs
      <3>3. QED
        BY <1>1, <1>3, <2>2, <3>1, <3>2 DEF Stored, Kept
    <2>3. QED
      BY <2>1, <2>2 DEF Stored
  <1>6. Onward
    BY <1>3, <1>5 DEF Onward
  <1>7. ASSUME NEW d \in Doc PROVE Untouched(d)
    <2>1. x \notin CurrentOf(db, d)
      BY <1>4 DEF CurrentOf
    <2>2. QED
      BY <1>3, <2>1 DEF Untouched, CurrentOf
  <1>8. reader.pc \in Continuing => reader.doc \subseteq Doc
    BY DEF RetrievalInv, ReaderTyped, ReadRequest, R!NoReader, Continuing
  <1>9. QED
    BY <1>2, <1>6, <1>7, <1>8, BesideSound

LEMMA MarkSound ==
    ASSUME RetrievalInv, NEW D \in SUBSET Doc, R!MarkDeleting(D)
    PROVE  RetrievalInv'
  <1>1. db \in Database /\ Stored(db)
    BY DEF RetrievalInv, ReaderTyped
  <1>2. db' = [db EXCEPT !.deleted = @ \cup D] /\ reader' = reader
    BY DEF R!MarkDeleting
  <1>3. /\ db' \in Database /\ db'.chunks = db.chunks /\ db'.deleted = db.deleted \cup D
        /\ db'.torn = db.torn /\ db'.mapped = db.mapped /\ db'.active = db.active
    BY <1>1, <1>2 DEF Database
  <1>4. Stored(db')
    BY <1>1, <1>3 DEF Stored, Kept
  <1>5. Onward
    BY <1>3, <1>4 DEF Onward
  <1>6. \A d \in reader.doc \ db'.deleted : Untouched(d)
    BY <1>3 DEF Untouched, CurrentOf
  <1>7. QED
    BY <1>2, <1>5, <1>6, BesideSound

\* What is cleaned up is deleted.
LEMMA CleanSound ==
    ASSUME RetrievalInv, NEW e, R!deleteDocumentGenerations(e)
    PROVE  RetrievalInv'
  <1>1. db \in Database /\ Stored(db) /\ e \in db.deleted /\ reader' = reader
    BY DEF RetrievalInv, ReaderTyped, R!deleteDocumentGenerations, R!Live
  <1>2. CASE db' = [db EXCEPT !.chunks = {c \in @ : c.doc # e}]
    <2>1. /\ db' \in Database /\ db'.chunks = {c \in db.chunks : c.doc # e} /\ db'.deleted = db.deleted
          /\ db'.torn = db.torn /\ db'.mapped = db.mapped /\ db'.active = db.active
      BY <1>1, <1>2 DEF Database
    <2>2. ASSUME NEW d, d # e, NEW g, Kept(db, d, g) PROVE Kept(db', d, g)
      BY <2>1, <2>2, GenerationHas DEF Kept
    <2>3. Stored(db')
      BY <1>1, <2>1, <2>2 DEF Stored
    <2>4. Onward
      BY <2>1, <2>3 DEF Onward
    <2>5. \A d \in reader.doc \ db'.deleted : Untouched(d)
      BY <1>1, <2>1 DEF Untouched, CurrentOf
    <2>6. QED
      BY <1>1, <2>4, <2>5, BesideSound
  <1>3. CASE db' = [db EXCEPT !.mapped = {m \in @ : m[1] # e}]
    <2>1. /\ db' \in Database /\ db'.chunks = db.chunks /\ db'.deleted = db.deleted
          /\ db'.torn = db.torn /\ db'.mapped = {m \in db.mapped : m[1] # e} /\ db'.active = db.active
      BY <1>1, <1>3 DEF Database
    <2>2. Stored(db')
      BY <1>1, <2>1 DEF Stored, Kept
    <2>3. Onward
      BY <2>1, <2>2 DEF Onward
    <2>4. \A d \in reader.doc \ db'.deleted : Untouched(d)
      BY <1>1, <2>1 DEF Untouched, CurrentOf
    <2>5. QED
      BY <1>1, <2>3, <2>4, BesideSound
  <1>4. QED
    BY <1>2, <1>3 DEF R!deleteDocumentGenerations

-----------------------------------------------------------------------------
(* The reader.                                                               *)

LEMMA FreshIs ==
    ASSUME R!RetrievalAssumption, NEW step \in {"providers", "anchor", "identify"}
    PROVE  R!Fresh(step) \in [pc : {step}, scope : {{}}, bases : {{}}, mode : {"lexical"}, variant : {1},
                            view : {{}}, found : {{}}, around : {{}}, gone : {{}}, doc : {{}},
                            gen : {0}, disturbed : {FALSE}]
  BY DEF R!Fresh

LEMMA ScopeSound ==
    ASSUME R!RetrievalAssumption, RetrievalInv, R!resolveSearchScope
    PROVE  RetrievalInv'
  <1>1. db' = db
    BY DEF R!resolveSearchScope, R!At
  <1>2. PICK saved \in Scopes, requested \in SUBSET R!Base :
          reader' = [R!Fresh("providers") EXCEPT !.scope = saved,
              !.bases = IF saved \cap requested = {} THEN R!Base ELSE saved \cap requested]
    BY DEF R!resolveSearchScope
  <1> DEFINE bases == IF saved \cap requested = {} THEN R!Base ELSE saved \cap requested
  <1>3. bases \subseteq R!Base /\ (bases = R!Base \/ bases \subseteq saved)
    OBVIOUS
  <1>4. reader' = [pc |-> "providers", scope |-> saved, bases |-> bases, mode |-> "lexical",
                   variant |-> 1, view |-> {}, found |-> {}, around |-> {}, gone |-> {}, doc |-> {},
                   gen |-> 0, disturbed |-> FALSE]
    BY <1>2 DEF R!Fresh
  <1> HIDE DEF bases
  <1>5. reader' \in ReadRequest
    BY <1>3, <1>4 DEF ReadRequest, R!RetrievalAssumption
  <1>6. Searches(reader') /\ Continues(reader', db)
    BY <1>3, <1>4 DEF Searches, Continues, InScope, Searching, Continuing
  <1>7. QED
    BY <1>1, <1>5, <1>6, ReaderSound

LEMMA ProvidersSound ==
    ASSUME RetrievalInv, R!searchProviders
    PROVE  RetrievalInv'
  <1>1. reader.pc = "providers" /\ db' = db
    BY DEF R!searchProviders, R!At
  <1>2. reader \in ReadRequest /\ Searches(reader)
    BY <1>1, RequestIs
  <1>3. PICK m \in {"hybrid", "vector", "lexical"} : reader' = [reader EXCEPT !.pc = "pin", !.mode = m]
    BY DEF R!searchProviders
  <1>4. /\ reader' \in ReadRequest /\ reader'.pc = "pin" /\ reader'.found = reader.found
        /\ reader'.bases = reader.bases /\ reader'.scope = reader.scope
    BY <1>2, <1>3 DEF ReadRequest
  <1>5. Searches(reader') /\ Continues(reader', db)
    BY <1>1, <1>2, <1>4 DEF Searches, Continues, InScope, Searching, Continuing
  <1>6. QED
    BY <1>1, <1>4, <1>5, ReaderSound

\* What a snapshot shows is one view, for what is published is there.
LEMMA PinSound ==
    ASSUME RetrievalInv, R!Pin
    PROVE  RetrievalInv'
  <1>1. reader.pc = "pin" /\ db' = db /\ reader' = [reader EXCEPT !.pc = "lexical", !.view = R!Current]
    BY DEF R!Pin, R!At
  <1>2. reader \in ReadRequest /\ Searches(reader) /\ db \in Database /\ Stored(db)
    BY <1>1, RequestIs DEF RetrievalInv, ReaderTyped
  <1>3. R!Current \subseteq R!Chunk
    BY <1>2 DEF R!Current, Database
  <1>4. /\ reader' \in ReadRequest /\ reader'.pc = "lexical" /\ reader'.found = reader.found
        /\ reader'.bases = reader.bases /\ reader'.scope = reader.scope /\ reader'.view = R!Current
    BY <1>1, <1>2, <1>3 DEF ReadRequest, Searching
  <1>5. OneView(R!Current)
    <2>1. \A b, c \in R!Current : b.doc = c.doc => b.gen = c.gen
      BY DEF R!Current
    <2>2. ASSUME NEW h \in R!Current, NEW c \in R!Generation(h.doc, h.gen) PROVE c \in R!Current
      <3>1. h.doc \in Doc \ db.deleted /\ h.gen = db.active[h.doc]
        BY <1>3, ChunkIs DEF R!Current, R!Live
      <3>2. c \in db.chunks
        BY <1>2, <2>2, <3>1 DEF Stored, Kept
      <3>3. c.doc = h.doc /\ c.gen = h.gen
        BY <2>2, GenerationHas
      <3>4. QED
        BY <3>1, <3>2, <3>3 DEF R!Current, R!Live
    <2>3. QED
      BY <2>1, <2>2 DEF OneView
  <1>6. Searches(reader') /\ Continues(reader', db)
    BY <1>1, <1>2, <1>4, <1>5 DEF Searches, Continues, InScope, Searching, Continuing
  <1>7. QED
    BY <1>1, <1>4, <1>6, ReaderSound

\* A search goes on with its view, and with what it has found there.
LEMMA SearchingSound ==
    ASSUME RetrievalInv, db' = db, reader.pc \in Searching, reader' \in ReadRequest,
           reader'.pc \in Searching \ {"visible"}, reader'.found \subseteq reader.found \cup HitsOf(reader),
           reader'.view = reader.view, reader'.bases = reader.bases, reader'.scope = reader.scope
    PROVE  RetrievalInv'
  <1>1. reader \in ReadRequest /\ Searches(reader)
    BY RequestIs DEF Searching
  <1>2. Searches(reader') /\ Continues(reader', db)
    BY <1>1 DEF Searches, Continues, InScope, HitsOf, Searching, Continuing
  <1>3. QED
    BY <1>2, ReaderSound

LEMMA LanesSound ==
    ASSUME RetrievalInv, R!LexicalSearch \/ R!Embed \/ R!VectorSearch \/ R!Fuse \/ R!Rerank
    PROVE  RetrievalInv'
  <1>1. db' = db /\ reader.pc \in Searching
    BY DEF R!LexicalSearch, R!Embed, R!VectorSearch, R!Fuse, R!Rerank, R!At, Searching
  <1>2. reader \in ReadRequest
    BY <1>1, RequestIs DEF Searching
  <1>3. HitsOf(reader) = R!Finds /\ R!Finds \subseteq R!Chunk /\ reader.found \subseteq R!Chunk
    BY <1>2 DEF HitsOf, R!Finds, R!View, ReadRequest
  <1> DEFINE Onwards(p, F) == /\ reader' \in ReadRequest /\ reader'.pc = p /\ reader'.found = F
                             /\ reader'.view = reader.view /\ reader'.bases = reader.bases
                             /\ reader'.scope = reader.scope
             Goes == \E p \in Searching \ {"visible"}, F \in SUBSET (reader.found \cup R!Finds) : Onwards(p, F)
  <1>4. Goes => RetrievalInv'
    BY <1>1, <1>3, SearchingSound
  <1>5. CASE R!LexicalSearch
    <2>1. PICK p \in {"fuse", "embed"} : reader' = [reader EXCEPT !.pc = p, !.found = @ \cup R!Finds]
      BY <1>5 DEF R!LexicalSearch
    <2>2. p \in Searching \ {"visible"}
      BY DEF Searching
    <2>3. Onwards(p, reader.found \cup R!Finds)
      BY <1>2, <1>3, <2>1, <2>2 DEF ReadRequest
    <2>4. QED
      BY <1>4, <2>2, <2>3
  <1>6. CASE \E p \in {"lexical", "vector", "rerank"} : reader' = [reader EXCEPT !.pc = p]
    <2>1. PICK p \in {"lexical", "vector", "rerank"} : reader' = [reader EXCEPT !.pc = p]
      BY <1>6
    <2>2. p \in Searching \ {"visible"}
      BY DEF Searching
    <2>3. Onwards(p, reader.found)
      BY <1>2, <1>3, <2>1, <2>2 DEF ReadRequest
    <2>4. QED
      BY <1>4, <2>2, <2>3
  <1>7. CASE reader' = [reader EXCEPT !.pc = "fuse", !.mode = "lexical"]
    <2>1. Onwards("fuse", reader.found)
      BY <1>2, <1>3, <1>7 DEF ReadRequest, Searching
    <2>2. QED
      BY <1>4, <2>1 DEF Searching
  <1>8. CASE reader' = [reader EXCEPT !.pc = "fuse", !.found = @ \cup R!Finds]
    <2>1. Onwards("fuse", reader.found \cup R!Finds)
      BY <1>2, <1>3, <1>8 DEF ReadRequest, Searching
    <2>2. QED
      BY <1>4, <2>1 DEF Searching
  <1>9. CASE reader' = [reader EXCEPT !.pc = "lexical", !.variant = @ + 1]
    <2>1. reader.variant + 1 \in Nat
      BY <1>2 DEF ReadRequest
    <2>2. PICK v \in Nat : reader' = [reader EXCEPT !.pc = "lexical", !.variant = v]
      BY <1>9, <2>1
    <2>3. Onwards("lexical", reader.found)
      BY <1>2, <1>3, <2>2 DEF ReadRequest, Searching
    <2>4. QED
      BY <1>4, <2>3 DEF Searching
  <1>10. CASE R!Rerank
    <2>1. PICK F \in SUBSET reader.found :
            reader' = [reader EXCEPT !.pc = "windows", !.found = F, !.mode = "lexical", !.variant = 1]
      BY <1>10 DEF R!Rerank
    <2>2. Onwards("windows", F)
      BY <1>2, <1>3, <2>1 DEF ReadRequest, Searching
    <2>3. QED
      BY <1>4, <2>2 DEF Searching
  <1>11. QED
    BY <1>5, <1>6, <1>7, <1>8, <1>9, <1>10 DEF R!Embed, R!VectorSearch, R!Fuse, R!Go

LEMMA WindowsSound ==
    ASSUME RetrievalInv, R!Windows
    PROVE  RetrievalInv'
  <1>1. /\ reader.pc = "windows" /\ db' = db
        /\ reader' = [reader EXCEPT !.pc = "visible", !.around = WindowsOf(reader)]
    BY DEF R!Windows, R!At, R!View, WindowsOf
  <1>2. reader \in ReadRequest /\ Searches(reader)
    BY <1>1, RequestIs
  <1>3. WindowsOf(reader) \subseteq R!Chunk
    BY <1>2 DEF WindowsOf, ReadRequest
  <1> DEFINE W == WindowsOf(reader)
  <1>4. reader'.around = W
    BY <1>1, <1>2 DEF ReadRequest
  <1> HIDE DEF W
  <1>5. /\ reader' \in ReadRequest /\ reader'.pc = "visible" /\ reader'.found = reader.found
        /\ reader'.bases = reader.bases /\ reader'.scope = reader.scope /\ reader'.view = reader.view
    BY <1>1, <1>2, <1>3 DEF ReadRequest, Searching
  <1>6. reader'.around = WindowsOf(reader')
    BY <1>4, <1>5 DEF WindowsOf, W
  <1>7. Searches(reader') /\ Continues(reader', db)
    BY <1>1, <1>2, <1>5, <1>6 DEF Searches, Continues, InScope, HitsOf, Searching, Continuing
  <1>8. QED
    BY <1>1, <1>5, <1>7, ReaderSound

\* The answer: whole windows around hits of one view, without what was deleted.
LEMMA AnswerSound ==
    ASSUME RetrievalInv, R!excludeInvisibleResults
    PROVE  RetrievalInv'
  <1> DEFINE F == R!Visible(reader.found)
             W == R!Visible(reader.around)
  <1>1. /\ reader.pc = "visible" /\ db' = db
        /\ reader' = [reader EXCEPT !.pc = "answered", !.found = F, !.around = W, !.gone = db.deleted]
    BY DEF R!excludeInvisibleResults, R!At
  <1>2. reader \in ReadRequest /\ Searches(reader) /\ db \in Database
    BY <1>1, RequestIs DEF RetrievalInv, ReaderTyped
  <1>3. /\ InScope(reader) /\ OneView(reader.view) /\ reader.found \subseteq HitsOf(reader)
        /\ reader.around = WindowsOf(reader)
    BY <1>1, <1>2 DEF Searches, Searching
  <1>4. F \subseteq reader.found /\ W \subseteq reader.around /\ \A c \in F \cup W : c.doc \notin db.deleted
    BY DEF R!Visible, R!Live
  <1>5. \A c \in reader.around : c.doc \notin db.deleted => c \in W
    BY DEF R!Visible, R!Live
  <1> HIDE DEF F, W
  <1>6. /\ reader' \in ReadRequest /\ reader'.pc = "answered" /\ reader'.found = F /\ reader'.around = W
        /\ reader'.bases = reader.bases /\ reader'.scope = reader.scope /\ reader'.gone = db.deleted
    BY <1>1, <1>2, <1>4 DEF ReadRequest, Database
  <1>7. ASSUME NEW c \in F \cup W
        PROVE  c \in reader.view /\ (BaseOf[c.doc] \in reader.scope \/ reader.bases = R!Base)
    <2>1. PICK h \in reader.found : c \in reader.view /\ c.doc = h.doc
      BY <1>3, <1>4 DEF HitsOf, WindowsOf
    <2>2. BaseOf[h.doc] \in reader.bases
      BY <1>3, <2>1 DEF HitsOf
    <2>3. QED
      BY <1>3, <2>1, <2>2 DEF InScope
  <1>8. ASSUME NEW h \in F, NEW c \in R!Generation(h.doc, h.gen), c.idx \in R!Around(h, Siblings)
        PROVE  c \in W
    <2>1. h \in reader.view /\ c \in reader.view /\ c.doc = h.doc /\ h.doc \notin db.deleted
      BY <1>3, <1>4, <1>7, GenerationHas DEF OneView
    <2>2. c \in reader.around
      BY <1>3, <1>4, <1>8, <2>1 DEF WindowsOf
    <2>3. QED
      BY <1>5, <2>1, <2>2
  <1>9. Searches(reader')
    <2>1. \A b, c \in F \cup W : b.doc = c.doc => b.gen = c.gen
      BY <1>3, <1>7 DEF OneView
    <2>2. QED
      BY <1>4, <1>6, <1>7, <1>8, <2>1 DEF Searches, Searching
  <1>10. Continues(reader', db)
    BY <1>6 DEF Continues, Continuing
  <1>11. QED
    BY <1>1, <1>6, <1>9, <1>10, ReaderSound

\* A continuation begins with what is current.
LEMMA ContinueSound ==
    ASSUME R!RetrievalAssumption, RetrievalInv, R!Continue
    PROVE  RetrievalInv'
  <1>1. db' = db /\ db \in Database
    BY DEF R!Continue, R!At, RetrievalInv, ReaderTyped
  <1>2. PICK d \in Doc, g \in 0 .. MaxGen :
          reader' = [R!Fresh(IF g = 0 THEN "anchor" ELSE "identify") EXCEPT
                        !.doc = {d}, !.gen = g, !.view = {c \in R!Current : c.doc = d}]
    BY DEF R!Continue
  <1> DEFINE p == IF g = 0 THEN "anchor" ELSE "identify"
             view == {c \in R!Current : c.doc = d}
  <1>3. view \subseteq R!Chunk /\ (d \notin db.deleted => view = CurrentOf(db, d))
    BY <1>1 DEF R!Current, CurrentOf, Database, R!Live
  <1>4. p \in {"anchor", "identify"} /\ (p = "identify" <=> g # 0)
    OBVIOUS
  <1> HIDE DEF view
  <1>5. reader' = [pc |-> p, scope |-> {}, bases |-> {}, mode |-> "lexical",
                   variant |-> 1, view |-> view, found |-> {}, around |-> {}, gone |-> {}, doc |-> {d},
                   gen |-> g, disturbed |-> FALSE]
    BY <1>2 DEF R!Fresh, view
  <1> HIDE DEF p
  <1>6. reader' \in ReadRequest
    BY <1>3, <1>4, <1>5 DEF ReadRequest, Continuing
  <1>7. Searches(reader')
    BY <1>4, <1>5 DEF Searches, Searching
  <1>8. Continues(reader', db)
    BY <1>3, <1>4, <1>5 DEF Continues, Continuing
  <1>9. QED
    BY <1>1, <1>6, <1>7, <1>8, ReaderSound

LEMMA IdentifySound ==
    ASSUME RetrievalInv, R!generationByID
    PROVE  RetrievalInv'
  <1>1. /\ reader.pc = "identify" /\ db' = db /\ reader' = [reader EXCEPT !.pc = "anchor"]
        /\ \A d \in reader.doc : <<d, reader.gen>> \in db.mapped
    BY DEF R!generationByID, R!At, R!Go
  <1>2. reader \in ReadRequest /\ Continues(reader, db)
    BY <1>1, RequestIs
  <1>3. /\ reader' \in ReadRequest /\ reader'.pc = "anchor" /\ reader'.doc = reader.doc
        /\ reader'.gen = reader.gen /\ reader'.view = reader.view /\ reader'.disturbed = reader.disturbed
    BY <1>1, <1>2 DEF ReadRequest, Continuing
  <1>4. Searches(reader') /\ Continues(reader', db)
    BY <1>1, <1>2, <1>3 DEF Searches, Continues, Searching, Continuing
  <1>5. QED
    BY <1>1, <1>3, <1>4, ReaderSound

\* What can be read of a document: its row decides, and the row may be new.
LEMMA ReadableIs ==
    ASSUME RetrievalInv, reader.pc \in {"anchor", "neighbours"}
    PROVE  /\ reader \in ReadRequest /\ Continues(reader, db) /\ R!Readable \subseteq R!Chunk
           /\ reader.gen # 0 => \A c \in R!Readable : c.gen = reader.gen
           /\ ~reader.disturbed => \A d \in reader.doc \ db.deleted :
                 \/ R!Readable = IF reader.gen = 0 THEN reader.view ELSE R!Generation(d, reader.gen)
                 \/ <<d, reader.gen>> \in db.torn
  <1>1. reader \in ReadRequest /\ Continues(reader, db) /\ db \in Database /\ Stored(db)
    BY RequestIs DEF RetrievalInv, ReaderTyped
  <1>2. R!Readable \subseteq R!Chunk
    BY <1>1 DEF R!Readable, Database
  <1>3. reader.gen # 0 => \A c \in R!Readable : c.gen = reader.gen
    BY DEF R!Readable
  <1>4. ASSUME ~reader.disturbed, NEW d \in reader.doc \ db.deleted, <<d, reader.gen>> \notin db.torn
        PROVE  R!Readable = IF reader.gen = 0 THEN reader.view ELSE R!Generation(d, reader.gen)
    <2>1. reader.doc = {d}
      BY <1>1, <1>4 DEF Continues, Continuing
    <2>2. R!Readable = {c \in db.chunks : /\ c.doc = d
                                        /\ c.gen = IF reader.gen = 0 THEN db.active[d] ELSE reader.gen}
      BY <1>4, <2>1 DEF R!Readable, R!Live
    <2>3. CASE reader.gen = 0
      <3>1. reader.view = CurrentOf(db, d)
        BY <1>1, <1>4, <2>3 DEF Continues, Continuing
      <3>2. QED
        BY <2>2, <2>3, <3>1 DEF CurrentOf
    <2>4. CASE reader.gen # 0
      <3>1. <<d, reader.gen>> \in db.mapped \ db.torn
        BY <1>1, <1>4, <2>4 DEF Continues, Continuing
      <3>2. R!Generation(d, reader.gen) \subseteq db.chunks
        <4> DEFINE m == <<d, reader.gen>>
        <4>1. m[1] = d /\ m[2] = reader.gen
          OBVIOUS
        <4>2. Kept(db, m[1], m[2])
          BY <1>1, <1>4, <3>1, <4>1 DEF Stored
        <4>3. QED
          BY <4>1, <4>2 DEF Kept
      <3>3. R!Readable = {c \in db.chunks : c.doc = d /\ c.gen = reader.gen}
        BY <2>2, <2>4
      <3>4. \A c \in R!Readable : c \in R!Generation(d, reader.gen)
        BY <1>2, <3>3, ChunkIs
      <3>5. \A c \in R!Generation(d, reader.gen) : c \in R!Readable
        BY <3>2, <3>3, GenerationHas
      <3>6. QED
        BY <2>4, <3>4, <3>5
    <2>5. QED
      BY <2>3, <2>4
  <1>5. QED
    BY <1>1, <1>2, <1>3, <1>4

LEMMA AnchorSound ==
    ASSUME RetrievalInv, R!Anchor
    PROVE  RetrievalInv'
  <1>1. reader.pc = "anchor" /\ db' = db
    BY DEF R!Anchor, R!At
  <1>2. PICK c \in R!Readable : reader' = [reader EXCEPT !.pc = "neighbours", !.found = {c}]
    BY DEF R!Anchor
  <1>3. reader \in ReadRequest /\ Continues(reader, db) /\ c \in R!Chunk
    BY <1>1, ReadableIs
  <1>4. /\ reader' \in ReadRequest /\ reader'.pc = "neighbours" /\ reader'.doc = reader.doc
        /\ reader'.gen = reader.gen /\ reader'.view = reader.view /\ reader'.disturbed = reader.disturbed
    BY <1>2, <1>3 DEF ReadRequest, Continuing
  <1>5. Searches(reader') /\ Continues(reader', db)
    BY <1>1, <1>3, <1>4 DEF Searches, Continues, Searching, Continuing
  <1>6. QED
    BY <1>1, <1>4, <1>5, ReaderSound

LEMMA NeighboursSound ==
    ASSUME RetrievalInv, R!Neighbours
    PROVE  RetrievalInv'
  <1> DEFINE W == RestOf(reader, R!Readable)
  <1>1. /\ reader.pc = "neighbours" /\ db' = db
        /\ reader' = [reader EXCEPT !.pc = "continued", !.around = W]
    BY DEF R!Neighbours, R!At, RestOf
  <1>2. /\ reader \in ReadRequest /\ Continues(reader, db) /\ R!Readable \subseteq R!Chunk
        /\ reader.gen # 0 => \A c \in R!Readable : c.gen = reader.gen
        /\ ~reader.disturbed => \A d \in reader.doc \ db.deleted :
              \/ R!Readable = IF reader.gen = 0 THEN reader.view ELSE R!Generation(d, reader.gen)
              \/ <<d, reader.gen>> \in db.torn
    BY <1>1, ReadableIs
  <1>3. W \subseteq R!Readable
    BY DEF RestOf
  <1>4. ~reader.disturbed => \A d \in reader.doc \ db.deleted :
              \/ W = RestOf(reader, IF reader.gen = 0 THEN reader.view ELSE R!Generation(d, reader.gen))
              \/ <<d, reader.gen>> \in db.torn
    BY <1>2
  <1> HIDE DEF W
  <1>5. /\ reader' \in ReadRequest /\ reader'.pc = "continued" /\ reader'.doc = reader.doc
        /\ reader'.gen = reader.gen /\ reader'.view = reader.view /\ reader'.found = reader.found
        /\ reader'.disturbed = reader.disturbed /\ reader'.around = W
    BY <1>1, <1>2, <1>3 DEF ReadRequest
  <1>6. \A C : RestOf(reader', C) = RestOf(reader, C)
    BY <1>5 DEF RestOf
  <1>7. Searches(reader')
    BY <1>5 DEF Searches, Searching
  <1>8. Continues(reader', db)
    BY <1>1, <1>2, <1>3, <1>4, <1>5, <1>6 DEF Continues, Continuing
  <1>9. QED
    BY <1>1, <1>5, <1>7, <1>8, ReaderSound

LEMMA EndsSound ==
    ASSUME RetrievalInv, R!Ends
    PROVE  RetrievalInv'
  <1>1. ReaderTyped' /\ Stored(db)' /\ reader' = R!NoReader
    BY DEF R!Ends, RetrievalInv, ReaderTyped, Stored, Kept
  <1>2. QED
    BY <1>1 DEF RetrievalInv

-----------------------------------------------------------------------------
LEMMA InitRetrieval ==
    ASSUME R!RetrievalAssumption, R!Init
    PROVE  RetrievalInv
  <1>1. 1 \in R!Gen
    BY DEF R!RetrievalAssumption, R!Gen
  <1>2. db = [active |-> [d \in Doc |-> 1], mapped |-> Doc \X {1}, deleted |-> {}, torn |-> {},
              chunks |-> UNION {R!Generation(d, 1) : d \in Doc}]
    BY DEF R!Init
  <1>3. UNION {R!Generation(d, 1) : d \in Doc} \subseteq R!Chunk
    BY <1>1, GenerationIn
  <1>4. db \in Database
    BY <1>1, <1>2, <1>3 DEF Database
  <1>5. \A d \in Doc : Kept(db, d, 1)
    BY <1>2 DEF Kept
  <1>6. Stored(db)
    BY <1>2, <1>5 DEF Stored
  <1>7. QED
    BY <1>4, <1>6 DEF R!Init, RetrievalInv, ReaderTyped

LEMMA NextRetrieval ==
    ASSUME R!RetrievalAssumption, RetrievalInv, [R!Next]_R!vars
    PROVE  RetrievalInv'
  <1>1. CASE \E d \in Changing :
               \/ R!Stage(d) \/ R!activateDocumentGeneration(d) \/ R!Delete(d) \/ R!deleteDocumentGenerations(d)
               \/ \E g \in R!Gen : R!RetireMapping(d, g)
    <2>1. PICK d \in Changing :
               \/ R!Stage(d) \/ R!activateDocumentGeneration(d) \/ R!Delete(d) \/ R!deleteDocumentGenerations(d)
               \/ \E g \in R!Gen : R!RetireMapping(d, g)
      BY <1>1
    <2>2. {d} \in SUBSET Doc /\ {e \in Changing : BaseOf[e] = BaseOf[d]} \in SUBSET Doc
      BY DEF R!RetrievalAssumption
    <2>3. QED
      BY <2>1, <2>2, StageSound, ActivateSound, MarkSound, CleanSound, RetireMappingSound DEF R!Delete
  <1>2. CASE \E c \in db.chunks : R!RetireChunk(c)
    BY <1>2, RetireChunkSound
  <1>3. CASE R!resolveSearchScope \/ R!searchProviders \/ R!Pin \/ R!Windows \/ R!excludeInvisibleResults
    BY <1>3, ScopeSound, ProvidersSound, PinSound, WindowsSound, AnswerSound
  <1>4. CASE R!LexicalSearch \/ R!Embed \/ R!VectorSearch \/ R!Fuse \/ R!Rerank
    BY <1>4, LanesSound
  <1>5. CASE R!Continue \/ R!generationByID \/ R!Anchor \/ R!Neighbours \/ R!Ends
    BY <1>5, ContinueSound, IdentifySound, AnchorSound, NeighboursSound, EndsSound
  <1>6. CASE UNCHANGED R!vars
    BY <1>6 DEF R!vars, RetrievalInv, ReaderTyped, Stored, Kept
  <1>7. QED
    BY <1>1, <1>2, <1>3, <1>4, <1>5, <1>6 DEF R!Next

LEMMA RetrievalHolds ==
    ASSUME R!RetrievalAssumption
    PROVE  R!Spec => []RetrievalInv
  <1>1. R!Init => RetrievalInv
    BY InitRetrieval
  <1>2. RetrievalInv /\ [R!Next]_R!vars => RetrievalInv'
    BY NextRetrieval
  <1>3. QED
    BY <1>1, <1>2, PTL DEF R!Spec

(* Types are correct, and what is published of a live document is there: the    *)
(* active generation, and every mapped one that retirement has not torn         *)
(* (activateDocumentGeneration, the retirement of generations).                 *)
THEOREM PublishedIsStored ==
    ASSUME R!RetrievalAssumption
    PROVE  R!Spec => []R!TypeOK
  <1>1. RetrievalInv => R!TypeOK
    <2> SUFFICES ASSUME RetrievalInv PROVE R!TypeOK
      OBVIOUS
    <2>1. db \in Database /\ Stored(db)
      BY DEF RetrievalInv, ReaderTyped
    <2>2. reader # R!NoReader => reader.found \cup reader.around \subseteq R!Chunk
      BY DEF RetrievalInv, ReaderTyped, ReadRequest
    <2>3. QED
      BY <2>1, <2>2 DEF R!TypeOK, Database, Stored, Kept, R!Live
  <1>2. QED
    BY <1>1, RetrievalHolds, PTL

(* Whatever is published, retired or deleted beside it, an answer is of one     *)
(* view (Search, GetDocumentContext).                                           *)
THEOREM AnswersAreOfOneView ==
    ASSUME R!RetrievalAssumption
    PROVE  R!Spec => []R!ReadersSeeOneView
  <1>1. RetrievalInv => R!ReadersSeeOneView
    <2> SUFFICES ASSUME RetrievalInv PROVE R!ReadersSeeOneView
      OBVIOUS
    <2>1. ASSUME reader.pc = "answered" PROVE R!SearchSeesOneView
      BY <2>1, RequestIs DEF Searches, Searching, R!SearchSeesOneView
    <2>2. ASSUME reader.pc = "continued" PROVE R!ContinuationIsWhole
      <3>1. Continues(reader, db)
        BY <2>2, RequestIs
      <3>2. PICK d \in Doc : reader.doc = {d}
        BY <2>2, <3>1 DEF Continues
      <3>3. reader.gen # 0 => \A c \in reader.around : c.gen = reader.gen
        BY <2>2, <3>1 DEF Continues
      <3>4. ~reader.disturbed /\ R!Live(d) =>
              \/ reader.around = RestOf(reader, IF reader.gen = 0 THEN reader.view ELSE R!Generation(d, reader.gen))
              \/ <<d, reader.gen>> \in db.torn
        BY <2>2, <3>1, <3>2 DEF Continues, R!Live
      <3>5. QED
        BY <3>2, <3>3, <3>4 DEF R!ContinuationIsWhole, RestOf
    <2>3. QED
      BY <2>1, <2>2 DEF R!ReadersSeeOneView, R!SearchSeesOneView, R!ContinuationIsWhole
  <1>2. QED
    BY <1>1, RetrievalHolds, PTL

-----------------------------------------------------------------------------
(* Schema models, for any documents, sheets and numbers of generations.      *)

CONSTANTS Sheets, ConceptsOf, Nothing
VARIABLES row, stored, compiler, loading, cache

M == INSTANCE SchemaModel WITH reader <- loading

\* The models of what a document r has had, and nothing.
ModelsOf(r) == {M!Empty} \cup {M!CompileDocument(r.sheets[g]) : g \in 1 .. r.active}
StoredModel(s) == [tables |-> s.tables, fields |-> s.fields, concepts |-> s.concepts[s.gen]]

CompilerIs(pc, todo, base, item, rows) ==
    [pc |-> pc, todo |-> todo, base |-> base, item |-> item, rows |-> rows]
ReaderIs(pc, todo, item, model, models, disturbed) ==
    [pc |-> pc, todo |-> todo, item |-> item, model |-> model, models |-> models, disturbed |-> disturbed]

DocumentsTyped ==
    /\ row = [d \in Doc |-> row[d]]
    /\ \A d \in Doc : /\ row[d] = [active |-> row[d].active, sheets |-> row[d].sheets, live |-> row[d].live]
                      /\ row[d].active \in 0 .. MaxGen
                      /\ row[d].sheets \in Seq(Sheets) /\ Len(row[d].sheets) = row[d].active

\* A document that is to be compiled, under the generation that was active.
Sourced(item) == item.doc \in Doc /\ item.gen \in 1 .. MaxGen

\* The cells that were read are those of a generation, or there were none.
CompilerReads ==
    /\ compiler = CompilerIs(compiler.pc, compiler.todo, compiler.base, compiler.item, compiler.rows)
    /\ \A item \in compiler.todo : Sourced(item)
    /\ compiler.pc = "replace" =>
        /\ Sourced(compiler.item)
        /\ \/ compiler.rows = <<>>
           \/ \E g \in 1 .. row[compiler.item.doc].active : compiler.rows = row[compiler.item.doc].sheets[g]

StoredWhole ==
    /\ stored = [d \in Doc |-> stored[d]]
    /\ \A d \in Doc : /\ stored[d].concepts = [g \in 1 .. MaxGen |-> stored[d].concepts[g]]
                      /\ stored[d].gen \in 0 .. MaxGen
                      /\ stored[d].active => stored[d].gen > 0
                      /\ stored[d].gen > 0 => StoredModel(stored[d]) \in ModelsOf(row[d])

ActiveModel(item) ==
    item.doc \in Doc /\ stored[item.doc].gen > 0 /\ item.gen = stored[item.doc].gen

\* What a reader that nobody disturbed has loaded is what is stored.
ReaderLoads ==
    /\ loading = ReaderIs(loading.pc, loading.todo, loading.item, loading.model, loading.models, loading.disturbed)
    /\ loading.pc # "idle" /\ ~loading.disturbed =>
        /\ \A item \in loading.todo : ActiveModel(item)
        /\ \A m \in loading.models : m.doc \in Doc /\ m.model \in ModelsOf(row[m.doc])
        /\ loading.pc \in {"fields", "concepts"} =>
            /\ ActiveModel(loading.item)
            /\ loading.model = [tables |-> loading.model.tables, fields |-> loading.model.fields,
                               concepts |-> loading.model.concepts]
            /\ loading.model.tables = stored[loading.item.doc].tables
        /\ loading.pc = "concepts" => loading.model.fields = stored[loading.item.doc].fields

CacheWhole ==
    cache # Nothing => cache.disturbed \/ \A m \in cache.models : m.doc \in Doc /\ m.model \in ModelsOf(row[m.doc])

SchemaInv == DocumentsTyped /\ CompilerReads /\ StoredWhole /\ ReaderLoads /\ CacheWhole

-----------------------------------------------------------------------------
(* What is compiled.                                                        *)

LEMMA CompiledIs ==
    ASSUME NEW rows
    PROVE  LET m == M!CompileDocument(rows)
           IN  m = [tables |-> m.tables, fields |-> m.fields, concepts |-> m.concepts]
<1>1. PICK t, f, c : M!CompileDocument(rows) = [tables |-> t, fields |-> f, concepts |-> c]
  BY DEF M!CompileDocument
<1> QED  BY <1>1

\* Of a document without cells nothing is compiled.
LEMMA NothingIsDetected == ~M!Detected(M!CompileDocument(<<>>))
<1>1. M!detectSchemaRegions(<<>>) = {}  BY DEF M!detectSchemaRegions
<1>2. PICK f, c : M!CompileDocument(<<>>) =
          [tables |-> {[id |-> r.header, title |-> r.title] :
                         r \in {r \in M!detectSchemaRegions(<<>>) : M!compileRegion(<<>>, r) # {}}},
           fields |-> f, concepts |-> c]
  BY DEF M!CompileDocument
<1>3. {[id |-> r.header, title |-> r.title] :
           r \in {r \in M!detectSchemaRegions(<<>>) : M!compileRegion(<<>>, r) # {}}} = {}
  BY <1>1
<1>4. M!CompileDocument(<<>>).tables = {}  BY <1>2, <1>3
<1> QED  BY <1>4 DEF M!Detected

\* What a document has had stays what it has had.
DocumentIs(active, sheets, live) == [active |-> active, sheets |-> sheets, live |-> live]

LEMMA ModelsStay ==
    ASSUME NEW r, NEW rows, r.active \in Nat, r.sheets \in Seq(Sheets), Len(r.sheets) = r.active, rows \in Sheets,
           NEW s, s.active = r.active + 1, s.sheets = Append(r.sheets, rows)
    PROVE  /\ ModelsOf(r) \subseteq ModelsOf(s)
           /\ \A g \in 1 .. r.active : g \in 1 .. s.active /\ s.sheets[g] = r.sheets[g]
           /\ s.sheets \in Seq(Sheets) /\ Len(s.sheets) = s.active
<1>1. s.sheets \in Seq(Sheets) /\ Len(s.sheets) = s.active
  <2>1. Append(r.sheets, rows) \in Seq(Sheets) /\ Len(Append(r.sheets, rows)) = Len(r.sheets) + 1  OBVIOUS
  <2> QED  BY <2>1
<1>2. ASSUME NEW g \in 1 .. r.active
      PROVE  g \in 1 .. s.active /\ s.sheets[g] = r.sheets[g]
  <2>1. Append(r.sheets, rows)[g] = r.sheets[g]  OBVIOUS
  <2> QED  BY <2>1
<1>3. ModelsOf(r) \subseteq ModelsOf(s)  BY <1>2 DEF ModelsOf
<1> QED  BY <1>1, <1>2, <1>3

-----------------------------------------------------------------------------
(* Documents.                                                               *)

\* Steps that change documents only, and keep what they have had.
LEMMA DocumentsKeep ==
    ASSUME SchemaInv, DocumentsTyped', UNCHANGED <<stored, compiler, loading, cache>>,
           \A d \in Doc : /\ ModelsOf(row[d]) \subseteq ModelsOf(row'[d])
                          /\ \A g \in 1 .. row[d].active :
                                 g \in 1 .. row'[d].active /\ row'[d].sheets[g] = row[d].sheets[g]
    PROVE  SchemaInv'
<1>1. CompilerReads'
  <2>1. /\ compiler = CompilerIs(compiler.pc, compiler.todo, compiler.base, compiler.item, compiler.rows)
        /\ \A item \in compiler.todo : Sourced(item)
    BY DEF SchemaInv, CompilerReads
  <2>2. ASSUME compiler.pc = "replace"
        PROVE  /\ Sourced(compiler.item)
               /\ \/ compiler.rows = <<>>
                  \/ \E g \in 1 .. row'[compiler.item.doc].active :
                         compiler.rows = row'[compiler.item.doc].sheets[g]
    <3>1. Sourced(compiler.item)  BY <2>2 DEF SchemaInv, CompilerReads
    <3>2. compiler.item.doc \in Doc  BY <3>1 DEF Sourced
    <3> QED  BY <2>2, <3>1, <3>2 DEF SchemaInv, CompilerReads
  <2> QED  BY <2>1, <2>2 DEF CompilerReads, Sourced
<1>2. StoredWhole'  BY DEF SchemaInv, StoredWhole
<1>3. ReaderLoads'
  <2>0. loading = ReaderIs(loading.pc, loading.todo, loading.item, loading.model, loading.models, loading.disturbed)
    BY DEF SchemaInv, ReaderLoads
  <2> SUFFICES ASSUME loading.pc # "idle", ~loading.disturbed
               PROVE  ReaderLoads'
    BY <2>0 DEF ReaderLoads
  <2>1. \A m \in loading.models : m.doc \in Doc /\ m.model \in ModelsOf(row'[m.doc])
    BY DEF SchemaInv, ReaderLoads
  <2>2. /\ \A item \in loading.todo : ActiveModel(item)
        /\ loading.pc \in {"fields", "concepts"} =>
            /\ ActiveModel(loading.item)
            /\ loading.model = [tables |-> loading.model.tables, fields |-> loading.model.fields,
                               concepts |-> loading.model.concepts]
            /\ loading.model.tables = stored[loading.item.doc].tables
        /\ loading.pc = "concepts" => loading.model.fields = stored[loading.item.doc].fields
    BY DEF SchemaInv, ReaderLoads
  <2> QED  BY <2>0, <2>1, <2>2 DEF ReaderLoads, ActiveModel
<1>4. CacheWhole'  BY DEF SchemaInv, CacheWhole
<1> QED  BY <1>1, <1>2, <1>3, <1>4 DEF SchemaInv

LEMMA PublishKeeps == ASSUME M!SchemaAssumption, SchemaInv, NEW d \in Doc, M!Publish(d) PROVE SchemaInv'
<1>1. PICK rows \in Sheets :
      row' = [row EXCEPT ![d].active = @ + 1, ![d].sheets = Append(@, rows)] /\ row[d].active < MaxGen
      /\ UNCHANGED <<stored, compiler, loading, cache>>
  BY DEF M!Publish
<1>2. /\ row = [z \in Doc |-> row[z]]
      /\ \A z \in Doc : row[z] = DocumentIs(row[z].active, row[z].sheets, row[z].live)
      /\ \A z \in Doc : row[z].active \in 0 .. MaxGen /\ row[z].sheets \in Seq(Sheets)
                        /\ Len(row[z].sheets) = row[z].active
      /\ MaxGen \in Nat
  BY DEF SchemaInv, DocumentsTyped, DocumentIs, M!SchemaAssumption
<1>3. PICK r : r = row[d]  OBVIOUS
<1>4. PICK r1 : r1 = [r EXCEPT !.active = r.active + 1]  OBVIOUS
<1>5. PICK r2 : r2 = [r1 EXCEPT !.sheets = Append(r.sheets, rows)]  OBVIOUS
<1>6. /\ row' = [z \in Doc |-> row'[z]] /\ \A z \in Doc : z # d => row'[z] = row[z]
      /\ row'[d] = DocumentIs(row[d].active + 1, Append(row[d].sheets, rows), row[d].live)
  <2>1. r = DocumentIs(r.active, r.sheets, r.live)  BY <1>2, <1>3
  <2>2. r1 = DocumentIs(r.active + 1, r.sheets, r.live)  BY <1>4, <2>1 DEF DocumentIs
  <2>3. r2 = DocumentIs(r.active + 1, Append(r.sheets, rows), r.live)  BY <1>5, <2>2 DEF DocumentIs
  <2>4. r1.sheets = r.sheets  BY <2>2 DEF DocumentIs
  <2>5. PICK mid : mid = [row EXCEPT ![d].active = @ + 1]  OBVIOUS
  <2>6. mid = [row EXCEPT ![d] = r1]  BY <1>3, <1>4, <2>5
  <2>7. mid = [z \in Doc |-> IF z = d THEN r1 ELSE row[z]]  BY <1>2, <2>6
  <2>8. mid[d] = r1 /\ mid = [z \in Doc |-> mid[z]] /\ \A z \in Doc : z # d => mid[z] = row[z]  BY <2>7
  <2>9. row' = [mid EXCEPT ![d].sheets = Append(@, rows)]  BY <1>1, <2>5
  <2>10. row' = [mid EXCEPT ![d] = r2]  BY <1>5, <2>4, <2>8, <2>9
  <2>11. row' = [z \in Doc |-> IF z = d THEN r2 ELSE row[z]]  BY <2>8, <2>10
  <2>12. row'[d] = r2 /\ row' = [z \in Doc |-> row'[z]] /\ \A z \in Doc : z # d => row'[z] = row[z]  BY <2>11
  <2> QED  BY <1>3, <2>3, <2>12
<1>7. PICK s : s = row'[d]  OBVIOUS
<1>8. /\ s.active = row[d].active + 1 /\ s.sheets = Append(row[d].sheets, rows)
      /\ s = DocumentIs(s.active, s.sheets, s.live)
  BY <1>6, <1>7 DEF DocumentIs
<1>9. /\ ModelsOf(row[d]) \subseteq ModelsOf(s)
      /\ \A g \in 1 .. row[d].active : g \in 1 .. s.active /\ s.sheets[g] = row[d].sheets[g]
      /\ s.sheets \in Seq(Sheets) /\ Len(s.sheets) = s.active
  <2>1. r.active \in Nat /\ r.sheets \in Seq(Sheets) /\ Len(r.sheets) = r.active  BY <1>2, <1>3
  <2>2. s.active = r.active + 1 /\ s.sheets = Append(r.sheets, rows)  BY <1>3, <1>8
  <2>3. /\ ModelsOf(r) \subseteq ModelsOf(s)
        /\ \A g \in 1 .. r.active : g \in 1 .. s.active /\ s.sheets[g] = r.sheets[g]
        /\ s.sheets \in Seq(Sheets) /\ Len(s.sheets) = s.active
    BY <2>1, <2>2, ModelsStay
  <2> QED  BY <1>3, <2>3
<1>10. s.active \in 0 .. MaxGen  BY <1>1, <1>2, <1>8
<1>11. DocumentsTyped'
  <2>1. ASSUME NEW z \in Doc
        PROVE  /\ row'[z] = DocumentIs(row'[z].active, row'[z].sheets, row'[z].live)
               /\ row'[z].active \in 0 .. MaxGen
               /\ row'[z].sheets \in Seq(Sheets) /\ Len(row'[z].sheets) = row'[z].active
    <3>1. CASE z = d  BY <1>7, <1>8, <1>9, <1>10, <3>1
    <3>2. CASE z # d  BY <1>2, <1>6, <3>2
    <3> QED  BY <3>1, <3>2
  <2> QED  BY <1>6, <2>1 DEF DocumentsTyped, DocumentIs
<1>12. \A z \in Doc : /\ ModelsOf(row[z]) \subseteq ModelsOf(row'[z])
                      /\ \A g \in 1 .. row[z].active :
                             g \in 1 .. row'[z].active /\ row'[z].sheets[g] = row[z].sheets[g]
  BY <1>6, <1>7, <1>9
<1> QED  BY <1>1, <1>11, <1>12, DocumentsKeep

LEMMA DeleteKeeps == ASSUME SchemaInv, NEW d \in Doc, M!Delete(d) PROVE SchemaInv'
<1>1. row' = [row EXCEPT ![d].live = FALSE] /\ UNCHANGED <<stored, compiler, loading, cache>>
  BY DEF M!Delete
<1>2. /\ row = [z \in Doc |-> row[z]]
      /\ \A z \in Doc : row[z] = DocumentIs(row[z].active, row[z].sheets, row[z].live)
      /\ \A z \in Doc : row[z].active \in 0 .. MaxGen /\ row[z].sheets \in Seq(Sheets)
                        /\ Len(row[z].sheets) = row[z].active
  BY DEF SchemaInv, DocumentsTyped, DocumentIs
<1>3. /\ row' = [z \in Doc |-> row'[z]] /\ \A z \in Doc : z # d => row'[z] = row[z]
      /\ row'[d] = DocumentIs(row[d].active, row[d].sheets, FALSE)
  <2>1. PICK r, s : r = row[d] /\ s = [r EXCEPT !.live = FALSE]  OBVIOUS
  <2>2. r = DocumentIs(r.active, r.sheets, r.live)  BY <1>2, <2>1
  <2>3. s = DocumentIs(r.active, r.sheets, FALSE)  BY <2>1, <2>2 DEF DocumentIs
  <2>4. row' = [row EXCEPT ![d] = s]  BY <1>1, <2>1
  <2>5. row' = [z \in Doc |-> IF z = d THEN s ELSE row[z]]  BY <1>2, <2>4
  <2>6. row'[d] = s /\ row' = [z \in Doc |-> row'[z]] /\ \A z \in Doc : z # d => row'[z] = row[z]  BY <2>5
  <2> QED  BY <2>1, <2>3, <2>6
<1>4. row'[d].active = row[d].active /\ row'[d].sheets = row[d].sheets
      /\ row'[d] = DocumentIs(row'[d].active, row'[d].sheets, row'[d].live)
  BY <1>3 DEF DocumentIs
<1>5. \A z \in Doc : /\ row'[z].active = row[z].active /\ row'[z].sheets = row[z].sheets
                     /\ row'[z] = DocumentIs(row'[z].active, row'[z].sheets, row'[z].live)
  BY <1>2, <1>3, <1>4
<1>6. DocumentsTyped'  BY <1>2, <1>3, <1>5 DEF DocumentsTyped, DocumentIs
<1>7. \A z \in Doc : ModelsOf(row'[z]) = ModelsOf(row[z])  BY <1>5 DEF ModelsOf
<1> QED  BY <1>1, <1>5, <1>6, <1>7, DocumentsKeep

-----------------------------------------------------------------------------
(* The compiler of schemas.                                                 *)

LEMMA CompilerFields ==
    ASSUME NEW p, NEW t, NEW b, NEW i, NEW r, NEW x, x = CompilerIs(p, t, b, i, r)
    PROVE  /\ x.pc = p /\ x.todo = t /\ x.base = b /\ x.item = i /\ x.rows = r
           /\ x = CompilerIs(x.pc, x.todo, x.base, x.item, x.rows)
  BY DEF CompilerIs

\* Steps of the compiler that store nothing.
LEMMA CompilerKeeps ==
    ASSUME SchemaInv, UNCHANGED <<row, stored, loading>>, CompilerReads', CacheWhole'
    PROVE  SchemaInv'
<1>1. DocumentsTyped' /\ StoredWhole'  BY DEF SchemaInv, DocumentsTyped, StoredWhole
<1>2. ReaderLoads'  BY DEF SchemaInv, ReaderLoads, ActiveModel
<1> QED  BY <1>1, <1>2 DEF SchemaInv

\* The documents that are to be compiled, with their generations as they are now.
SourcesIn(D) == {[doc |-> d, gen |-> M!schemaGeneration(row[d].active)] : d \in D}

LEMMA SourcesAreSourced ==
    ASSUME M!SchemaAssumption, SchemaInv, NEW D, D \subseteq Doc
    PROVE  \A item \in SourcesIn(D) : Sourced(item)
<1> SUFFICES ASSUME NEW item \in SourcesIn(D) PROVE Sourced(item)
  OBVIOUS
<1>1. PICK d \in D : item = [doc |-> d, gen |-> M!schemaGeneration(row[d].active)]  BY DEF SourcesIn
<1>2. row[d].active \in 0 .. MaxGen /\ MaxGen \in Nat \ {0}
  BY DEF SchemaInv, DocumentsTyped, M!SchemaAssumption
<1>3. M!schemaGeneration(row[d].active) \in 1 .. MaxGen  BY <1>2 DEF M!schemaGeneration
<1>4. item.doc = d /\ item.gen = M!schemaGeneration(row[d].active)  BY <1>1
<1> QED  BY <1>3, <1>4 DEF Sourced

LEMMA BeginKeeps ==
    ASSUME M!SchemaAssumption, SchemaInv, UNCHANGED <<row, stored, loading, cache>>,
           NEW D, D \subseteq Doc, NEW b, compiler' = CompilerIs("next", SourcesIn(D), b, Nothing, <<>>)
    PROVE  SchemaInv'
<1>1. PICK x : x = compiler'  OBVIOUS
<1>2. x.pc = "next" /\ x.todo = SourcesIn(D) /\ x = CompilerIs(x.pc, x.todo, x.base, x.item, x.rows)
  BY <1>1 DEF CompilerIs
<1>3. \A item \in x.todo : Sourced(item)  BY <1>2, SourcesAreSourced
<1>4. CompilerReads'  BY <1>1, <1>2, <1>3 DEF CompilerReads, Sourced
<1>5. CacheWhole'  BY DEF SchemaInv, CacheWhole
<1> QED  BY <1>4, <1>5, CompilerKeeps

LEMMA BeginCompileKeeps ==
    ASSUME M!SchemaAssumption, SchemaInv, M!CompileBaseSchema \/ \E d \in Doc : M!CompileDocumentSchema(d)
    PROVE  SchemaInv'
<1>1. CASE M!CompileBaseSchema
  <2>1. compiler' = CompilerIs("next", SourcesIn({d \in Doc : row[d].live}), TRUE, Nothing, <<>>)
    BY <1>1 DEF M!CompileBaseSchema, CompilerIs, SourcesIn
  <2>2. UNCHANGED <<row, stored, loading, cache>>  BY <1>1 DEF M!CompileBaseSchema
  <2>3. {d \in Doc : row[d].live} \subseteq Doc  OBVIOUS
  <2> QED  BY <2>1, <2>2, <2>3, BeginKeeps
<1>2. ASSUME NEW d \in Doc, M!CompileDocumentSchema(d)
      PROVE  SchemaInv'
  <2>1. {[doc |-> d, gen |-> M!schemaGeneration(row[d].active)]} = SourcesIn({d})  BY DEF SourcesIn
  <2>2. compiler' = CompilerIs("next", SourcesIn({d}), FALSE, Nothing, <<>>)
    BY <1>2, <2>1 DEF M!CompileDocumentSchema, CompilerIs
  <2>3. UNCHANGED <<row, stored, loading, cache>>  BY <1>2 DEF M!CompileDocumentSchema
  <2>4. {d} \subseteq Doc  OBVIOUS
  <2> QED  BY <2>2, <2>3, <2>4, BeginKeeps
<1> QED  BY <1>1, <1>2

LEMMA IdleCompilerReads ==
    ASSUME compiler' = M!Idle
    PROVE  CompilerReads'
<1>1. PICK x : x = compiler'  OBVIOUS
<1>2. x.pc = "idle" /\ x.todo = {} /\ x = CompilerIs(x.pc, x.todo, x.base, x.item, x.rows)
  BY <1>1 DEF M!Idle, CompilerIs
<1> QED  BY <1>1, <1>2 DEF CompilerReads

Taking(x, item, rows) == [x EXCEPT !.pc = "replace", !.todo = @ \ {item}, !.item = item, !.rows = rows]

LEMMA CompilerTakes ==
    ASSUME NEW x, x = CompilerIs(x.pc, x.todo, x.base, x.item, x.rows), NEW item, NEW rows
    PROVE  Taking(x, item, rows) = CompilerIs("replace", x.todo \ {item}, x.base, item, rows)
<1>1. PICK y1 : y1 = [x EXCEPT !.pc = "replace"]  OBVIOUS
<1>2. y1 = CompilerIs("replace", x.todo, x.base, x.item, x.rows)  BY <1>1 DEF CompilerIs
<1>3. PICK y2 : y2 = [y1 EXCEPT !.todo = @ \ {item}]  OBVIOUS
<1>4. y2 = CompilerIs("replace", x.todo \ {item}, x.base, x.item, x.rows)  BY <1>2, <1>3 DEF CompilerIs
<1>5. PICK y3 : y3 = [y2 EXCEPT !.item = item]  OBVIOUS
<1>6. y3 = CompilerIs("replace", x.todo \ {item}, x.base, item, x.rows)  BY <1>4, <1>5 DEF CompilerIs
<1>7. PICK y4 : y4 = [y3 EXCEPT !.rows = rows]  OBVIOUS
<1>8. y4 = CompilerIs("replace", x.todo \ {item}, x.base, item, rows)  BY <1>6, <1>7 DEF CompilerIs
<1>9. Taking(x, item, rows) = y4  BY <1>1, <1>3, <1>5, <1>7 DEF Taking
<1> QED  BY <1>8, <1>9

LEMMA ReadRowsKeeps == ASSUME M!SchemaAssumption, SchemaInv, M!listSchemaSourceRows PROVE SchemaInv'
<1>1. PICK item \in compiler.todo :
      compiler' = IF row[item.doc].live
                  THEN [compiler EXCEPT !.pc = "replace", !.todo = @ \ {item}, !.item = item,
                                        !.rows = M!Rows(item.doc)]
                  ELSE M!Idle
  BY DEF M!listSchemaSourceRows
<1>2. UNCHANGED <<row, stored, loading, cache>>  BY DEF M!listSchemaSourceRows
<1>3. CompilerReads'
  <2>1. CASE ~row[item.doc].live  BY <1>1, <2>1, IdleCompilerReads
  <2>2. CASE row[item.doc].live
    <3>1. /\ compiler = CompilerIs(compiler.pc, compiler.todo, compiler.base, compiler.item, compiler.rows)
          /\ \A i \in compiler.todo : Sourced(i)
      BY DEF SchemaInv, CompilerReads
    <3>2. PICK rows : rows = M!Rows(item.doc)  OBVIOUS
    <3>3. compiler' = CompilerIs("replace", compiler.todo \ {item}, compiler.base, item, rows)
      <4>1. compiler' = Taking(compiler, item, rows)  BY <1>1, <2>2, <3>2 DEF Taking
      <4> QED  BY <3>1, <4>1, CompilerTakes
    <3>4. /\ compiler'.pc = "replace" /\ compiler'.todo = compiler.todo \ {item} /\ compiler'.item = item
          /\ compiler'.rows = rows
          /\ compiler' = CompilerIs(compiler'.pc, compiler'.todo, compiler'.base, compiler'.item, compiler'.rows)
      BY <3>3, CompilerFields
    <3>5. item.doc \in Doc  BY <3>1 DEF Sourced
    <3>6. rows = <<>> \/ \E g \in 1 .. row[item.doc].active : rows = row[item.doc].sheets[g]
      <4>1. row[item.doc].active \in Nat  BY <3>5 DEF SchemaInv, DocumentsTyped
      <4>2. row[item.doc].active # 0 => row[item.doc].active \in 1 .. row[item.doc].active  BY <4>1
      <4> QED  BY <3>2, <4>2 DEF M!Rows
    <3> QED  BY <1>2, <3>1, <3>4, <3>6 DEF CompilerReads, Sourced
  <2> QED  BY <2>1, <2>2
<1>4. CacheWhole'  BY <1>2 DEF SchemaInv, CacheWhole
<1> QED  BY <1>2, <1>3, <1>4, CompilerKeeps

LEMMA FinishCompileKeeps == ASSUME SchemaInv, M!FinishCompile PROVE SchemaInv'
<1>1. compiler' = M!Idle /\ UNCHANGED <<row, stored, loading>> /\ cache' \in {Nothing, cache}
  BY DEF M!FinishCompile
<1>2. CompilerReads'  BY <1>1, IdleCompilerReads
<1>3. CacheWhole'  BY <1>1 DEF SchemaInv, CacheWhole
<1> QED  BY <1>1, <1>2, <1>3, CompilerKeeps

\* ReplaceDocumentModel: what is stored is what was compiled, under the generation of the item.
SchemaStored(g, active, m, concepts) ==
    [gen |-> g, active |-> active, tables |-> m.tables, fields |-> m.fields, concepts |-> concepts]
Putting(old, g, m) == [old EXCEPT ![g] = m.concepts]
Replacing(x) == [x EXCEPT !.pc = "next", !.item = Nothing, !.rows = <<>>]
Disturbing(x) == [x EXCEPT !.disturbed = TRUE]

LEMMA StoredIsWhole ==
    ASSUME NEW old, old = [g \in 1 .. MaxGen |-> old[g]], NEW g \in 1 .. MaxGen, NEW active, NEW m, NEW s,
           m = [tables |-> m.tables, fields |-> m.fields, concepts |-> m.concepts],
           s = SchemaStored(g, active, m, Putting(old, g, m))
    PROVE  /\ StoredModel(s) = m /\ s.gen = g
           /\ s.concepts = [k \in 1 .. MaxGen |-> s.concepts[k]]
<1>1. PICK c : c = Putting(old, g, m)  OBVIOUS
<1>2. c[g] = m.concepts /\ c = [k \in 1 .. MaxGen |-> c[k]]  BY <1>1 DEF Putting
<1>3. s.gen = g /\ s.tables = m.tables /\ s.fields = m.fields /\ s.concepts = c  BY <1>1 DEF SchemaStored
<1> QED  BY <1>2, <1>3 DEF StoredModel

LEMMA ReplacingIs ==
    ASSUME NEW x, x = CompilerIs(x.pc, x.todo, x.base, x.item, x.rows)
    PROVE  Replacing(x) = CompilerIs("next", x.todo, x.base, Nothing, <<>>)
<1>1. PICK y1 : y1 = [x EXCEPT !.pc = "next"]  OBVIOUS
<1>2. y1 = CompilerIs("next", x.todo, x.base, x.item, x.rows)  BY <1>1 DEF CompilerIs
<1>3. PICK y2 : y2 = [y1 EXCEPT !.item = Nothing]  OBVIOUS
<1>4. y2 = CompilerIs("next", x.todo, x.base, Nothing, x.rows)  BY <1>2, <1>3 DEF CompilerIs
<1>5. PICK y3 : y3 = [y2 EXCEPT !.rows = <<>>]  OBVIOUS
<1>6. y3 = CompilerIs("next", x.todo, x.base, Nothing, <<>>)  BY <1>4, <1>5 DEF CompilerIs
<1>7. Replacing(x) = y3  BY <1>1, <1>3, <1>5 DEF Replacing
<1> QED  BY <1>6, <1>7

LEMMA DisturbedIs ==
    ASSUME NEW x, x = ReaderIs(x.pc, x.todo, x.item, x.model, x.models, x.disturbed), NEW t
    PROVE  [x EXCEPT !.disturbed = t] = ReaderIs(x.pc, x.todo, x.item, x.model, x.models, t)
<1>1. PICK y : y = [x EXCEPT !.disturbed = t]  OBVIOUS
<1>2. y = ReaderIs(x.pc, x.todo, x.item, x.model, x.models, t)  BY <1>1 DEF ReaderIs
<1> QED  BY <1>1, <1>2

LEMMA DisturbingIs ==
    ASSUME NEW x, x = ReaderIs(x.pc, x.todo, x.item, x.model, x.models, x.disturbed)
    PROVE  Disturbing(x) = ReaderIs(x.pc, x.todo, x.item, x.model, x.models, TRUE)
<1>1. PICK t : t = TRUE  OBVIOUS
<1>2. Disturbing(x) = [x EXCEPT !.disturbed = t]  BY <1>1 DEF Disturbing
<1>3. Disturbing(x) = ReaderIs(x.pc, x.todo, x.item, x.model, x.models, t)  BY <1>2, DisturbedIs
<1> QED  BY <1>1, <1>3

LEMMA ReplaceKeeps == ASSUME SchemaInv, M!ReplaceDocumentModel PROVE SchemaInv'
<1> DEFINE d == compiler.item.doc
           g == compiler.item.gen
           model == M!CompileDocument(compiler.rows)
           new == IF M!Detected(model) THEN model ELSE M!Empty
<1>1. compiler.pc = "replace" /\ UNCHANGED <<row, cache>>  BY DEF M!ReplaceDocumentModel
<1>2. /\ compiler = CompilerIs(compiler.pc, compiler.todo, compiler.base, compiler.item, compiler.rows)
      /\ \A item \in compiler.todo : Sourced(item)
      /\ d \in Doc /\ g \in 1 .. MaxGen
      /\ \/ compiler.rows = <<>>
         \/ \E k \in 1 .. row[d].active : compiler.rows = row[d].sheets[k]
  BY <1>1 DEF SchemaInv, CompilerReads, Sourced
<1>3. CASE M!Detected(model) /\ ~M!Validate(model)
  <2>1. compiler' = M!Idle /\ UNCHANGED <<stored, loading>>  BY <1>3 DEF M!ReplaceDocumentModel
  <2>2. CompilerReads'  BY <2>1, IdleCompilerReads
  <2>3. CacheWhole'  BY <1>1 DEF SchemaInv, CacheWhole
  <2> QED  BY <1>1, <2>1, <2>2, <2>3, CompilerKeeps
<1>4. CASE ~(M!Detected(model) /\ ~M!Validate(model))
  <2>1. /\ stored' = [stored EXCEPT ![d] =
                SchemaStored(g, M!Detected(model), new, Putting(stored[d].concepts, g, new))]
        /\ loading' = IF loading.pc # "idle" THEN Disturbing(loading) ELSE loading
        /\ compiler' = Replacing(compiler)
    <3>1. /\ stored' = [stored EXCEPT ![d] =
                  [gen |-> g, active |-> M!Detected(model), tables |-> new.tables, fields |-> new.fields,
                   concepts |-> [@.concepts EXCEPT ![g] = new.concepts]]]
          /\ loading' = IF loading.pc # "idle" THEN [loading EXCEPT !.disturbed = TRUE] ELSE loading
          /\ compiler' = [compiler EXCEPT !.pc = "next", !.item = Nothing, !.rows = <<>>]
      BY <1>4 DEF M!ReplaceDocumentModel
    <3> HIDE DEF d, g, model, new
    <3> QED  BY <3>1 DEF SchemaStored, Putting, Replacing, Disturbing
  \* What is stored is one of the models of the document.
  <2>2. new \in ModelsOf(row[d])
    <3>1. CASE M!Detected(model)
      <4>1. compiler.rows # <<>>  BY <3>1, NothingIsDetected
      <4>2. PICK k \in 1 .. row[d].active : compiler.rows = row[d].sheets[k]  BY <1>2, <4>1
      <4> QED  BY <3>1, <4>2 DEF ModelsOf
    <3>2. CASE ~M!Detected(model)  BY <3>2 DEF ModelsOf
    <3> QED  BY <3>1, <3>2
  <2>3. new = [tables |-> new.tables, fields |-> new.fields, concepts |-> new.concepts]
    <3>1. M!Empty = [tables |-> M!Empty.tables, fields |-> M!Empty.fields, concepts |-> M!Empty.concepts]
      BY DEF M!Empty
    <3>2. model = [tables |-> model.tables, fields |-> model.fields, concepts |-> model.concepts]  BY CompiledIs
    <3> HIDE DEF model
    <3> QED  BY <3>1, <3>2
  <2>4. PICK s : s = SchemaStored(g, M!Detected(model), new, Putting(stored[d].concepts, g, new))  OBVIOUS
  <2>5. stored[d].concepts = [k \in 1 .. MaxGen |-> stored[d].concepts[k]]
    BY <1>2 DEF SchemaInv, StoredWhole
  <2>6. /\ StoredModel(s) = new /\ s.gen = g
        /\ s.concepts = [k \in 1 .. MaxGen |-> s.concepts[k]]
    <3> HIDE DEF d, g, model, new
    <3> QED  BY <1>2, <2>3, <2>4, <2>5, StoredIsWhole
  <2>7. stored = [z \in Doc |-> stored[z]]  BY DEF SchemaInv, StoredWhole
  <2> HIDE DEF d, g, model, new
  <2>8. /\ stored' = [z \in Doc |-> stored'[z]] /\ stored'[d] = s
        /\ \A z \in Doc : z # d => stored'[z] = stored[z]
    BY <1>2, <2>1, <2>4, <2>7
  <2>9. StoredWhole'
    <3>1. ASSUME NEW z \in Doc
          PROVE  /\ stored'[z].concepts = [k \in 1 .. MaxGen |-> stored'[z].concepts[k]]
                 /\ stored'[z].gen \in 0 .. MaxGen
                 /\ stored'[z].active => stored'[z].gen > 0
                 /\ stored'[z].gen > 0 => StoredModel(stored'[z]) \in ModelsOf(row[z])
      <4>1. CASE z = d
        <5>1. g \in 0 .. MaxGen /\ g > 0  BY <1>2
        <5> QED  BY <2>2, <2>6, <2>8, <4>1, <5>1
      <4>2. CASE z # d  BY <2>8, <4>2 DEF SchemaInv, StoredWhole
      <4> QED  BY <4>1, <4>2
    <3> QED  BY <1>1, <2>8, <3>1 DEF StoredWhole
  <2>10. CompilerReads'
    <3>1. PICK x : x = compiler'  OBVIOUS
    <3>2. x = CompilerIs("next", compiler.todo, compiler.base, Nothing, <<>>)  BY <1>2, <2>1, <3>1, ReplacingIs
    <3>3. x.pc = "next" /\ x.todo = compiler.todo /\ x = CompilerIs(x.pc, x.todo, x.base, x.item, x.rows)
      BY <3>2 DEF CompilerIs
    <3> QED  BY <1>2, <3>1, <3>3 DEF CompilerReads, Sourced
  <2>11. ReaderLoads'
    <3>1. loading = ReaderIs(loading.pc, loading.todo, loading.item, loading.model, loading.models,
                             loading.disturbed)
      BY DEF SchemaInv, ReaderLoads
    <3>2. CASE loading.pc = "idle"  BY <2>1, <3>1, <3>2 DEF ReaderLoads
    <3>3. CASE loading.pc # "idle"
      <4>1. PICK x : x = loading'  OBVIOUS
      <4>2. x = ReaderIs(loading.pc, loading.todo, loading.item, loading.model, loading.models, TRUE)
        BY <2>1, <3>1, <3>3, <4>1, DisturbingIs
      <4>3. x.disturbed /\ x = ReaderIs(x.pc, x.todo, x.item, x.model, x.models, x.disturbed)
        BY <4>2 DEF ReaderIs
      <4> QED  BY <4>1, <4>3 DEF ReaderLoads
    <3> QED  BY <3>2, <3>3
  <2>12. CacheWhole' /\ DocumentsTyped'  BY <1>1 DEF SchemaInv, CacheWhole, DocumentsTyped
  <2> QED  BY <2>9, <2>10, <2>11, <2>12 DEF SchemaInv
<1> QED  BY <1>3, <1>4

-----------------------------------------------------------------------------
(* Readers.                                                                 *)

\* Steps of a reader.
LEMMA ReaderKeeps ==
    ASSUME SchemaInv, UNCHANGED <<row, stored, compiler>>, ReaderLoads', CacheWhole'
    PROVE  SchemaInv'
<1>1. DocumentsTyped' /\ StoredWhole'  BY DEF SchemaInv, DocumentsTyped, StoredWhole
<1>2. CompilerReads'  BY DEF SchemaInv, CompilerReads, Sourced
<1> QED  BY <1>1, <1>2 DEF SchemaInv

Beginning(todo) == [M!NotReading EXCEPT !.pc = "tables", !.todo = todo]
Tabled(x, item, m) == [x EXCEPT !.pc = "fields", !.item = item, !.todo = @ \ {item}, !.model = m]
Fielded(x, fields) == [x EXCEPT !.pc = "concepts", !.model.fields = fields]
Loaded(x, m) == [x EXCEPT !.pc = "tables", !.item = Nothing, !.model = M!Empty, !.models = @ \cup {m}]

LEMMA BeginningIs ==
    ASSUME NEW todo
    PROVE  Beginning(todo) = ReaderIs("tables", todo, Nothing, M!Empty, {}, FALSE)
<1>1. PICK e : e = M!Empty  OBVIOUS
<1>2. M!NotReading = ReaderIs("idle", {}, Nothing, e, {}, FALSE)  BY <1>1 DEF M!NotReading, ReaderIs
<1>3. PICK y : y = [M!NotReading EXCEPT !.pc = "tables"]  OBVIOUS
<1>4. y = ReaderIs("tables", {}, Nothing, e, {}, FALSE)  BY <1>2, <1>3 DEF ReaderIs
<1>5. PICK z : z = [y EXCEPT !.todo = todo]  OBVIOUS
<1>6. z = ReaderIs("tables", todo, Nothing, e, {}, FALSE)  BY <1>4, <1>5 DEF ReaderIs
<1>7. Beginning(todo) = z  BY <1>3, <1>5 DEF Beginning
<1> QED  BY <1>1, <1>6, <1>7

LEMMA TabledIs ==
    ASSUME NEW x, x = ReaderIs(x.pc, x.todo, x.item, x.model, x.models, x.disturbed), NEW item, NEW m
    PROVE  Tabled(x, item, m) = ReaderIs("fields", x.todo \ {item}, item, m, x.models, x.disturbed)
<1>1. PICK y1 : y1 = [x EXCEPT !.pc = "fields"]  OBVIOUS
<1>2. y1 = ReaderIs("fields", x.todo, x.item, x.model, x.models, x.disturbed)  BY <1>1 DEF ReaderIs
<1>3. PICK y2 : y2 = [y1 EXCEPT !.item = item]  OBVIOUS
<1>4. y2 = ReaderIs("fields", x.todo, item, x.model, x.models, x.disturbed)  BY <1>2, <1>3 DEF ReaderIs
<1>5. PICK y3 : y3 = [y2 EXCEPT !.todo = @ \ {item}]  OBVIOUS
<1>6. y3 = ReaderIs("fields", x.todo \ {item}, item, x.model, x.models, x.disturbed)  BY <1>4, <1>5 DEF ReaderIs
<1>7. PICK y4 : y4 = [y3 EXCEPT !.model = m]  OBVIOUS
<1>8. y4 = ReaderIs("fields", x.todo \ {item}, item, m, x.models, x.disturbed)  BY <1>6, <1>7 DEF ReaderIs
<1>9. Tabled(x, item, m) = y4  BY <1>1, <1>3, <1>5, <1>7 DEF Tabled
<1> QED  BY <1>8, <1>9

LEMMA FieldedIs ==
    ASSUME NEW x, x = ReaderIs(x.pc, x.todo, x.item, x.model, x.models, x.disturbed), NEW fields
    PROVE  Fielded(x, fields) =
               ReaderIs("concepts", x.todo, x.item, [x.model EXCEPT !.fields = fields], x.models, x.disturbed)
<1>1. PICK y1 : y1 = [x EXCEPT !.pc = "concepts"]  OBVIOUS
<1>2. y1 = ReaderIs("concepts", x.todo, x.item, x.model, x.models, x.disturbed)  BY <1>1 DEF ReaderIs
<1>3. PICK m : m = [x.model EXCEPT !.fields = fields]  OBVIOUS
<1>4. PICK y2 : y2 = [y1 EXCEPT !.model.fields = fields]  OBVIOUS
<1>5. y1.model = x.model  BY <1>2 DEF ReaderIs
<1>6. y2 = [y1 EXCEPT !.model = m]  BY <1>3, <1>4, <1>5
<1>7. y2 = ReaderIs("concepts", x.todo, x.item, m, x.models, x.disturbed)  BY <1>2, <1>6 DEF ReaderIs
<1>8. Fielded(x, fields) = y2  BY <1>1, <1>4 DEF Fielded
<1> QED  BY <1>3, <1>7, <1>8

LEMMA LoadedIs ==
    ASSUME NEW x, x = ReaderIs(x.pc, x.todo, x.item, x.model, x.models, x.disturbed), NEW m
    PROVE  Loaded(x, m) = ReaderIs("tables", x.todo, Nothing, M!Empty, x.models \cup {m}, x.disturbed)
<1>0. PICK e : e = M!Empty  OBVIOUS
<1>1. PICK y1 : y1 = [x EXCEPT !.pc = "tables"]  OBVIOUS
<1>2. y1 = ReaderIs("tables", x.todo, x.item, x.model, x.models, x.disturbed)  BY <1>1 DEF ReaderIs
<1>3. PICK y2 : y2 = [y1 EXCEPT !.item = Nothing]  OBVIOUS
<1>4. y2 = ReaderIs("tables", x.todo, Nothing, x.model, x.models, x.disturbed)  BY <1>2, <1>3 DEF ReaderIs
<1>5. PICK y3 : y3 = [y2 EXCEPT !.model = e]  OBVIOUS
<1>6. y3 = ReaderIs("tables", x.todo, Nothing, e, x.models, x.disturbed)  BY <1>4, <1>5 DEF ReaderIs
<1>7. PICK y4 : y4 = [y3 EXCEPT !.models = @ \cup {m}]  OBVIOUS
<1>8. y4 = ReaderIs("tables", x.todo, Nothing, e, x.models \cup {m}, x.disturbed)  BY <1>6, <1>7 DEF ReaderIs
<1>9. Loaded(x, m) = y4  BY <1>0, <1>1, <1>3, <1>5, <1>7 DEF Loaded
<1> QED  BY <1>0, <1>8, <1>9


LEMMA ReaderFields ==
    ASSUME NEW p, NEW t, NEW i, NEW m, NEW ms, NEW b, NEW x, x = ReaderIs(p, t, i, m, ms, b)
    PROVE  /\ x.pc = p /\ x.todo = t /\ x.item = i /\ x.model = m /\ x.models = ms /\ x.disturbed = b
           /\ x = ReaderIs(x.pc, x.todo, x.item, x.model, x.models, x.disturbed)
  BY DEF ReaderIs

LEMMA ActiveModelsKeeps == ASSUME SchemaInv, M!ActiveModels PROVE SchemaInv'
<1> DEFINE todo == {[doc |-> d, gen |-> stored[d].gen] : d \in {d \in Doc : stored[d].active}}
<1>1. loading' = Beginning(todo) /\ UNCHANGED <<row, stored, compiler, cache>>
  BY DEF M!ActiveModels, Beginning
<1>2. ASSUME NEW item \in todo
      PROVE  ActiveModel(item)
  <2>1. PICK d \in Doc : stored[d].active /\ item = [doc |-> d, gen |-> stored[d].gen]  OBVIOUS
  <2>2. stored[d].gen > 0  BY <2>1 DEF SchemaInv, StoredWhole
  <2>3. item.doc = d /\ item.gen = stored[d].gen  BY <2>1
  <2> QED  BY <2>2, <2>3 DEF ActiveModel
<1> HIDE DEF todo
<1>3. PICK x : x = loading'  OBVIOUS
<1>0. PICK no : no = FALSE  OBVIOUS
<1>4. x = ReaderIs("tables", todo, Nothing, M!Empty, {}, no)  BY <1>0, <1>1, <1>3, BeginningIs
<1>5. /\ x.pc = "tables" /\ x.todo = todo /\ x.models = {}
      /\ x = ReaderIs(x.pc, x.todo, x.item, x.model, x.models, x.disturbed)
  BY <1>4, ReaderFields
<1>6. ReaderLoads'  BY <1>1, <1>2, <1>3, <1>5 DEF ReaderLoads, ActiveModel
<1>7. CacheWhole'  BY <1>1 DEF SchemaInv, CacheWhole
<1> QED  BY <1>1, <1>6, <1>7, ReaderKeeps

LEMMA LoadTablesKeeps == ASSUME SchemaInv, M!LoadTables PROVE SchemaInv'
<1>1. PICK item \in loading.todo :
      loading' = [loading EXCEPT !.pc = "fields", !.item = item, !.todo = @ \ {item},
                               !.model = [M!Empty EXCEPT !.tables = M!Of(item.doc, item.gen, "tables")]]
  BY DEF M!LoadTables
<1>2. loading.pc = "tables" /\ UNCHANGED <<row, stored, compiler, cache>>  BY DEF M!LoadTables
<1>3. PICK m : m = [M!Empty EXCEPT !.tables = M!Of(item.doc, item.gen, "tables")]  OBVIOUS
<1>4. /\ m = [tables |-> m.tables, fields |-> m.fields, concepts |-> m.concepts]
      /\ m.tables = M!Of(item.doc, item.gen, "tables")
  BY <1>3 DEF M!Empty
<1>5. loading = ReaderIs(loading.pc, loading.todo, loading.item, loading.model, loading.models, loading.disturbed)
  BY DEF SchemaInv, ReaderLoads
<1>6. PICK x : x = loading'  OBVIOUS
<1>7. x = ReaderIs("fields", loading.todo \ {item}, item, m, loading.models, loading.disturbed)
  <2>1. x = Tabled(loading, item, m)  BY <1>1, <1>3, <1>6 DEF Tabled
  <2> QED  BY <1>5, <2>1, TabledIs
<1>8. /\ x.pc = "fields" /\ x.todo = loading.todo \ {item} /\ x.item = item /\ x.model = m
      /\ x.models = loading.models /\ x.disturbed = loading.disturbed
      /\ x = ReaderIs(x.pc, x.todo, x.item, x.model, x.models, x.disturbed)
  BY <1>7, ReaderFields
<1>9. ReaderLoads'
  <2>1. CASE loading.disturbed  BY <1>6, <1>8, <2>1 DEF ReaderLoads
  <2>2. CASE ~loading.disturbed
    <3>1. /\ \A i \in loading.todo : ActiveModel(i)
          /\ \A k \in loading.models : k.doc \in Doc /\ k.model \in ModelsOf(row[k.doc])
      BY <1>2, <2>2 DEF SchemaInv, ReaderLoads
    <3>2. m.tables = stored[item.doc].tables  BY <1>1, <1>4, <3>1 DEF ActiveModel, M!Of
    <3> QED  BY <1>1, <1>2, <1>4, <1>6, <1>8, <3>1, <3>2 DEF ReaderLoads, ActiveModel
  <2> QED  BY <2>1, <2>2
<1>10. CacheWhole'  BY <1>2 DEF SchemaInv, CacheWhole
<1> QED  BY <1>2, <1>9, <1>10, ReaderKeeps

LEMMA LoadFieldsKeeps == ASSUME SchemaInv, M!LoadFields PROVE SchemaInv'
<1>1. PICK f : f = M!Of(loading.item.doc, loading.item.gen, "fields")  OBVIOUS
<1>2. /\ loading.pc = "fields" /\ UNCHANGED <<row, stored, compiler, cache>>
      /\ loading' = Fielded(loading, f)
  BY <1>1 DEF M!LoadFields, Fielded
<1>3. loading = ReaderIs(loading.pc, loading.todo, loading.item, loading.model, loading.models, loading.disturbed)
  BY DEF SchemaInv, ReaderLoads
<1>4. PICK m : m = [loading.model EXCEPT !.fields = f]  OBVIOUS
<1>5. PICK x : x = loading'  OBVIOUS
<1>6. x = ReaderIs("concepts", loading.todo, loading.item, m, loading.models, loading.disturbed)
  BY <1>2, <1>3, <1>4, <1>5, FieldedIs
<1>7. /\ x.pc = "concepts" /\ x.todo = loading.todo /\ x.item = loading.item /\ x.model = m
      /\ x.models = loading.models /\ x.disturbed = loading.disturbed
      /\ x = ReaderIs(x.pc, x.todo, x.item, x.model, x.models, x.disturbed)
  BY <1>6, ReaderFields
<1>8. ReaderLoads'
  <2>1. CASE loading.disturbed  BY <1>5, <1>7, <2>1 DEF ReaderLoads
  <2>2. CASE ~loading.disturbed
    <3>1. /\ \A i \in loading.todo : ActiveModel(i)
          /\ \A k \in loading.models : k.doc \in Doc /\ k.model \in ModelsOf(row[k.doc])
          /\ ActiveModel(loading.item)
          /\ loading.model = [tables |-> loading.model.tables, fields |-> loading.model.fields,
                             concepts |-> loading.model.concepts]
          /\ loading.model.tables = stored[loading.item.doc].tables
      BY <1>2, <2>2 DEF SchemaInv, ReaderLoads
    <3>2. /\ m = [tables |-> m.tables, fields |-> m.fields, concepts |-> m.concepts]
          /\ m.tables = loading.model.tables /\ m.fields = f
      <4>1. PICK old : old = loading.model  OBVIOUS
      <4>2. m = [old EXCEPT !.fields = f]
            /\ old = [tables |-> old.tables, fields |-> old.fields, concepts |-> old.concepts]
        BY <1>4, <3>1, <4>1
      <4>3. m = [tables |-> old.tables, fields |-> f, concepts |-> old.concepts]  BY <4>2
      <4> QED  BY <4>1, <4>3
    <3>3. f = stored[loading.item.doc].fields  BY <1>1, <3>1 DEF ActiveModel, M!Of
    <3> QED  BY <1>2, <1>5, <1>7, <3>1, <3>2, <3>3 DEF ReaderLoads, ActiveModel
  <2> QED  BY <2>1, <2>2
<1>9. CacheWhole'  BY <1>2 DEF SchemaInv, CacheWhole
<1> QED  BY <1>2, <1>8, <1>9, ReaderKeeps

LEMMA LoadConceptsKeeps == ASSUME SchemaInv, M!LoadConcepts PROVE SchemaInv'
<1> DEFINE d == loading.item.doc
           g == loading.item.gen
<1>1. PICK m : m = [loading.model EXCEPT !.concepts = stored[d].concepts[g]]  OBVIOUS
<1>2. PICK k : k = [doc |-> d, model |-> m]  OBVIOUS
<1>3. /\ loading.pc = "concepts" /\ UNCHANGED <<row, stored, compiler, cache>>
      /\ loading' = Loaded(loading, k)
  BY <1>1, <1>2 DEF M!LoadConcepts, Loaded
<1>4. loading = ReaderIs(loading.pc, loading.todo, loading.item, loading.model, loading.models, loading.disturbed)
  BY DEF SchemaInv, ReaderLoads
<1>5. PICK x : x = loading'  OBVIOUS
<1>6. x = ReaderIs("tables", loading.todo, Nothing, M!Empty, loading.models \cup {k}, loading.disturbed)
  BY <1>3, <1>4, <1>5, LoadedIs
<1>7. /\ x.pc = "tables" /\ x.todo = loading.todo /\ x.models = loading.models \cup {k}
      /\ x.disturbed = loading.disturbed
      /\ x = ReaderIs(x.pc, x.todo, x.item, x.model, x.models, x.disturbed)
  BY <1>6, ReaderFields
<1>8. ReaderLoads'
  <2>1. CASE loading.disturbed  BY <1>5, <1>7, <2>1 DEF ReaderLoads
  <2>2. CASE ~loading.disturbed
    <3>1. /\ \A i \in loading.todo : ActiveModel(i)
          /\ \A n \in loading.models : n.doc \in Doc /\ n.model \in ModelsOf(row[n.doc])
          /\ d \in Doc /\ stored[d].gen > 0 /\ g = stored[d].gen
          /\ loading.model = [tables |-> loading.model.tables, fields |-> loading.model.fields,
                             concepts |-> loading.model.concepts]
          /\ loading.model.tables = stored[d].tables /\ loading.model.fields = stored[d].fields
      BY <1>3, <2>2 DEF SchemaInv, ReaderLoads, ActiveModel
    \* What was loaded is what is stored, under the generation that is stored.
    <3>2. m = StoredModel(stored[d])
      <4> HIDE DEF d, g
      <4>1. PICK old, c : old = loading.model /\ c = stored[d].concepts[g]  OBVIOUS
      <4>2. m = [old EXCEPT !.concepts = c]
            /\ old = [tables |-> old.tables, fields |-> old.fields, concepts |-> old.concepts]
        BY <1>1, <3>1, <4>1
      <4>3. m = [tables |-> old.tables, fields |-> old.fields, concepts |-> c]  BY <4>2
      <4> QED  BY <3>1, <4>1, <4>3 DEF StoredModel
    <3>3. m \in ModelsOf(row[d])  BY <3>1, <3>2 DEF SchemaInv, StoredWhole
    <3>4. k.doc \in Doc /\ k.model \in ModelsOf(row[k.doc])  BY <1>2, <3>1, <3>3
    <3> QED  BY <1>3, <1>5, <1>7, <3>1, <3>4 DEF ReaderLoads, ActiveModel
  <2> QED  BY <2>1, <2>2
<1>9. CacheWhole'  BY <1>3 DEF SchemaInv, CacheWhole
<1> QED  BY <1>3, <1>8, <1>9, ReaderKeeps

LEMMA NotReadingLoads == ASSUME loading' = M!NotReading PROVE ReaderLoads'
<1>1. PICK x : x = loading'  OBVIOUS
<1>0. PICK no : no = FALSE  OBVIOUS
<1>2. x = ReaderIs("idle", {}, Nothing, M!Empty, {}, no)  BY <1>0, <1>1 DEF M!NotReading, ReaderIs
<1>3. x.pc = "idle" /\ x = ReaderIs(x.pc, x.todo, x.item, x.model, x.models, x.disturbed)
  BY <1>2, ReaderFields
<1> QED  BY <1>1, <1>3 DEF ReaderLoads

LEMMA KeepModelsKeeps == ASSUME SchemaInv, M!KeepModels PROVE SchemaInv'
<1>1. /\ loading.pc = "tables" /\ UNCHANGED <<row, stored, compiler>> /\ loading' = M!NotReading
      /\ cache' = [models |-> loading.models, disturbed |-> loading.disturbed]
  BY DEF M!KeepModels
<1>2. CacheWhole'
  <2>1. PICK c : c = cache'  OBVIOUS
  <2>2. c.models = loading.models /\ c.disturbed = loading.disturbed  BY <1>1, <2>1
  <2>3. ~loading.disturbed => \A m \in loading.models : m.doc \in Doc /\ m.model \in ModelsOf(row[m.doc])
    BY <1>1 DEF SchemaInv, ReaderLoads
  <2> QED  BY <1>1, <2>1, <2>2, <2>3 DEF CacheWhole
<1>3. ReaderLoads'  BY <1>1, NotReadingLoads
<1> QED  BY <1>1, <1>2, <1>3, ReaderKeeps

-----------------------------------------------------------------------------

LEMMA NextKeeps == ASSUME M!SchemaAssumption, SchemaInv, M!Next PROVE SchemaInv'
<1>1. CASE \E d \in Doc : M!Publish(d)  BY <1>1, PublishKeeps
<1>2. CASE \E d \in Doc : M!Delete(d)  BY <1>2, DeleteKeeps
<1>3. CASE M!CompileBaseSchema \/ \E d \in Doc : M!CompileDocumentSchema(d)  BY <1>3, BeginCompileKeeps
<1>4. CASE M!listSchemaSourceRows \/ M!ReplaceDocumentModel \/ M!FinishCompile
  BY <1>4, ReadRowsKeeps, ReplaceKeeps, FinishCompileKeeps
<1>5. CASE M!ActiveModels \/ M!LoadTables \/ M!LoadFields \/ M!LoadConcepts \/ M!KeepModels
  BY <1>5, ActiveModelsKeeps, LoadTablesKeeps, LoadFieldsKeeps, LoadConceptsKeeps, KeepModelsKeeps
<1> QED  BY <1>1, <1>2, <1>3, <1>4, <1>5 DEF M!Next

LEMMA InitHolds == ASSUME M!SchemaAssumption, M!Init PROVE SchemaInv
<1>0. MaxGen \in Nat \ {0}  BY DEF M!SchemaAssumption
<1>1. DocumentsTyped
  <2>0. PICK yes : yes = TRUE  OBVIOUS
  <2>1. row = [d \in Doc |-> DocumentIs(0, <<>>, yes)]  BY <2>0 DEF M!Init, DocumentIs
  <2>2. \A d \in Doc : row[d] = DocumentIs(0, <<>>, yes)  BY <2>1
  <2>3. row = [d \in Doc |-> row[d]]  BY <2>1
  <2>4. ASSUME NEW d \in Doc
        PROVE  row[d].active = 0 /\ row[d].sheets = <<>>
               /\ row[d] = [active |-> row[d].active, sheets |-> row[d].sheets, live |-> row[d].live]
    BY <2>2 DEF DocumentIs
  <2>5. <<>> \in Seq(Sheets) /\ Len(<<>>) = 0  OBVIOUS
  <2>6. \A d \in Doc : /\ row[d] = [active |-> row[d].active, sheets |-> row[d].sheets, live |-> row[d].live]
                        /\ row[d].active = 0 /\ row[d].sheets = <<>>
    BY <2>4
  <2>7. 0 \in 0 .. MaxGen  BY <1>0
  <2>8. \A d \in Doc : /\ row[d].active \in 0 .. MaxGen
                        /\ row[d].sheets \in Seq(Sheets) /\ Len(row[d].sheets) = row[d].active
    BY <2>5, <2>6, <2>7
  <2> QED  BY <2>3, <2>6, <2>8 DEF DocumentsTyped
<1>2. CompilerReads
  <2>0. PICK no : no = FALSE  OBVIOUS
  <2>1. PICK x : x = compiler  OBVIOUS
  <2>2. x = CompilerIs("idle", {}, no, Nothing, <<>>)  BY <2>0, <2>1 DEF M!Init, M!Idle, CompilerIs
  <2>3. x.pc = "idle" /\ x.todo = {} /\ x = CompilerIs(x.pc, x.todo, x.base, x.item, x.rows)
    BY <2>2, CompilerFields
  <2> QED  BY <2>1, <2>3 DEF CompilerReads
<1>3. StoredWhole
  <2>1. PICK none : none = [g \in 1 .. MaxGen |-> {}]  OBVIOUS
  <2>2. stored = [d \in Doc |-> [gen |-> 0, active |-> FALSE, tables |-> {}, fields |-> {}, concepts |-> none]]
    BY <2>1 DEF M!Init
  <2>3. \A d \in Doc : stored[d].gen = 0 /\ stored[d].active = FALSE /\ stored[d].concepts = none  BY <2>2
  <2>4. stored = [d \in Doc |-> stored[d]] /\ none = [g \in 1 .. MaxGen |-> none[g]]  BY <2>1, <2>2
  <2> QED  BY <1>0, <2>3, <2>4 DEF StoredWhole
<1>4. ReaderLoads
  <2>0. PICK no : no = FALSE  OBVIOUS
  <2>1. PICK x : x = loading  OBVIOUS
  <2>2. x = ReaderIs("idle", {}, Nothing, M!Empty, {}, no)  BY <2>0, <2>1 DEF M!Init, M!NotReading, ReaderIs
  <2>3. x.pc = "idle" /\ x = ReaderIs(x.pc, x.todo, x.item, x.model, x.models, x.disturbed)
    BY <2>2, ReaderFields
  <2> QED  BY <2>1, <2>3 DEF ReaderLoads
<1>5. CacheWhole  BY DEF M!Init, CacheWhole
<1> QED  BY <1>1, <1>2, <1>3, <1>4, <1>5 DEF SchemaInv

LEMMA SchemaInvIsWhole == ASSUME SchemaInv PROVE M!SchemaIsWhole
<1>1. \A d \in Doc : stored[d].gen > 0 => M!Whole(d, StoredModel(stored[d]))
  BY DEF SchemaInv, StoredWhole, M!Whole, ModelsOf
<1>2. cache # Nothing => cache.disturbed \/ \A m \in cache.models : M!Whole(m.doc, m.model)
  BY DEF SchemaInv, CacheWhole, M!Whole, ModelsOf
<1> QED  BY <1>1, <1>2 DEF M!SchemaIsWhole, StoredModel

\* store.go: whatever is published, deleted and compiled in between, what is stored of
\* a document, and what a reader that no replacement disturbed has cached, is the model
\* of one of its generations, whole, or nothing.
THEOREM SchemaStaysWhole == ASSUME M!SchemaAssumption PROVE M!Init /\ [][M!Next]_M!vars => []M!SchemaIsWhole
<1>1. M!Init => SchemaInv  BY InitHolds
<1>2. SchemaInv /\ [M!Next]_M!vars => SchemaInv'
  <2>1. ASSUME SchemaInv, UNCHANGED M!vars
        PROVE  SchemaInv'
    BY <2>1 DEF SchemaInv, M!vars, DocumentsTyped, CompilerReads, StoredWhole, ReaderLoads, CacheWhole,
                Sourced, ActiveModel
  <2> QED  BY <2>1, NextKeeps
<1>3. SchemaInv => M!SchemaIsWhole  BY SchemaInvIsWhole
<1> QED  BY <1>1, <1>2, <1>3, PTL

=============================================================================
