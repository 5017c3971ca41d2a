------------------------ MODULE UploadStagingProofs ------------------------
(***************************************************************************)
(* Type correctness, the quotas and the exactness of recovery, for any      *)
(* number of sessions and puts, any sizes and limits, and any faults,       *)
(* crashes and restarts.                                                    *)
(*                                                                         *)
(* Recovery is exact because nothing else runs before the process serves,   *)
(* so the leases its pass found are, at each step, the ones still to handle *)
(* and the one whose file is already removed. The quotas hold because the   *)
(* reservations in memory are the bytes of the puts that copy, and because  *)
(* what a session recorded is fixed once it is completed.                   *)
(*                                                                         *)
(* The second part is about Catalog: bases, groups and the saved scope.     *)
(***************************************************************************)
EXTENDS UploadStaging, UnitSums

-----------------------------------------------------------------------------
(* The inductive invariant.                                                  *)

\* A request at work has a session, and one past the rename has a content.
RequestsTyped ==
    \A p \in Put :
        /\ put[p] # "idle" => putUpload[p] \in Upload
        /\ put[p] \in {"recording", "unlinking"} => putContent[p] \in Content

\* Before the process serves, only recovery works.
OnlyUpWorks ==
    phase # "up" => /\ \A p \in Put : put[p] = "idle"
                    /\ retrying = {} /\ releasing = {}

\* What the pass of recovery has before it.
Handled == IF removed = None THEN todo ELSE todo \cup {removed}

SweepsInOrder ==
    /\ removed \notin todo
    /\ ~Sweeping => todo = {} /\ removed = None
    /\ phase = "expire" => Handled \subseteq Expirable
    /\ phase = "release" => Handled = DeadLeases
    /\ phase = "clean" => DeadLeases = {}

StagingInv == TypeOK /\ RequestsTyped /\ OnlyUpWorks /\ SweepsInOrder

-----------------------------------------------------------------------------
(* Bytes are counted as the elements of finite sets.                         *)

LEMMA ReservedIsFinite ==
    ASSUME TypeOK, RequestsTyped
    PROVE  IsFiniteSet(Reserved) /\ Cardinality(Reserved) \in Nat
<1> DEFINE f == [p \in Copying |-> Reservation[putUpload[p]]]
<1>1. \A p \in Copying : f[p] \in Nat
  BY UploadAssumption DEF Copying, RequestsTyped
<1>2. IsFiniteSet(Copying)
  BY UploadAssumption, FS_Subset DEF Copying
<1>3. Reserved = Units(Copying, f)
  BY DEF Reserved, Units
<1> HIDE DEF f
<1> QED BY <1>1, <1>2, <1>3, UnitsAreFinite

LEMMA BytesOfAreFinite ==
    ASSUME TypeOK, NEW S \in SUBSET Upload
    PROVE  IsFiniteSet(BytesOf(S))
<1> DEFINE f == [u \in S |-> SizeOf(recorded[u])]
<1>1. \A u \in S : f[u] \in Nat
  BY UploadAssumption DEF TypeOK, SizeOf
<1>2. IsFiniteSet(S)
  BY UploadAssumption, FS_Subset
<1>3. BytesOf(S) = Units(S, f)
  BY DEF BytesOf, Units
<1> HIDE DEF f
<1> QED BY <1>1, <1>2, <1>3, UnitsAreFinite

-----------------------------------------------------------------------------
(* The shape of the state.                                                   *)

LEMMA StagingStarts == Init => StagingInv
BY UploadAssumption
   DEF Init, StagingInv, TypeOK, RequestsTyped, OnlyUpWorks, SweepsInOrder, Sweeping, States,
       Commands, Handled

\* Requests that create, complete and submit sessions.
LEMMA ClientKeepsTypes ==
    ASSUME StagingInv, NEW u \in Upload, CreateUpload(u) \/ CompleteUpload(u) \/ Submit(u)
    PROVE  TypeOK' /\ RequestsTyped'
<1> USE DEF StagingInv, storeVars, commandVars, putVars, workVars, procVars
<1>1. CASE CreateUpload(u)
  BY <1>1 DEF CreateUpload, TypeOK, RequestsTyped, States
<1>2. CASE CompleteUpload(u)
  BY <1>2 DEF CompleteUpload, TypeOK, RequestsTyped, States
<1>3. CASE Submit(u)
  BY <1>3 DEF Submit, TypeOK, RequestsTyped, States, Commands
<1> QED BY <1>1, <1>2, <1>3

\* Puts.
LEMMA PutKeepsTypes ==
    ASSUME StagingInv, NEW p \in Put, PutStep(p)
    PROVE  TypeOK' /\ RequestsTyped'
<1> USE DEF StagingInv, storeVars, commandVars, putVars, workVars, procVars
<1>0. \A u \in Upload : Reservation[u] \in Nat /\ Accepts[u] \subseteq Content
  BY UploadAssumption
<1>1. ASSUME NEW u \in Upload, PutBegin(p, u) PROVE TypeOK' /\ RequestsTyped'
  BY <1>0, <1>1 DEF PutBegin, reserveTemp, TypeOK, RequestsTyped
<1>2. ASSUME NEW c \in Content, PutPublish(p, c) PROVE TypeOK' /\ RequestsTyped'
  <2>1. putUpload[p] \in Upload /\ tempReserved' \in Nat
    BY <1>0, <1>2 DEF PutPublish, releaseTemp, TypeOK, RequestsTyped
  <2> QED BY <1>2, <2>1 DEF PutPublish, TypeOK, RequestsTyped
<1>3. CASE PutRejected(p)
  <2>1. putUpload[p] \in Upload /\ tempReserved' \in Nat
    BY <1>0, <1>3 DEF PutRejected, releaseTemp, TypeOK, RequestsTyped
  <2> QED BY <1>3, <2>1 DEF PutRejected, PutDone, TypeOK, RequestsTyped
<1>4. CASE PutRecord(p)
  <2>1. putUpload[p] \in Upload /\ putContent[p] \in Content /\ faults' \in Nat
    BY <1>4 DEF PutRecord, Write, TypeOK, RequestsTyped
  <2>2. recorded' \in [Upload -> Content \cup {None}]
    BY <1>4, <2>1 DEF PutRecord, TypeOK
  <2>3. /\ put' \in [Put -> {"idle", "copying", "recording", "unlinking"}]
        /\ putUpload' \in [Put -> Upload \cup {None}] /\ putContent' \in [Put -> Content \cup {None}]
    BY <1>4 DEF PutRecord, PutDone, TypeOK
  <2>4. RequestsTyped'
    BY <1>4, <2>1 DEF PutRecord, PutDone, TypeOK, RequestsTyped
  <2> QED BY <1>4, <2>1, <2>2, <2>3, <2>4 DEF PutRecord, TypeOK
<1>5. CASE PutUnlink(p)
  BY <1>5 DEF PutUnlink, PutDone, TypeOK, RequestsTyped
<1> QED BY <1>1, <1>2, <1>3, <1>4, <1>5 DEF PutStep

\* The command, its retries and the workers that close its lease.
LEMMA CommandKeepsTypes ==
    ASSUME StagingInv, NEW u \in Upload,
           Import(u) \/ Finish(u) \/ CancelQueued(u) \/ RetryRead(u) \/ RetryTx(u)
    PROVE  TypeOK' /\ RequestsTyped'
<1> USE DEF StagingInv, storeVars, commandVars, putVars, workVars, procVars, Commands
<1>1. CASE Import(u)
  BY <1>1 DEF Import, TypeOK, RequestsTyped
<1>2. CASE Finish(u)
  BY <1>2 DEF Finish, TypeOK, RequestsTyped
<1>3. CASE CancelQueued(u)
  BY <1>3 DEF CancelQueued, TypeOK, RequestsTyped
<1>4. CASE RetryRead(u)
  BY <1>4 DEF RetryRead, TypeOK, RequestsTyped
<1>5. CASE RetryTx(u)
  BY <1>5 DEF RetryTx, TypeOK, RequestsTyped
<1> QED BY <1>1, <1>2, <1>3, <1>4, <1>5

LEMMA ReleaseKeepsTypes ==
    ASSUME StagingInv, NEW u \in Upload,
           ReleaseLook(u) \/ ReleaseRemove(u) \/ ReleasePublish(u)
    PROVE  TypeOK' /\ RequestsTyped'
<1> USE DEF StagingInv, storeVars, commandVars, putVars, workVars, procVars, ReleaseStep
<1>1. CASE ReleaseLook(u)
  BY <1>1 DEF ReleaseLook, TypeOK, RequestsTyped
<1>2. CASE ReleaseRemove(u)
  BY <1>2 DEF ReleaseRemove, TypeOK, RequestsTyped
<1>3. CASE ReleasePublish(u)
  <2>1. faults' \in Nat /\ releasing' \subseteq Upload \X {"look", "remove", "publish"}
    BY <1>3 DEF ReleasePublish, Write, TypeOK
  <2>2. \/ state' = state
        \/ state[u] = "bound" /\ state' = [state EXCEPT ![u] = "released"]
    BY <1>3 DEF ReleasePublish, SetState
  <2>3. /\ state' \in [Upload -> States]
        /\ \A v \in Upload : state'[v] \in {"bound", "released"} <=> state[v] \in {"bound", "released"}
    BY <2>2 DEF TypeOK, States
  <2> QED BY <1>3, <2>1, <2>3 DEF ReleasePublish, TypeOK, RequestsTyped
<1> QED BY <1>1, <1>2, <1>3

\* The process and its recovery.
LEMMA RecoveryKeepsTypes ==
    ASSUME StagingInv,
           Start \/ (\E u \in Upload : SweepRemove(u)) \/ SweepPublish \/ SweepNext
             \/ cleanupUploadTemps \/ Crash
    PROVE  TypeOK' /\ RequestsTyped'
<1> USE DEF StagingInv, storeVars, commandVars, putVars, workVars, procVars
<1>1. CASE Start
  <2>1. \A u \in Upload : command'[u] # "none" <=> command[u] # "none"
    BY <1>1 DEF Start, Recovered, TypeOK, Commands
  <2> QED BY <1>1, <2>1 DEF Start, Expirable, TypeOK, RequestsTyped
<1>2. ASSUME NEW u \in Upload, SweepRemove(u) PROVE TypeOK' /\ RequestsTyped'
  BY <1>2 DEF SweepRemove, TypeOK, RequestsTyped
<1>3. CASE SweepPublish
  <2>1. removed \in Upload
    BY <1>3 DEF SweepPublish, TypeOK
  <2>2. /\ phase = "expire" => removed \in Expirable
        /\ phase = "release" => removed \in DeadLeases
    BY <1>3 DEF SweepPublish, SweepsInOrder, Handled
  <2> QED BY <1>3, <2>1, <2>2
          DEF SweepPublish, Sweeping, Expirable, DeadLeases, TypeOK, RequestsTyped, States
<1>4. CASE SweepNext
  BY <1>4 DEF SweepNext, DeadLeases, TypeOK, RequestsTyped
<1>5. CASE cleanupUploadTemps
  BY <1>5 DEF cleanupUploadTemps, OrphansLeft, TypeOK, RequestsTyped
<1>6. CASE Crash
  <2>1. TempBytes \in Nat
    BY ReservedIsFinite DEF TempBytes, TypeOK
  <2> QED BY <1>6, <2>1 DEF Crash, TypeOK, RequestsTyped
<1> QED BY <1>1, <1>2, <1>3, <1>4, <1>5, <1>6

LEMMA TypesAreKept == StagingInv /\ [Next]_vars => TypeOK' /\ RequestsTyped'
<1> SUFFICES ASSUME StagingInv, [Next]_vars PROVE TypeOK' /\ RequestsTyped'
  OBVIOUS
<1>1. ASSUME NEW u \in Upload, Session(u) PROVE TypeOK' /\ RequestsTyped'
  BY <1>1, ClientKeepsTypes, CommandKeepsTypes, ReleaseKeepsTypes, RecoveryKeepsTypes DEF Session
<1>2. CASE UNCHANGED vars
  BY <1>2 DEF vars, storeVars, commandVars, putVars, workVars, procVars, StagingInv, TypeOK, RequestsTyped
<1> QED BY <1>1, <1>2, PutKeepsTypes, RecoveryKeepsTypes DEF Next

-----------------------------------------------------------------------------
(* Recovery.                                                                 *)

\* Until the process serves, no request and no worker takes a step.
LEMMA RecoveryIsAlone ==
    ASSUME StagingInv, [Next]_vars, phase # "up"
    PROVE  \/ Start \/ (\E u \in Upload : SweepRemove(u)) \/ SweepPublish \/ SweepNext
           \/ cleanupUploadTemps \/ Crash \/ UNCHANGED vars
<1>1. /\ \A p \in Put : put[p] = "idle"
      /\ \A u \in Upload, s \in {"look", "remove", "publish"} : <<u, s>> \notin releasing
      /\ \A u \in Upload : u \notin retrying
  BY DEF StagingInv, OnlyUpWorks
<1>2. ASSUME NEW p \in Put, PutStep(p) PROVE FALSE
  BY <1>1, <1>2 DEF PutStep, PutBegin, PutPublish, PutRejected, PutRecord, PutUnlink
<1>3. ASSUME NEW u \in Upload, Session(u) PROVE SweepRemove(u)
  <2>1. ~(ReleaseLook(u) \/ ReleaseRemove(u) \/ ReleasePublish(u))
    BY <1>1 DEF ReleaseLook, ReleaseRemove, ReleasePublish, ReleaseStep
  <2>2. ~(CreateUpload(u) \/ CompleteUpload(u) \/ Submit(u) \/ Import(u) \/ Finish(u)
            \/ CancelQueued(u) \/ RetryRead(u) \/ RetryTx(u))
    BY <1>1 DEF CreateUpload, CompleteUpload, Submit, Import, Finish, CancelQueued, RetryRead, RetryTx
  <2> QED BY <1>3, <2>1, <2>2 DEF Session
<1> QED BY <1>2, <1>3 DEF Next

\* Nothing but the last step of recovery makes the process serve, and only a crash stops it.
LEMMA PhaseMoves ==
    ASSUME StagingInv, [Next]_vars
    PROVE  /\ phase # "up" /\ phase' = "up" => cleanupUploadTemps
           /\ phase = "up" => \/ Crash
                              \/ phase' = "up" /\ todo' = todo /\ removed' = removed
<1>1. phase # "up" /\ phase' = "up" => cleanupUploadTemps
  <2> SUFFICES ASSUME phase # "up", phase' = "up" PROVE cleanupUploadTemps
    OBVIOUS
  <2>1. ~(\E u \in Upload : SweepRemove(u)) /\ ~SweepPublish
    BY DEF SweepRemove, SweepPublish
  <2>2. ~Start /\ ~SweepNext /\ ~Crash /\ ~UNCHANGED vars
    BY DEF Start, SweepNext, Crash, vars, procVars
  <2> QED BY <2>1, <2>2, RecoveryIsAlone
<1>2. ASSUME phase = "up", ~Crash
      PROVE  phase' = "up" /\ todo' = todo /\ removed' = removed
  <2>1. ASSUME NEW p \in Put, PutStep(p) PROVE UNCHANGED <<phase, todo, removed>>
    BY <2>1 DEF PutStep, PutBegin, PutPublish, PutRejected, PutRecord, PutUnlink, procVars
  <2>2. ASSUME NEW u \in Upload, Session(u) PROVE UNCHANGED <<phase, todo, removed>>
    <3>1. ~SweepRemove(u)
      BY <1>2 DEF SweepRemove, Sweeping
    <3>2. CASE CreateUpload(u) \/ CompleteUpload(u) \/ Submit(u) \/ Import(u) \/ Finish(u)
      BY <3>2 DEF CreateUpload, CompleteUpload, Submit, Import, Finish, procVars
    <3>3. CASE CancelQueued(u) \/ RetryRead(u) \/ RetryTx(u)
      BY <3>3 DEF CancelQueued, RetryRead, RetryTx, procVars
    <3>4. CASE ReleaseLook(u) \/ ReleaseRemove(u) \/ ReleasePublish(u)
      BY <3>4 DEF ReleaseLook, ReleaseRemove, ReleasePublish, procVars
    <3> QED BY <2>2, <3>1, <3>2, <3>3, <3>4 DEF Session
  <2>3. ~(Start \/ SweepPublish \/ SweepNext \/ cleanupUploadTemps)
    BY <1>2 DEF Start, SweepPublish, SweepNext, cleanupUploadTemps, Sweeping
  <2>4. UNCHANGED vars => UNCHANGED <<phase, todo, removed>>
    BY DEF vars, procVars
  <2>5. UNCHANGED <<phase, todo, removed>>
    <3>1. CASE Next
      BY <1>2, <2>1, <2>2, <2>3, <3>1 DEF Next
    <3> QED BY <2>4, <3>1
  <2> QED BY <1>2, <2>5
<1> QED BY <1>1, <1>2

LEMMA RecoveryKeepsOrder == StagingInv /\ [Next]_vars => OnlyUpWorks' /\ SweepsInOrder'
<1> SUFFICES ASSUME StagingInv, [Next]_vars PROVE OnlyUpWorks' /\ SweepsInOrder'
  OBVIOUS
<1> USE DEF StagingInv
<1>1. CASE Crash
  BY <1>1 DEF Crash, OnlyUpWorks, SweepsInOrder, Sweeping
<1>2. CASE phase = "up" /\ ~Crash
  <2>1. phase' = "up" /\ todo' = {} /\ removed' = None /\ removed \notin todo
    BY <1>2, PhaseMoves DEF SweepsInOrder, Sweeping
  <2> QED BY <2>1 DEF OnlyUpWorks, SweepsInOrder, Sweeping
<1>3. CASE phase # "up" /\ ~Crash
  <2>1. /\ \A p \in Put : put[p] = "idle"
        /\ retrying = {} /\ releasing = {}
    BY <1>3 DEF OnlyUpWorks
  <2>2. CASE Start
    <3>1. /\ phase' = "expire" /\ todo' \subseteq Expirable /\ removed' = None /\ removed = None
          /\ state' = state /\ putVars' = putVars /\ workVars' = workVars
      BY <2>2 DEF Start, storeVars, SweepsInOrder, Sweeping
    <3>2. None \notin Upload
      BY UploadAssumption
    <3> QED BY <2>1, <3>1, <3>2
            DEF OnlyUpWorks, SweepsInOrder, Sweeping, Handled, Expirable, putVars, workVars
  <2>3. ASSUME NEW u \in Upload, SweepRemove(u) PROVE OnlyUpWorks' /\ SweepsInOrder'
    <3>1. /\ phase' = phase /\ state' = state /\ command' = command
          /\ putVars' = putVars /\ workVars' = workVars
          /\ removed = None /\ u \in todo /\ todo' = todo \ {u} /\ removed' = u
          /\ phase \in {"expire", "release"} /\ u # None
      BY <2>3, UploadAssumption DEF SweepRemove, Sweeping, commandVars
    <3>2. Handled' = Handled
      BY <3>1 DEF Handled
    <3> QED BY <2>1, <3>1, <3>2
            DEF OnlyUpWorks, SweepsInOrder, Sweeping, Expirable, DeadLeases, putVars, workVars
  <2>4. CASE SweepPublish
    <3>1. /\ phase' = phase /\ command' = command /\ putVars' = putVars /\ workVars' = workVars
          /\ removed # None /\ removed \in Upload /\ todo' = todo /\ removed' = None
          /\ removed \notin todo /\ todo \subseteq Upload
          /\ phase \in {"expire", "release"} /\ None \notin Upload
      BY <2>4, UploadAssumption DEF SweepPublish, Sweeping, commandVars, TypeOK, SweepsInOrder
    <3>2. /\ \A u \in Upload : u # removed => state'[u] = state[u]
          /\ state'[removed] \in {"expired", "released"}
      BY <2>4, <3>1 DEF SweepPublish, TypeOK
    <3>3. Handled = todo \cup {removed} /\ Handled' = todo
      BY <3>1 DEF Handled
    <3>4. phase = "expire" => Handled' \subseteq Expirable'
      BY <3>1, <3>2, <3>3 DEF SweepsInOrder, Expirable
    <3>5. phase = "release" => Handled' = DeadLeases'
      BY <3>1, <3>2, <3>3 DEF SweepsInOrder, DeadLeases
    <3> QED BY <2>1, <3>1, <3>4, <3>5 DEF OnlyUpWorks, SweepsInOrder, Sweeping, putVars, workVars
  <2>5. CASE SweepNext
    <3>1. /\ removed = None /\ todo = {} /\ removed' = None /\ None \notin Upload
          /\ state' = state /\ command' = command /\ putVars' = putVars /\ workVars' = workVars
          /\ DeadLeases' = DeadLeases /\ DeadLeases \subseteq Upload
      BY <2>5, UploadAssumption DEF SweepNext, storeVars, commandVars, DeadLeases
    <3>2. CASE phase = "expire"
      BY <2>1, <2>5, <3>1, <3>2
         DEF SweepNext, OnlyUpWorks, SweepsInOrder, Sweeping, Handled, putVars, workVars
    <3>3. CASE phase = "release"
      BY <2>1, <2>5, <3>1, <3>3
         DEF SweepNext, OnlyUpWorks, SweepsInOrder, Sweeping, Handled, putVars, workVars
    <3> QED BY <2>5, <3>2, <3>3 DEF SweepNext, Sweeping
  <2>6. CASE cleanupUploadTemps
    BY <2>6 DEF cleanupUploadTemps, OnlyUpWorks, SweepsInOrder, Sweeping
  <2>7. CASE UNCHANGED vars
    BY <2>7 DEF vars, storeVars, commandVars, putVars, workVars, procVars, OnlyUpWorks,
                SweepsInOrder, Sweeping, Handled, Expirable, DeadLeases
  <2> QED BY <1>3, <2>2, <2>3, <2>4, <2>5, <2>6, <2>7, RecoveryIsAlone
<1> QED BY <1>1, <1>2, <1>3

\* The inductive invariant holds.
THEOREM StagingIsOrdered == Spec => []StagingInv
<1>1. StagingInv /\ [Next]_vars => StagingInv'
  BY TypesAreKept, RecoveryKeepsOrder DEF StagingInv
<1> QED BY <1>1, StagingStarts, PTL DEF Spec

\* The shape of the state, for any sessions, puts, sizes and limits.
THEOREM TypeCorrect == Spec => []TypeOK
<1>1. StagingInv => TypeOK
  BY DEF StagingInv
<1> QED BY <1>1, StagingIsOrdered, PTL

\* Recovery takes back the inputs of commands that cannot run again, all of them, and
\* no other (Service.recover: expireUploads, releaseTerminalUploads).
THEOREM RecoveryTakesBack == Spec => RecoveryIsExact
<1>1. ASSUME StagingInv, [Next]_vars, phase # "up", phase' = "up",
             NEW u \in Upload, state'[u] = "bound"
      PROVE  command'[u] \notin Over
  <2>1. cleanupUploadTemps
    BY <1>1, PhaseMoves
  <2>2. state' = state /\ command' = command /\ DeadLeases = {}
    BY <1>1, <2>1 DEF cleanupUploadTemps, commandVars, StagingInv, SweepsInOrder
  <2> QED BY <1>1, <2>2 DEF DeadLeases
<1>2. ASSUME StagingInv, [Next]_vars, phase # "up", NEW u \in Upload, staged'[u] # staged[u]
      PROVE  command[u] \notin {"live", "open"}
  <2>1. PICK v \in Upload : SweepRemove(v)
    <3>1. ~(Start \/ SweepPublish \/ SweepNext)
      BY <1>2 DEF Start, SweepPublish, SweepNext, storeVars
    <3>2. ~(cleanupUploadTemps \/ Crash \/ UNCHANGED vars)
      BY <1>2 DEF cleanupUploadTemps, Crash, vars, storeVars
    <3> QED BY <1>2, <3>1, <3>2, RecoveryIsAlone
  <2>2. v = u /\ u \in Handled /\ phase \in {"expire", "release"}
    BY <1>2, <2>1 DEF SweepRemove, Sweeping, Handled, StagingInv, TypeOK
  <2>3. CASE phase = "expire"
    BY <1>2, <2>2, <2>3 DEF StagingInv, SweepsInOrder, Expirable, TypeOK
  <2>4. CASE phase = "release"
    BY <1>2, <2>2, <2>4 DEF StagingInv, SweepsInOrder, DeadLeases, Over
  <2> QED BY <2>2, <2>3, <2>4
<1>3. Spec => RecoverySettlesLeases
  <2>1. StagingInv /\ [Next]_vars =>
            [phase # "up" /\ phase' = "up" =>
                \A u \in Upload : state'[u] = "bound" => command'[u] \notin Over]_vars
    BY <1>1
  <2> QED BY <2>1, StagingIsOrdered, PTL DEF Spec, RecoverySettlesLeases
<1>4. Spec => RecoverySparesInput
  <2>1. StagingInv /\ [Next]_vars =>
            [\A u \in Upload : phase # "up" /\ staged'[u] # staged[u] =>
                command[u] \notin {"live", "open"}]_vars
    BY <1>2
  <2> QED BY <2>1, StagingIsOrdered, PTL DEF Spec, RecoverySparesInput
<1> QED BY <1>3, <1>4 DEF RecoveryIsExact

-----------------------------------------------------------------------------
(* The quotas.                                                               *)

\* Sessions whose bytes count: their record is fixed.
Held == {u \in Upload : state[u] \in {"complete", "bound"}}

LimitsInv ==
    /\ tempReserved = Cardinality(Reserved) /\ tempReserved <= TempLimit
    /\ phase = "up" => orphans = 0
    /\ RetainedBytes(Held) <= UploadLimit

\* One more put copies, or one put less.
LEMMA OneMoreCopies ==
    ASSUME NEW C \in SUBSET Put, NEW p \in Put, p \notin C, NEW f \in [C \cup {p} -> Nat]
    PROVE  /\ Cardinality(Units(C \cup {p}, f)) = Cardinality(Units(C, f)) + f[p]
           /\ Cardinality(Units(C, f)) \in Nat
<1>1. IsFiniteSet(C) /\ \A q \in C \cup {p} : f[q] \in Nat
  BY UploadAssumption, FS_Subset
<1> QED BY <1>1, UnitsOfOneMore, UnitsAreFinite

\* Reservations follow the puts.
LEMMA ReservationsFollow ==
    ASSUME StagingInv, LimitsInv, [Next]_vars
    PROVE  tempReserved' = Cardinality(Reserved') /\ tempReserved' <= TempLimit
<1> USE DEF StagingInv
<1>0. /\ tempReserved = Cardinality(Reserved) /\ tempReserved <= TempLimit
      /\ TempLimit \in Nat /\ tempReserved \in Nat
      /\ \A u \in Upload : Reservation[u] \in Nat
  BY UploadAssumption, BoundAssumption DEF LimitsInv, TypeOK
<1>1. ASSUME UNCHANGED <<put, putUpload, tempReserved>>
      PROVE  tempReserved' = Cardinality(Reserved') /\ tempReserved' <= TempLimit
  <2>1. Reserved' = Reserved
    BY <1>1 DEF Reserved, Copying
  <2> QED BY <1>0, <1>1, <2>1
<1>2. ASSUME NEW p \in Put, NEW u \in Upload, PutBegin(p, u)
      PROVE  tempReserved' = Cardinality(Reserved') /\ tempReserved' <= TempLimit
  <2> DEFINE f == [q \in Copying \cup {p} |-> Reservation[putUpload'[q]]]
  <2>1. /\ p \notin Copying /\ Copying' = Copying \cup {p} /\ Copying \subseteq Put
        /\ putUpload'[p] = u /\ \A q \in Copying : putUpload'[q] = putUpload[q]
    BY <1>2 DEF PutBegin, Copying, TypeOK
  <2>2. f \in [Copying \cup {p} -> Nat] /\ f[p] = Reservation[u]
    BY <1>0, <2>1 DEF RequestsTyped, Copying
  <2>3. /\ Reserved' = Units(Copying \cup {p}, f)
        /\ Reserved = Units(Copying, f)
    BY <2>1 DEF Reserved, Units
  <2> HIDE DEF f
  <2>4. Cardinality(Reserved') = Cardinality(Reserved) + Reservation[u]
    BY <2>1, <2>2, <2>3, OneMoreCopies
  <2> QED BY <1>0, <1>2, <2>4 DEF PutBegin, reserveTemp
<1>3. ASSUME NEW p \in Put, PutRejected(p) \/ \E c \in Content : PutPublish(p, c)
      PROVE  tempReserved' = Cardinality(Reserved') /\ tempReserved' <= TempLimit
  <2> DEFINE f == [q \in Copying' \cup {p} |-> Reservation[putUpload[q]]]
  <2>1. /\ put[p] = "copying" /\ putUpload[p] \in Upload
        /\ releaseTemp(Reservation[putUpload[p]])
    BY <1>3 DEF PutRejected, PutPublish, RequestsTyped
  <2>2. /\ p \in Copying /\ Copying' = Copying \ {p} /\ Copying \subseteq Put
        /\ \A q \in Copying' : putUpload'[q] = putUpload[q]
    BY <1>3, <2>1 DEF PutRejected, PutPublish, PutDone, Copying, TypeOK
  <2>3. f \in [Copying' \cup {p} -> Nat] /\ f[p] = Reservation[putUpload[p]]
    BY <1>0, <2>1, <2>2 DEF RequestsTyped, Copying
  <2>4. /\ Reserved = Units(Copying' \cup {p}, f)
        /\ Reserved' = Units(Copying', f)
        /\ p \notin Copying' /\ Copying' \subseteq Put
    <3>1. Copying = Copying' \cup {p} /\ p \notin Copying' /\ Copying' \subseteq Put
      BY <2>2
    <3>2. Reserved = Units(Copying' \cup {p}, f)
      BY <3>1 DEF Reserved, Units
    <3>3. Reserved' = Units(Copying', f)
      BY <2>2, <3>1 DEF Reserved, Units
    <3> QED BY <3>1, <3>2, <3>3
  <2> HIDE DEF f
  <2>5. /\ Cardinality(Reserved) = Cardinality(Reserved') + Reservation[putUpload[p]]
        /\ Cardinality(Reserved') \in Nat
    BY <2>2, <2>3, <2>4, OneMoreCopies
  <2>6. Reservation[putUpload[p]] \in Nat
    BY <1>0, <2>1
  <2> QED BY <1>0, <2>1, <2>5, <2>6 DEF releaseTemp
<1>4. ASSUME NEW p \in Put, PutRecord(p) \/ PutUnlink(p)
      PROVE  tempReserved' = Cardinality(Reserved') /\ tempReserved' <= TempLimit
  <2>1. /\ p \notin Copying /\ Copying' = Copying /\ tempReserved' = tempReserved
        /\ \A q \in Copying : putUpload'[q] = putUpload[q]
    BY <1>4 DEF PutRecord, PutUnlink, PutDone, Copying, TypeOK
  <2>2. Reserved' = Reserved
    BY <2>1 DEF Reserved
  <2> QED BY <1>0, <2>1, <2>2
<1>5. CASE Crash
  <2>1. Copying' = {} /\ tempReserved' = 0
    BY <1>5 DEF Crash, Copying
  <2>2. Reserved' = {}
    BY <2>1 DEF Reserved
  <2> QED BY <1>0, <2>1, <2>2, FS_EmptySet
<1>6. ASSUME NEW u \in Upload, Session(u) PROVE UNCHANGED <<put, putUpload, tempReserved>>
  <2>1. CASE CreateUpload(u) \/ CompleteUpload(u) \/ Submit(u) \/ Import(u) \/ Finish(u)
    BY <2>1 DEF CreateUpload, CompleteUpload, Submit, Import, Finish, putVars
  <2>2. CASE CancelQueued(u) \/ RetryRead(u) \/ RetryTx(u) \/ SweepRemove(u)
    BY <2>2 DEF CancelQueued, RetryRead, RetryTx, SweepRemove, putVars
  <2>3. CASE ReleaseLook(u) \/ ReleaseRemove(u) \/ ReleasePublish(u)
    BY <2>3 DEF ReleaseLook, ReleaseRemove, ReleasePublish, putVars
  <2> QED BY <1>6, <2>1, <2>2, <2>3 DEF Session
<1>7. CASE Start \/ SweepPublish \/ SweepNext \/ cleanupUploadTemps \/ UNCHANGED vars
  <2>1. UNCHANGED <<put, putUpload, tempReserved>>
    BY <1>7 DEF Start, SweepPublish, SweepNext, cleanupUploadTemps, vars, putVars
  <2> QED BY <1>1, <2>1
<1>8. CASE \E p \in Put : PutStep(p)
  BY <1>2, <1>3, <1>4, <1>8 DEF PutStep
<1>9. CASE \E u \in Upload : Session(u)
  BY <1>1, <1>6, <1>9
<1> QED BY <1>5, <1>7, <1>8, <1>9 DEF Next

\* While the process serves no temporary file of a dead one is left.
LEMMA OrphansAreGone ==
    ASSUME StagingInv, LimitsInv, [Next]_vars, phase' = "up"
    PROVE  orphans' = 0
<1>1. CASE phase # "up"
  BY <1>1, PhaseMoves DEF cleanupUploadTemps, OrphansLeft
<1>2. CASE phase = "up"
  <2>1. orphans = 0 /\ ~Crash
    BY <1>2 DEF LimitsInv, Crash
  <2>2. ASSUME NEW p \in Put, PutStep(p) PROVE orphans' = orphans
    BY <2>2 DEF PutStep, PutBegin, PutPublish, PutRejected, PutRecord, PutUnlink, storeVars
  <2>3. ASSUME NEW u \in Upload, Session(u) PROVE orphans' = orphans
    <3>1. CASE CreateUpload(u) \/ CompleteUpload(u) \/ Submit(u) \/ Import(u) \/ Finish(u)
      BY <3>1 DEF CreateUpload, CompleteUpload, Submit, Import, Finish, storeVars
    <3>2. CASE CancelQueued(u) \/ RetryRead(u) \/ RetryTx(u) \/ SweepRemove(u)
      BY <3>2 DEF CancelQueued, RetryRead, RetryTx, SweepRemove, storeVars
    <3>3. CASE ReleaseLook(u) \/ ReleaseRemove(u) \/ ReleasePublish(u)
      BY <3>3 DEF ReleaseLook, ReleaseRemove, ReleasePublish, storeVars
    <3> QED BY <2>3, <3>1, <3>2, <3>3 DEF Session
  <2>4. ~(Start \/ SweepPublish \/ SweepNext \/ cleanupUploadTemps)
    BY <1>2 DEF Start, SweepPublish, SweepNext, cleanupUploadTemps, Sweeping
  <2>5. UNCHANGED vars => orphans' = orphans
    BY DEF vars, storeVars
  <2>6. Next => orphans' = orphans
    BY <2>1, <2>2, <2>3, <2>4 DEF Next
  <2> QED BY <2>1, <2>5, <2>6
<1> QED BY <1>1, <1>2

\* But for the completion of a session, no step adds to what is held.
LEMMA HeldIsFixed ==
    ASSUME StagingInv, [Next]_vars, \A u \in Upload : ~CompleteUpload(u)
    PROVE  Held' \subseteq Held /\ \A u \in Held' : recorded'[u] = recorded[u]
<1> USE DEF StagingInv, storeVars
<1>1. ASSUME UNCHANGED <<state, recorded>>
      PROVE  Held' \subseteq Held /\ \A u \in Held' : recorded'[u] = recorded[u]
  BY <1>1 DEF Held
<1>2. ASSUME NEW p \in Put, PutStep(p)
      PROVE  Held' \subseteq Held /\ \A u \in Held' : recorded'[u] = recorded[u]
  <2>1. CASE PutRecord(p)
    <3>1. state' = state /\ putUpload[p] \in Upload
      BY <2>1 DEF PutRecord, RequestsTyped
    <3>2. \A u \in Upload : state[u] # "uploading" => recorded'[u] = recorded[u]
      BY <2>1, <3>1 DEF PutRecord, Records, TypeOK
    <3> QED BY <3>1, <3>2 DEF Held
  <2>2. CASE PutRejected(p) \/ PutUnlink(p) \/ (\E u \in Upload : PutBegin(p, u))
               \/ \E c \in Content : PutPublish(p, c)
    BY <1>1, <2>2 DEF PutRejected, PutUnlink, PutBegin, PutPublish
  <2> QED BY <1>2, <2>1, <2>2 DEF PutStep
<1>3. ASSUME NEW u \in Upload, Session(u)
      PROVE  Held' \subseteq Held /\ \A v \in Held' : recorded'[v] = recorded[v]
  <2>1. CASE CreateUpload(u)
    BY <2>1 DEF CreateUpload, Held, TypeOK
  <2>2. CASE Submit(u)
    BY <2>2 DEF Submit, Held, TypeOK
  <2>3. CASE ReleasePublish(u)
    <3>1. recorded' = recorded /\ (state' = state \/ state' = [state EXCEPT ![u] = "released"])
      BY <2>3 DEF ReleasePublish, SetState
    <3> QED BY <3>1 DEF Held, TypeOK
  <2>4. CASE Import(u) \/ Finish(u) \/ CancelQueued(u) \/ RetryRead(u) \/ RetryTx(u)
    BY <1>1, <2>4 DEF Import, Finish, CancelQueued, RetryRead, RetryTx
  <2>5. CASE ReleaseLook(u) \/ ReleaseRemove(u) \/ SweepRemove(u)
    BY <1>1, <2>5 DEF ReleaseLook, ReleaseRemove, SweepRemove
  <2> QED BY <1>3, <2>1, <2>2, <2>3, <2>4, <2>5 DEF Session
<1>4. CASE SweepPublish
  BY <1>4 DEF SweepPublish, Held, TypeOK
<1>5. CASE Start \/ SweepNext \/ cleanupUploadTemps \/ Crash \/ UNCHANGED vars
  BY <1>1, <1>5 DEF Start, SweepNext, cleanupUploadTemps, Crash, vars
<1> QED BY <1>2, <1>3, <1>4, <1>5 DEF Next

LEMMA QuotaIsKept ==
    ASSUME StagingInv, LimitsInv, [Next]_vars
    PROVE  RetainedBytes(Held)' <= UploadLimit
<1> USE DEF StagingInv
<1>0. /\ RetainedBytes(Held) <= UploadLimit /\ UploadLimit \in Nat
      /\ IsFiniteSet(BytesOf(Held)) /\ Cardinality(BytesOf(Held)) \in Nat
  <2>1. Held \in SUBSET Upload
    BY DEF Held
  <2> QED BY <2>1, BoundAssumption, BytesOfAreFinite, FS_CardinalityType DEF LimitsInv
<1>1. ASSUME \A u \in Upload : ~CompleteUpload(u)
      PROVE  RetainedBytes(Held)' <= UploadLimit
  <2>1. BytesOf(Held)' \subseteq BytesOf(Held)
    BY <1>1, HeldIsFixed DEF BytesOf
  <2>2. IsFiniteSet(BytesOf(Held)') /\ Cardinality(BytesOf(Held)') <= Cardinality(BytesOf(Held))
    BY <1>0, <2>1, FS_Subset
  <2>3. Cardinality(BytesOf(Held)') \in Nat
    BY <2>2, FS_CardinalityType
  <2> QED BY <1>0, <2>2, <2>3 DEF RetainedBytes
<1>2. ASSUME NEW u \in Upload, CompleteUpload(u)
      PROVE  RetainedBytes(Held)' <= UploadLimit
  <2> DEFINE R == {v \in Upload \ {u} : state[v] \in Retained}
             own == {u} \X (1 .. Size[recorded[u]])
  <2>1. /\ recorded' = recorded /\ recorded[u] \in Content /\ recorded[u] # None
        /\ Held' = Held \cup {u} /\ Held \subseteq R /\ R \in SUBSET Upload
        /\ RetainedBytes(R) + Size[recorded[u]] <= UploadLimit
    BY <1>2 DEF CompleteUpload, Held, Retained, TypeOK
  <2>2. BytesOf(Held)' = BytesOf(Held) \cup own
    BY <2>1 DEF BytesOf, SizeOf
  <2>3. Size[recorded[u]] \in Nat
    BY <2>1, UploadAssumption
  <2>4. IsFiniteSet(own) /\ Cardinality(own) = Size[recorded[u]]
    BY <2>3, UnitsOfOne
  <2>5. IsFiniteSet(BytesOf(R)) /\ Cardinality(BytesOf(R)) \in Nat
    BY <2>1, BytesOfAreFinite, FS_CardinalityType
  <2>6. Cardinality(BytesOf(Held)) <= Cardinality(BytesOf(R))
    <3>1. BytesOf(Held) \subseteq BytesOf(R)
      BY <2>1 DEF BytesOf
    <3> QED BY <2>5, <3>1, FS_Subset
  <2> HIDE DEF own, R
  <2>7. Cardinality(BytesOf(Held) \cup own) <= Cardinality(BytesOf(Held)) + Cardinality(own)
    <3>1. Cardinality(BytesOf(Held) \cup own) =
            Cardinality(BytesOf(Held)) + Cardinality(own) - Cardinality(BytesOf(Held) \cap own)
      BY <1>0, <2>4, FS_Union
    <3>2. Cardinality(BytesOf(Held) \cap own) \in Nat
      BY <1>0, FS_Intersection, FS_CardinalityType
    <3> QED BY <1>0, <2>3, <2>4, <3>1, <3>2
  <2>8. Cardinality(BytesOf(Held) \cup own) \in Nat
    BY <1>0, <2>4, FS_Union, FS_CardinalityType
  <2>9. Cardinality(BytesOf(R)) + Size[recorded[u]] <= UploadLimit
    BY <2>1 DEF RetainedBytes
  <2>10. Cardinality(BytesOf(Held) \cup own) <= UploadLimit
    BY <1>0, <2>3, <2>4, <2>5, <2>6, <2>7, <2>8, <2>9
  <2> QED BY <2>2, <2>10 DEF RetainedBytes
<1> QED BY <1>1, <1>2

\* The quotas hold, whatever a late put does beside the completion of a session
\* (CompleteUpload), and whatever dead processes left in the staging directory
\* (reserveTemp, cleanupUploadTemps).
THEOREM QuotasHold == Spec => []WithinLimits
<1>1. Init => LimitsInv
  <2> SUFFICES ASSUME Init PROVE LimitsInv
    OBVIOUS
  <2>1. Copying = {} /\ Held = {}
    BY DEF Init, Copying, Held
  <2>2. Reserved = {} /\ BytesOf(Held) = {}
    BY <2>1 DEF Reserved, BytesOf
  <2> QED BY <2>2, FS_EmptySet, BoundAssumption DEF Init, LimitsInv, RetainedBytes
<1>2. StagingInv /\ LimitsInv /\ [Next]_vars => LimitsInv'
  <2> SUFFICES ASSUME StagingInv, LimitsInv, [Next]_vars PROVE LimitsInv'
    OBVIOUS
  <2> QED BY ReservationsFollow, OrphansAreGone, QuotaIsKept DEF LimitsInv
<1>3. StagingInv /\ LimitsInv => WithinLimits
  <2> SUFFICES ASSUME StagingInv, LimitsInv PROVE WithinLimits
    OBVIOUS
  <2>1. phase = "up" => TempBytes <= TempLimit
    BY BoundAssumption DEF LimitsInv, TempBytes, StagingInv, TypeOK
  <2> QED BY <2>1 DEF LimitsInv, Held, WithinLimits
<1>4. Spec => []LimitsInv
  BY <1>1, <1>2, StagingIsOrdered, PTL DEF Spec
<1> QED BY <1>3, <1>4, StagingIsOrdered, PTL

-----------------------------------------------------------------------------
(* Bases, groups and the saved scope, for any number of clients and calls:  *)
(* what a client is told it changed is changed, and nothing else of it.     *)
(*                                                                         *)
(* The invariant speaks of one call and the base rows, so a step of another *)
(* client can disturb it only through the rows it writes; those are then    *)
(* among what is disturbed, and a base that is being deleted stays so.      *)

CONSTANTS Client, Base, Group, Name, Key, NoGroup, NoKey, Absent, MaxCalls
VARIABLES bases, groups, scope, calls, made

B == INSTANCE Catalog

\* Base rows have the fields they should and no others.
IsRow(r) == r = [state |-> r.state, name |-> r.name, group |-> r.group, key |-> r.key]
IsRows(table) ==
    /\ table = [b \in Base |-> table[b]]
    /\ \A b \in Base : IsRow(table[b]) /\ table[b].state \in {"none", "active", "deleting"}

\* A call, by its fields.
Call(step, kind, args, rows, list, draft, key, before, after, disturbed) ==
    [step |-> step, kind |-> kind, args |-> args, rows |-> rows, list |-> list, draft |-> draft,
     key |-> key, before |-> before, after |-> after, disturbed |-> disturbed]
IsCall(x) ==
    x = Call(x.step, x.kind, x.args, x.rows, x.list, x.draft, x.key, x.before, x.after, x.disturbed)

\* A step belongs to a kind of call, and has its arguments.
Equipped(x) ==
    /\ x.step \in {"create", "keep", "delete", "create group", "rename group", "scope"} => x.kind = x.step
    /\ x.step \in {"patch", "put"} => x.kind \in {"patch", "keep"}
    /\ x.step \in {"list", "members"} => x.kind = "rename group"
    /\ x.step = "set groups" => x.kind = "create group"
    /\ x.step = "set scope" => x.kind = "scope"
    /\ x.kind \in {"create", "patch", "keep", "delete"} => x.args.base \in Base
    /\ x.kind \in {"patch", "keep"} => (x.kind = "patch" <=> x.args.change.key = Absent)
    /\ x.kind = "rename group" => x.args.from # x.args.to

\* What a request makes of a key, a row, a member of a group, a scope.
KeyOf(old, asked) ==
    IF asked \in {Absent, NoKey} THEN old ELSE IF asked = "clear" THEN NoKey ELSE asked
Exact(old, r, new) ==
    /\ new.name = IF r.name = Absent THEN old.name ELSE r.name
    /\ new.group = IF r.group = Absent THEN old.group ELSE r.group
    /\ new.key = KeyOf(old.key, r.key)
Moved(row, a) == [row EXCEPT !.group = IF @ = a.from THEN a.to ELSE @]
ScopeOf(saved) == IF saved = Absent THEN [enabled |-> TRUE, bases |-> {}] ELSE saved
ScopeAsked(saved, a, new) ==
    /\ new.enabled = IF a.enabled = Absent THEN ScopeOf(saved).enabled ELSE a.enabled
    /\ new.bases = IF a.bases = Absent THEN ScopeOf(saved).bases ELSE a.bases
Listed(view) == view.groups \cup {view.bases[b].group : b \in {x \in Base : view.bases[x].state = "active"}}

\* Bases that were active when the call began and that nobody else wrote since.
Undisturbed(x) == {b \in Base \ x.disturbed : x.before.bases[b].state = "active"}

\* A patch, step by step: the key that is kept, the row that will be put, the row that was put.
Patches(x, table) ==
    LET b == x.args.base
        r == x.args.change
    IN /\ x.step = "patch" /\ x.kind = "keep" /\ b \notin x.disturbed =>
            table[b] = x.before.bases[b] /\ x.key = KeyOf(table[b].key, r.key)
       /\ x.step = "put" => IsRow(x.rows[b]) /\ (b \notin x.disturbed => Exact(x.before.bases[b], r, x.rows[b]))
       /\ x.step = "done" /\ x.kind \in {"patch", "keep"} /\ b \notin x.disturbed =>
            Exact(x.before.bases[b], r, x.after.bases[b])

\* A list of groups, as one that was renamed or dropped leaves it; bases move before it is written.
Replaces(x, list) ==
    /\ x.args.from \notin list
    /\ x.args.to # NoGroup /\ x.args.from \in x.before.groups => x.args.to \in list
Moves(x, table) ==
    /\ x.step \in {"list", "members"} => IsRows(x.before.bases) /\ Replaces(x, x.list)
    /\ x.step = "list" => \A b \in Undisturbed(x) : table[b] = x.before.bases[b]
    /\ x.step = "members" =>
        /\ \A b \in DOMAIN x.rows : b \in Base /\ IsRow(x.rows[b])
        /\ \A b \in Undisturbed(x) :
            IF b \in DOMAIN x.rows
            THEN table[b] = x.before.bases[b] /\ x.rows[b] = table[b] /\ table[b].group = x.args.from
            ELSE table[b] = Moved(x.before.bases[b], x.args)
    /\ x.step = "done" /\ x.kind = "rename group" =>
        /\ \A b \in Undisturbed(x) : x.after.bases[b] = Moved(x.before.bases[b], x.args)
        /\ Replaces(x, x.after.groups)

\* Deletions, new groups, the scope.
Others(x, table) ==
    /\ x.step = "done" /\ x.kind = "delete" => table[x.args.base].state = "deleting"
    /\ x.step = "set groups" => x.args.to \in x.list /\ x.before.groups \subseteq x.list
    /\ x.step = "done" /\ x.kind = "create group" =>
        x.args.to \in Listed(x.after) /\ x.before.groups \subseteq x.after.groups
    /\ x.step = "set scope" => ScopeAsked(x.before.scope, x.args, x.draft)
    /\ x.step = "done" /\ x.kind = "scope" => ScopeAsked(x.before.scope, x.args, x.after.scope)

CallKept(x, table) == IsCall(x) /\ Equipped(x) /\ Patches(x, table) /\ Moves(x, table) /\ Others(x, table)

\* The inductive invariant: every call, whatever step it is at, by what it was asked and saw.
CatalogInv ==
    /\ calls = [c \in Client |-> calls[c]] /\ IsRows(bases)
    /\ \A c \in Client : CallKept(calls[c], bases)

\* Fields of a call that steps set together, one after the other.
Asking(x, s, v, w) == [x EXCEPT !.step = s, !.kind = v, !.args = w]
Listing(x, s, v) == [x EXCEPT !.step = s, !.rows = v]
Ending(x, s, v, w) == [x EXCEPT !.step = s, !.rows = v, !.after = w]
Keeping(x, s, v, w) == [x EXCEPT !.step = s, !.before = v, !.key = w]
Reading(x, s, v, w) == [x EXCEPT !.step = s, !.before = v, !.rows = w]
Renaming(x, s, v, w) == [x EXCEPT !.step = s, !.list = v, !.before = w]
Drafting(x, s, v, w) == [x EXCEPT !.step = s, !.before = v, !.draft = w]
Leaving(x, s) == [x EXCEPT !.rows = s]

LEMMA AskingIs ==
    ASSUME NEW x, IsCall(x), NEW s, NEW v, NEW w
    PROVE  Asking(x, s, v, w) =
            Call(s, v, w, x.rows, x.list, x.draft, x.key, x.before, x.after, x.disturbed)
<1>1. PICK y : y = [x EXCEPT !.step = s]  OBVIOUS
<1>2. y = Call(s, x.kind, x.args, x.rows, x.list, x.draft, x.key, x.before, x.after, x.disturbed)
  BY <1>1 DEF Call, IsCall
<1>3. PICK z : z = [y EXCEPT !.kind = v]  OBVIOUS
<1>4. z = Call(s, v, x.args, x.rows, x.list, x.draft, x.key, x.before, x.after, x.disturbed)
  BY <1>2, <1>3 DEF Call
<1>5. [z EXCEPT !.args = w] =
        Call(s, v, w, x.rows, x.list, x.draft, x.key, x.before, x.after, x.disturbed)
  BY <1>4 DEF Call
<1>6. Asking(x, s, v, w) = [[[x EXCEPT !.step = s] EXCEPT !.kind = v] EXCEPT !.args = w]  BY DEF Asking
<1> QED  BY <1>1, <1>3, <1>5, <1>6

LEMMA ListingIs ==
    ASSUME NEW x, IsCall(x), NEW s, NEW v
    PROVE  Listing(x, s, v) =
            Call(s, x.kind, x.args, v, x.list, x.draft, x.key, x.before, x.after, x.disturbed)
<1>1. PICK y : y = [x EXCEPT !.step = s]  OBVIOUS
<1>2. y = Call(s, x.kind, x.args, x.rows, x.list, x.draft, x.key, x.before, x.after, x.disturbed)
  BY <1>1 DEF Call, IsCall
<1>3. Listing(x, s, v) = [[x EXCEPT !.step = s] EXCEPT !.rows = v]  BY DEF Listing
<1> QED  BY <1>1, <1>2, <1>3 DEF Call

LEMMA EndingIs ==
    ASSUME NEW x, IsCall(x), NEW s, NEW v, NEW w
    PROVE  Ending(x, s, v, w) =
            Call(s, x.kind, x.args, v, x.list, x.draft, x.key, x.before, w, x.disturbed)
<1>1. PICK y : y = [x EXCEPT !.step = s]  OBVIOUS
<1>2. y = Call(s, x.kind, x.args, x.rows, x.list, x.draft, x.key, x.before, x.after, x.disturbed)
  BY <1>1 DEF Call, IsCall
<1>3. PICK z : z = [y EXCEPT !.rows = v]  OBVIOUS
<1>4. z = Call(s, x.kind, x.args, v, x.list, x.draft, x.key, x.before, x.after, x.disturbed)
  BY <1>2, <1>3 DEF Call
<1>5. [z EXCEPT !.after = w] =
        Call(s, x.kind, x.args, v, x.list, x.draft, x.key, x.before, w, x.disturbed)
  BY <1>4 DEF Call
<1>6. Ending(x, s, v, w) = [[[x EXCEPT !.step = s] EXCEPT !.rows = v] EXCEPT !.after = w]  BY DEF Ending
<1> QED  BY <1>1, <1>3, <1>5, <1>6

LEMMA KeepingIs ==
    ASSUME NEW x, IsCall(x), NEW s, NEW v, NEW w
    PROVE  Keeping(x, s, v, w) =
            Call(s, x.kind, x.args, x.rows, x.list, x.draft, w, v, x.after, x.disturbed)
<1>1. PICK y : y = [x EXCEPT !.step = s]  OBVIOUS
<1>2. y = Call(s, x.kind, x.args, x.rows, x.list, x.draft, x.key, x.before, x.after, x.disturbed)
  BY <1>1 DEF Call, IsCall
<1>3. PICK z : z = [y EXCEPT !.before = v]  OBVIOUS
<1>4. z = Call(s, x.kind, x.args, x.rows, x.list, x.draft, x.key, v, x.after, x.disturbed)
  BY <1>2, <1>3 DEF Call
<1>5. [z EXCEPT !.key = w] =
        Call(s, x.kind, x.args, x.rows, x.list, x.draft, w, v, x.after, x.disturbed)
  BY <1>4 DEF Call
<1>6. Keeping(x, s, v, w) = [[[x EXCEPT !.step = s] EXCEPT !.before = v] EXCEPT !.key = w]  BY DEF Keeping
<1> QED  BY <1>1, <1>3, <1>5, <1>6

LEMMA ReadingIs ==
    ASSUME NEW x, IsCall(x), NEW s, NEW v, NEW w
    PROVE  Reading(x, s, v, w) =
            Call(s, x.kind, x.args, w, x.list, x.draft, x.key, v, x.after, x.disturbed)
<1>1. PICK y : y = [x EXCEPT !.step = s]  OBVIOUS
<1>2. y = Call(s, x.kind, x.args, x.rows, x.list, x.draft, x.key, x.before, x.after, x.disturbed)
  BY <1>1 DEF Call, IsCall
<1>3. PICK z : z = [y EXCEPT !.before = v]  OBVIOUS
<1>4. z = Call(s, x.kind, x.args, x.rows, x.list, x.draft, x.key, v, x.after, x.disturbed)
  BY <1>2, <1>3 DEF Call
<1>5. [z EXCEPT !.rows = w] =
        Call(s, x.kind, x.args, w, x.list, x.draft, x.key, v, x.after, x.disturbed)
  BY <1>4 DEF Call
<1>6. Reading(x, s, v, w) = [[[x EXCEPT !.step = s] EXCEPT !.before = v] EXCEPT !.rows = w]  BY DEF Reading
<1> QED  BY <1>1, <1>3, <1>5, <1>6

LEMMA RenamingIs ==
    ASSUME NEW x, IsCall(x), NEW s, NEW v, NEW w
    PROVE  Renaming(x, s, v, w) =
            Call(s, x.kind, x.args, x.rows, v, x.draft, x.key, w, x.after, x.disturbed)
<1>1. PICK y : y = [x EXCEPT !.step = s]  OBVIOUS
<1>2. y = Call(s, x.kind, x.args, x.rows, x.list, x.draft, x.key, x.before, x.after, x.disturbed)
  BY <1>1 DEF Call, IsCall
<1>3. PICK z : z = [y EXCEPT !.list = v]  OBVIOUS
<1>4. z = Call(s, x.kind, x.args, x.rows, v, x.draft, x.key, x.before, x.after, x.disturbed)
  BY <1>2, <1>3 DEF Call
<1>5. [z EXCEPT !.before = w] =
        Call(s, x.kind, x.args, x.rows, v, x.draft, x.key, w, x.after, x.disturbed)
  BY <1>4 DEF Call
<1>6. Renaming(x, s, v, w) = [[[x EXCEPT !.step = s] EXCEPT !.list = v] EXCEPT !.before = w]  BY DEF Renaming
<1> QED  BY <1>1, <1>3, <1>5, <1>6

LEMMA DraftingIs ==
    ASSUME NEW x, IsCall(x), NEW s, NEW v, NEW w
    PROVE  Drafting(x, s, v, w) =
            Call(s, x.kind, x.args, x.rows, x.list, w, x.key, v, x.after, x.disturbed)
<1>1. PICK y : y = [x EXCEPT !.step = s]  OBVIOUS
<1>2. y = Call(s, x.kind, x.args, x.rows, x.list, x.draft, x.key, x.before, x.after, x.disturbed)
  BY <1>1 DEF Call, IsCall
<1>3. PICK z : z = [y EXCEPT !.before = v]  OBVIOUS
<1>4. z = Call(s, x.kind, x.args, x.rows, x.list, x.draft, x.key, v, x.after, x.disturbed)
  BY <1>2, <1>3 DEF Call
<1>5. [z EXCEPT !.draft = w] =
        Call(s, x.kind, x.args, x.rows, x.list, w, x.key, v, x.after, x.disturbed)
  BY <1>4 DEF Call
<1>6. Drafting(x, s, v, w) = [[[x EXCEPT !.step = s] EXCEPT !.before = v] EXCEPT !.draft = w]  BY DEF Drafting
<1> QED  BY <1>1, <1>3, <1>5, <1>6

LEMMA LeavingIs ==
    ASSUME NEW x, IsCall(x), NEW s
    PROVE  Leaving(x, s) =
            Call(x.step, x.kind, x.args, s, x.list, x.draft, x.key, x.before, x.after, x.disturbed)
  BY DEF Call, Leaving, IsCall

-----------------------------------------------------------------------------
(* A call that others write beside.                                         *)

\* What a step of another client that writes W makes of a call.
Beside(x, W) == IF x.step \in B!Resting THEN x ELSE [x EXCEPT !.disturbed = @ \cup W]

\* What a step may do to the base rows: it writes rows of W only, and a row whose base is
\* being deleted keeps that state.
Rewritten(table, new, W) ==
    /\ IsRows(table) /\ IsRows(new)
    /\ \A b \in Base \ W : new[b] = table[b]
    /\ \A b \in Base : table[b].state = "deleting" => new[b].state = "deleting"

LEMMA BesideIs ==
    ASSUME NEW x, NEW W, IsCall(x), x.step \notin B!Resting
    PROVE  Beside(x, W) =
            Call(x.step, x.kind, x.args, x.rows, x.list, x.draft, x.key, x.before, x.after, x.disturbed \cup W)
  BY DEF Call, Beside, IsCall

\* A call that rests depends on the rows only through a base it deleted.
LEMMA RestingKept ==
    ASSUME NEW x, NEW table, NEW new, NEW W, CallKept(x, table), Rewritten(table, new, W), x.step \in B!Resting
    PROVE  CallKept(Beside(x, W), new)
<1>1. Beside(x, W) = x  BY DEF Beside
<1>2. x.step \in {"idle", "done"} /\ IsCall(x) /\ Equipped(x)  BY DEF CallKept, B!Resting
<1>3. Patches(x, new)  BY <1>2 DEF CallKept, Patches
<1>4. Moves(x, new)  BY <1>2 DEF CallKept, Moves
<1>5. x.step = "done" /\ x.kind = "delete" => x.args.base \in Base  BY <1>2 DEF Equipped
<1>6. Others(x, new)  BY <1>2, <1>5 DEF CallKept, Others, Rewritten
<1> QED  BY <1>1, <1>2, <1>3, <1>4, <1>6 DEF CallKept

\* A call under way has what was written beside it among what is disturbed.
LEMMA UnderWayKept ==
    ASSUME NEW x, NEW table, NEW new, NEW W, CallKept(x, table), Rewritten(table, new, W), x.step \notin B!Resting
    PROVE  CallKept(Beside(x, W), new)
<1>1. IsCall(x) /\ Equipped(x)  BY DEF CallKept
<1>2. PICK y : y = Beside(x, W)  OBVIOUS
<1>3. y = Call(x.step, x.kind, x.args, x.rows, x.list, x.draft, x.key, x.before, x.after, x.disturbed \cup W)
  BY <1>1, <1>2, BesideIs
<1>4. /\ y.step = x.step /\ y.kind = x.kind /\ y.args = x.args /\ y.rows = x.rows /\ y.list = x.list
      /\ y.draft = x.draft /\ y.key = x.key /\ y.before = x.before /\ y.after = x.after
      /\ y.disturbed = x.disturbed \cup W /\ IsCall(y)
  BY <1>3 DEF Call, IsCall
<1>5. y.step \notin {"idle", "done"}  BY <1>4 DEF B!Resting
<1>6. Equipped(y)  BY <1>1, <1>4 DEF Equipped
<1>7. Undisturbed(y) \subseteq Undisturbed(x) /\ \A b \in Undisturbed(y) : b \in Base /\ new[b] = table[b]
  BY <1>4 DEF Undisturbed, Rewritten
<1>8. Patches(y, new)
  <2>1. x.step \in {"patch", "put"} => x.args.base \in Base  BY <1>1 DEF Equipped
  <2> QED  BY <1>4, <1>5, <2>1 DEF CallKept, Patches, Rewritten
<1>9. Moves(y, new)
  <2>1. y.step \in {"list", "members"} => IsRows(y.before.bases) /\ Replaces(y, y.list)
    BY <1>4 DEF CallKept, Moves, Replaces
  <2>2. y.step = "list" => \A b \in Undisturbed(y) : new[b] = y.before.bases[b]
    BY <1>4, <1>7 DEF CallKept, Moves
  <2>3. y.step = "members" =>
          /\ \A b \in DOMAIN y.rows : b \in Base /\ IsRow(y.rows[b])
          /\ \A b \in Undisturbed(y) :
              IF b \in DOMAIN y.rows
              THEN new[b] = y.before.bases[b] /\ y.rows[b] = new[b] /\ new[b].group = y.args.from
              ELSE new[b] = Moved(y.before.bases[b], y.args)
    BY <1>4, <1>7 DEF CallKept, Moves
  <2> QED  BY <1>5, <2>1, <2>2, <2>3 DEF Moves
<1>10. Others(y, new)  BY <1>4, <1>5 DEF CallKept, Others
<1> QED  BY <1>2, <1>4, <1>6, <1>8, <1>9, <1>10 DEF CallKept

\* The step of one client keeps the invariant when it keeps that client's call.
LEMMA Keeps ==
    ASSUME CatalogInv, NEW c \in Client, NEW x, NEW W, Rewritten(bases, bases', W), B!Continue(c, x, W),
           CallKept(x, bases')
    PROVE  CatalogInv'
<1>1. calls' = [d \in Client |-> IF d = c THEN x ELSE Beside(calls[d], W)]  BY DEF B!Continue, Beside
<1>2. ASSUME NEW d \in Client
      PROVE  CallKept(calls'[d], bases')
  <2>1. CASE d = c  BY <1>1, <2>1
  <2>2. CASE d # c
    <3>1. calls'[d] = Beside(calls[d], W)  BY <1>1, <2>2
    <3>2. CallKept(calls[d], bases)  BY DEF CatalogInv
    <3> QED  BY <3>1, <3>2, RestingKept, UnderWayKept
  <2> QED  BY <2>1, <2>2
<1>3. IsRows(bases')  BY DEF Rewritten
<1> QED  BY <1>1, <1>2, <1>3 DEF CatalogInv

\* A step that only reads is one that writes nothing beside the others.
LEMMA ReadKeeps ==
    ASSUME CatalogInv, NEW c \in Client, NEW x, UNCHANGED bases, calls' = [calls EXCEPT ![c] = x], CallKept(x, bases)
    PROVE  CatalogInv'
<1>1. calls' = [d \in Client |-> IF d = c THEN x ELSE calls[d]]  BY DEF CatalogInv
<1>2. \A d \in Client : CallKept(calls'[d], bases')  BY <1>1 DEF CatalogInv
<1> QED  BY <1>1, <1>2 DEF CatalogInv

LEMMA Unwritten ==
    ASSUME CatalogInv, UNCHANGED bases
    PROVE  Rewritten(bases, bases', {})
  BY DEF CatalogInv, Rewritten

LEMMA IdleKept ==
    ASSUME NEW table
    PROVE  CallKept(B!Idle, table)
<1>1. IsCall(B!Idle) /\ B!Idle.step = "idle" /\ B!Idle.kind = "none"  BY DEF Call, IsCall, B!Idle
<1> QED  BY <1>1 DEF CallKept, Equipped, Patches, Moves, Others

LEMMA MineKept ==
    ASSUME CatalogInv, NEW c \in Client
    PROVE  CallKept(calls[c], bases) /\ IsCall(calls[c]) /\ Equipped(calls[c])
  BY DEF CatalogInv, CallKept

\* A row is put unless its base is being deleted.
LEMMA PutRewrites ==
    ASSUME CatalogInv, NEW b \in Base, NEW row, IsRow(row), B!putBase(b, row)
    PROVE  /\ Rewritten(bases, bases', {b})
           /\ b \in B!Active =>
                bases'[b] = [state |-> "active", name |-> row.name, group |-> row.group, key |-> row.key]
<1>1. bases = [z \in Base |-> bases[z]] /\ IsRows(bases)  BY DEF CatalogInv, IsRows
<1>2. bases' = [z \in Base |-> IF z # b \/ bases[z].state = "deleting" THEN bases[z]
                               ELSE [row EXCEPT !.state = "active"]]
  BY <1>1 DEF B!putBase
<1>3. [row EXCEPT !.state = "active"] = [state |-> "active", name |-> row.name, group |-> row.group, key |-> row.key]
  BY DEF IsRow
<1>4. IsRows(bases')
  <2>1. IsRow([state |-> "active", name |-> row.name, group |-> row.group, key |-> row.key])  BY DEF IsRow
  <2> QED  BY <1>1, <1>2, <1>3, <2>1 DEF IsRows
<1> QED  BY <1>1, <1>2, <1>3, <1>4 DEF Rewritten, B!Active

-----------------------------------------------------------------------------
(* The steps.                                                               *)

LEMMA Begun ==
    ASSUME CatalogInv, NEW c \in Client, NEW kind, NEW args, B!Begin(c, kind, args),
           kind \in {"create", "patch", "keep", "delete", "create group", "rename group", "scope"},
           kind \in {"create", "patch", "keep", "delete"} => args.base \in Base,
           kind \in {"patch", "keep"} => (kind = "patch" <=> args.change.key = Absent),
           kind = "rename group" => args.from # args.to
    PROVE  CatalogInv'
<1>1. PICK x : x = Call(kind, kind, args, B!NoRows, {}, <<>>, NoKey, <<>>, <<>>, {})
  OBVIOUS
<1>2. [B!Idle EXCEPT !.step = kind, !.kind = kind, !.args = args] = x
  <2>1. PICK i : i = B!Idle  OBVIOUS
  <2>2. IsCall(i)  BY <2>1 DEF Call, IsCall, B!Idle
  <2>3. /\ i.rows = B!NoRows /\ i.list = {} /\ i.draft = <<>> /\ i.key = NoKey /\ i.before = <<>> /\ i.after = <<>>
        /\ i.disturbed = {}
    BY <2>1 DEF B!Idle
  <2>4. Asking(i, kind, kind, args) =
          Call(kind, kind, args, i.rows, i.list, i.draft, i.key, i.before, i.after, i.disturbed)
    BY <2>2, AskingIs
  <2>5. Asking(i, kind, kind, args) = x  BY <1>1, <2>3, <2>4
  <2> QED  BY <2>1, <2>5 DEF Asking
<1>3. UNCHANGED bases /\ calls' = [calls EXCEPT ![c] = x]  BY <1>2 DEF B!Begin
<1>4. x.step = kind /\ x.kind = kind /\ x.args = args /\ IsCall(x)  BY <1>1 DEF Call, IsCall
<1>5. Equipped(x)  BY <1>4 DEF Equipped
<1>6. Patches(x, bases) /\ Moves(x, bases) /\ Others(x, bases)  BY <1>4 DEF Patches, Moves, Others
<1> QED  BY <1>3, <1>4, <1>5, <1>6, ReadKeeps DEF CallKept

LEMMA AskedKeeps ==
    ASSUME CatalogInv, NEW c \in Client, B!Asked(c)
    PROVE  CatalogInv'
<1>1. ASSUME NEW b \in Base, NEW n \in Name, NEW g \in Group \cup {NoGroup},
             B!Begin(c, "create", [base |-> b, name |-> n, group |-> g])
      PROVE  CatalogInv'
  BY <1>1, Begun
<1>2. ASSUME NEW b \in Base, NEW r \in B!Changes,
             B!Begin(c, IF r.key = Absent THEN "patch" ELSE "keep", [base |-> b, change |-> r])
      PROVE  CatalogInv'
  <2>1. PICK args : args = [base |-> b, change |-> r]  OBVIOUS
  <2>2. args.base = b /\ args.change = r  BY <2>1
  <2>3. CASE r.key = Absent
    <3>1. B!Begin(c, "patch", args)  BY <1>2, <2>1, <2>3
    <3> QED  BY <2>2, <2>3, <3>1, Begun
  <2>4. CASE r.key # Absent
    <3>1. B!Begin(c, "keep", args)  BY <1>2, <2>1, <2>4
    <3> QED  BY <2>2, <2>4, <3>1, Begun
  <2> QED  BY <2>3, <2>4
<1>3. ASSUME NEW b \in Base, B!Begin(c, "delete", [base |-> b])
      PROVE  CatalogInv'
  BY <1>3, Begun
<1>4. ASSUME NEW g \in Group, B!Begin(c, "create group", [to |-> g])
      PROVE  CatalogInv'
  BY <1>4, Begun
<1>5. ASSUME NEW f \in Group, NEW t \in Group \cup {NoGroup}, f # t,
             B!Begin(c, "rename group", [from |-> f, to |-> t])
      PROVE  CatalogInv'
  BY <1>5, Begun
<1>6. ASSUME NEW e, NEW b, B!Begin(c, "scope", [enabled |-> e, bases |-> b])
      PROVE  CatalogInv'
  BY <1>6, Begun
<1> QED  BY <1>1, <1>2, <1>3, <1>4, <1>5, <1>6 DEF B!Asked

\* A call that fails is forgotten.
LEMMA FailedKeeps ==
    ASSUME CatalogInv, NEW c \in Client, NEW W, Rewritten(bases, bases', W), B!Continue(c, B!Failed(c), W)
    PROVE  CatalogInv'
  BY IdleKept, Keeps DEF B!Failed

\* A call that is done has what it was asked, what it saw and what is there now.
LEMMA DoneIs ==
    ASSUME CatalogInv, NEW c \in Client
    PROVE  LET x == calls[c]
           IN  B!Done(c) =
                 Call("done", x.kind, x.args, B!NoRows, x.list, x.draft, x.key, x.before, B!Now', x.disturbed)
<1>1. IsCall(calls[c])  BY MineKept
<1>2. B!Done(c) = Ending(calls[c], "done", B!NoRows, B!Now')  BY DEF B!Done, Ending
<1> QED  BY <1>1, <1>2, EndingIs

LEMMA DoneSince ==
    ASSUME CatalogInv, NEW c \in Client
    PROVE  LET x == calls[c]
           IN  [B!Done(c) EXCEPT !.before = B!Now] =
                 Call("done", x.kind, x.args, B!NoRows, x.list, x.draft, x.key, B!Now, B!Now', x.disturbed)
<1>1. PICK x, y, now, after : x = calls[c] /\ y = B!Done(c) /\ now = B!Now /\ after = B!Now'  OBVIOUS
<1>2. y = Call("done", x.kind, x.args, B!NoRows, x.list, x.draft, x.key, x.before, after, x.disturbed)
  BY <1>1, DoneIs
<1>3. [y EXCEPT !.before = now] =
        Call("done", x.kind, x.args, B!NoRows, x.list, x.draft, x.key, now, after, x.disturbed)
  BY <1>2 DEF Call
<1> QED  BY <1>1, <1>3

LEMMA CreateBaseKeeps ==
    ASSUME CatalogInv, NEW c \in Client, B!CreateBase(c)
    PROVE  CatalogInv'
<1>1. PICK b : b = calls[c].args.base  OBVIOUS
<1>2. calls[c].kind = "create" /\ b \in Base  BY <1>1, MineKept DEF B!CreateBase, B!At, Equipped
<1>3. CASE bases[b].state # "none"
  <2>1. UNCHANGED bases /\ B!Continue(c, B!Failed(c), {})  BY <1>1, <1>3 DEF B!CreateBase
  <2> QED  BY <2>1, Unwritten, FailedKeeps
<1>4. CASE bases[b].state = "none"
  <2>1. PICK row : row = [B!NoBase EXCEPT !.name = calls[c].args.name, !.group = calls[c].args.group]  OBVIOUS
  <2>2. IsRow(row)  BY <2>1 DEF IsRow, B!NoBase
  <2>3. B!putBase(b, row) /\ B!Continue(c, [B!Done(c) EXCEPT !.before = B!Now], {b})
    BY <1>1, <1>4, <2>1 DEF B!CreateBase
  <2>4. Rewritten(bases, bases', {b})  BY <1>2, <2>2, <2>3, PutRewrites
  <2>5. PICK x : x = Call("done", "create", calls[c].args, B!NoRows, calls[c].list, calls[c].draft, calls[c].key,
                          B!Now, B!Now', calls[c].disturbed)
    OBVIOUS
  <2>6. [B!Done(c) EXCEPT !.before = B!Now] = x  BY <1>2, <2>5, DoneSince
  <2>7. x.step = "done" /\ x.kind = "create" /\ x.args.base \in Base /\ IsCall(x)
    BY <1>1, <1>2, <2>5 DEF Call, IsCall
  <2>8. CallKept(x, bases')  BY <2>7 DEF CallKept, Equipped, Patches, Moves, Others
  <2> QED  BY <2>3, <2>4, <2>6, <2>8, Keeps
<1> QED  BY <1>3, <1>4

LEMMA KeepKeysKeeps ==
    ASSUME B!CatalogAssumption, CatalogInv, NEW c \in Client, B!KeepKeys(c)
    PROVE  CatalogInv'
<1>1. PICK b, asked : b = calls[c].args.base /\ asked = calls[c].args.change.key  OBVIOUS
<1>2. /\ calls[c].kind = "keep" /\ b \in Base /\ IsCall(calls[c]) /\ Equipped(calls[c])
      /\ asked # Absent /\ UNCHANGED bases
  BY <1>1, MineKept DEF B!KeepKeys, B!At, Equipped
<1>3. PICK k : k = CASE asked = "clear" -> NoKey [] asked = NoKey -> bases[b].key [] OTHER -> asked  OBVIOUS
<1>4. k = KeyOf(bases[b].key, asked)  BY <1>2, <1>3 DEF KeyOf, B!CatalogAssumption
<1>5. CASE b \notin B!Active
  <2>1. calls' = [calls EXCEPT ![c] = B!Idle]  BY <1>1, <1>5 DEF B!KeepKeys, B!Failed
  <2> QED  BY <1>2, <2>1, IdleKept, ReadKeeps
<1>6. CASE b \in B!Active
  <2>1. PICK x : x = Call("patch", "keep", calls[c].args, calls[c].rows, calls[c].list, calls[c].draft, k, B!Now,
                          calls[c].after, calls[c].disturbed)
    OBVIOUS
  <2>2. Keeping(calls[c], "patch", B!Now, k) = x  BY <1>2, <2>1, KeepingIs
  <2>3. calls' = [calls EXCEPT ![c] = x]  BY <1>1, <1>3, <1>6, <2>2 DEF B!KeepKeys, Keeping
  <2>4. /\ x.step = "patch" /\ x.kind = "keep" /\ x.args = calls[c].args /\ x.key = k
        /\ x.before.bases = bases /\ IsCall(x)
    BY <2>1 DEF Call, B!Now, IsCall
  <2>5. Equipped(x)  BY <1>1, <1>2, <2>4 DEF Equipped
  <2>6. Patches(x, bases)  BY <1>1, <1>4, <2>4 DEF Patches
  <2>7. Moves(x, bases) /\ Others(x, bases)  BY <2>4 DEF Moves, Others
  <2> QED  BY <1>2, <2>3, <2>4, <2>5, <2>6, <2>7, ReadKeeps DEF CallKept
<1> QED  BY <1>5, <1>6

LEMMA ReadBaseKeeps ==
    ASSUME CatalogInv, NEW c \in Client, B!ReadBase(c)
    PROVE  CatalogInv'
<1>1. PICK b, r : b = calls[c].args.base /\ r = calls[c].args.change  OBVIOUS
<1>2. /\ calls[c].kind \in {"patch", "keep"} /\ b \in Base /\ IsCall(calls[c]) /\ Equipped(calls[c])
      /\ calls[c].kind = "patch" <=> r.key = Absent
      /\ calls[c].step = "patch" /\ UNCHANGED bases /\ Patches(calls[c], bases)
  BY <1>1, MineKept DEF B!ReadBase, B!At, Equipped, CallKept
<1>3. CASE b \notin B!Active
  <2>1. calls' = [calls EXCEPT ![c] = B!Idle]  BY <1>1, <1>3 DEF B!ReadBase, B!Failed
  <2> QED  BY <1>2, <2>1, IdleKept, ReadKeeps
<1>4. CASE b \in B!Active
  <2>1. PICK row : row = [state |-> "active",
                          name |-> IF r.name = Absent THEN bases[b].name ELSE r.name,
                          group |-> IF r.group = Absent THEN bases[b].group ELSE r.group,
                          key |-> IF r.key = Absent THEN bases[b].key ELSE calls[c].key]
    OBVIOUS
  <2>2. PICK before : before = IF calls[c].kind = "keep" THEN calls[c].before ELSE B!Now  OBVIOUS
  <2>3. PICK x : x = Call("put", calls[c].kind, calls[c].args, [z \in {b} |-> row], calls[c].list, calls[c].draft,
                          calls[c].key, before, calls[c].after, calls[c].disturbed)
    OBVIOUS
  <2>4. calls' = [calls EXCEPT ![c] = x]
    <3>1. Reading(calls[c], "put", before, [z \in {b} |-> row]) = x  BY <1>2, <2>3, ReadingIs
    <3>2. calls' = [calls EXCEPT ![c] = Reading(calls[c], "put", before, [z \in {b} |-> row])]
      <4>1. calls' = [calls EXCEPT ![c] =
              Reading(calls[c], "put", IF calls[c].kind = "keep" THEN calls[c].before ELSE B!Now,
                [z \in {b} |-> [state |-> "active",
                                name |-> IF r.name = Absent THEN bases[b].name ELSE r.name,
                                group |-> IF r.group = Absent THEN bases[b].group ELSE r.group,
                                key |-> IF r.key = Absent THEN bases[b].key ELSE calls[c].key]])]
        BY <1>1, <1>4 DEF B!ReadBase, Reading
      <4> QED  BY <2>1, <2>2, <4>1
    <3> QED  BY <3>1, <3>2
  <2>5. /\ x.step = "put" /\ x.kind = calls[c].kind /\ x.args = calls[c].args /\ x.rows[b] = row
        /\ x.before = before /\ x.disturbed = calls[c].disturbed /\ IsCall(x)
    BY <2>3 DEF Call, IsCall
  <2>6. Equipped(x)  BY <1>2, <2>5 DEF Equipped
  <2>7. b \notin x.disturbed => x.before.bases[b] = bases[b]
    <3>1. CASE calls[c].kind = "keep"  BY <1>1, <1>2, <2>2, <2>5, <3>1 DEF Patches
    <3>2. CASE calls[c].kind # "keep"  BY <2>2, <2>5, <3>2 DEF B!Now
    <3> QED  BY <3>1, <3>2
  <2>8. b \notin x.disturbed => row.key = KeyOf(bases[b].key, r.key)
    <3>1. CASE r.key = Absent  BY <2>1, <3>1 DEF KeyOf
    <3>2. CASE r.key # Absent
      <4>1. calls[c].kind = "keep" /\ row.key = calls[c].key  BY <1>2, <2>1, <3>2
      <4>2. b \notin calls[c].disturbed => calls[c].key = KeyOf(bases[b].key, r.key)
        BY <1>1, <1>2, <4>1 DEF Patches
      <4> QED  BY <2>5, <4>1, <4>2
    <3> QED  BY <3>1, <3>2
  <2>9. IsRow(row) /\ (b \notin x.disturbed => Exact(x.before.bases[b], r, row))
    BY <2>1, <2>7, <2>8 DEF IsRow, Exact
  <2>10. Patches(x, bases)  BY <1>1, <2>5, <2>9 DEF Patches
  <2>11. Moves(x, bases) /\ Others(x, bases)  BY <2>5 DEF Moves, Others
  <2> QED  BY <1>2, <2>4, <2>5, <2>6, <2>10, <2>11, ReadKeeps DEF CallKept
<1> QED  BY <1>3, <1>4

LEMMA PutBaseKeeps ==
    ASSUME CatalogInv, NEW c \in Client, B!PutBase(c)
    PROVE  CatalogInv'
<1>1. PICK b, row : b = calls[c].args.base /\ row = calls[c].rows[b]  OBVIOUS
<1>2. /\ calls[c].kind \in {"patch", "keep"} /\ b \in Base /\ Equipped(calls[c]) /\ calls[c].step = "put"
      /\ Patches(calls[c], bases) /\ B!putBase(b, row)
  BY <1>1, MineKept DEF B!PutBase, B!At, Equipped, CallKept
<1>3. IsRow(row) /\ (b \notin calls[c].disturbed => Exact(calls[c].before.bases[b], calls[c].args.change, row))
  BY <1>1, <1>2 DEF Patches
<1>4. /\ Rewritten(bases, bases', {b})
      /\ b \in B!Active => bases'[b] = [state |-> "active", name |-> row.name, group |-> row.group, key |-> row.key]
  BY <1>2, <1>3, PutRewrites
<1>5. CASE b \notin B!Active
  <2>1. B!Continue(c, B!Failed(c), {b})  BY <1>1, <1>5 DEF B!PutBase
  <2> QED  BY <1>4, <2>1, FailedKeeps
<1>6. CASE b \in B!Active
  <2>1. B!Continue(c, B!Done(c), {b})  BY <1>1, <1>6 DEF B!PutBase
  <2>2. PICK x : x = B!Done(c)  OBVIOUS
  <2>3. /\ x.step = "done" /\ x.kind = calls[c].kind /\ x.args = calls[c].args /\ x.before = calls[c].before
        /\ x.after.bases = bases' /\ x.disturbed = calls[c].disturbed /\ IsCall(x)
    BY <2>2, DoneIs DEF Call, IsCall, B!Now
  <2>4. Equipped(x)  BY <1>2, <2>3 DEF Equipped
  <2>5. b \notin x.disturbed => Exact(x.before.bases[b], x.args.change, x.after.bases[b])
    BY <1>3, <1>4, <1>6, <2>3 DEF Exact
  <2>6. Patches(x, bases')  BY <1>1, <2>3, <2>5 DEF Patches
  <2>7. Moves(x, bases') /\ Others(x, bases')  BY <1>2, <2>3 DEF Moves, Others
  <2> QED  BY <1>4, <2>1, <2>2, <2>3, <2>4, <2>6, <2>7, Keeps DEF CallKept
<1> QED  BY <1>5, <1>6

LEMMA MarkBaseDeletingKeeps ==
    ASSUME CatalogInv, NEW c \in Client, B!markBaseDeleting(c)
    PROVE  CatalogInv'
<1>1. PICK b : b = calls[c].args.base  OBVIOUS
<1>2. calls[c].kind = "delete" /\ b \in Base /\ bases = [z \in Base |-> bases[z]] /\ IsRows(bases)
  BY <1>1, MineKept DEF B!markBaseDeleting, B!At, Equipped, CatalogInv, IsRows
<1>3. bases' = [bases EXCEPT ![b].state = IF @ = "active" THEN "deleting" ELSE @]
  BY <1>1 DEF B!markBaseDeleting
<1>4. bases' = [z \in Base |-> IF z = b /\ bases[z].state = "active" THEN [bases[z] EXCEPT !.state = "deleting"]
                               ELSE bases[z]]
  <2>1. IsRow(bases[b])  BY <1>2 DEF IsRows
  <2>2. bases[b].state # "active" => [bases[b] EXCEPT !.state = IF @ = "active" THEN "deleting" ELSE @] = bases[b]
    BY <2>1 DEF IsRow
  <2> QED  BY <1>2, <1>3, <2>2
<1>5. \A z \in Base : [bases[z] EXCEPT !.state = "deleting"] =
        [state |-> "deleting", name |-> bases[z].name, group |-> bases[z].group, key |-> bases[z].key]
  BY <1>2 DEF IsRows, IsRow
<1>6. IsRows(bases')
  <2>1. \A z \in Base : IsRow([state |-> "deleting", name |-> bases[z].name, group |-> bases[z].group,
                               key |-> bases[z].key])
    BY DEF IsRow
  <2>2. \A z \in Base : IsRow(bases'[z]) /\ bases'[z].state \in {"none", "active", "deleting"}
    <3>1. ASSUME NEW z \in Base
          PROVE  IsRow(bases[z]) /\ bases[z].state \in {"none", "active", "deleting"}
      BY <1>2 DEF IsRows
    <3>2. ASSUME NEW z \in Base
          PROVE  bases'[z] \in {bases[z], [state |-> "deleting", name |-> bases[z].name, group |-> bases[z].group,
                                            key |-> bases[z].key]}
      BY <1>4, <1>5
    <3> QED  BY <2>1, <3>1, <3>2
  <2>3. bases' = [z \in Base |-> bases'[z]]  BY <1>4
  <2> QED  BY <2>2, <2>3 DEF IsRows
<1>7. Rewritten(bases, bases', {b})  BY <1>2, <1>4, <1>5, <1>6 DEF Rewritten
<1>8. CASE bases[b].state = "none"
  <2>1. B!Continue(c, B!Failed(c), {b})  BY <1>1, <1>8 DEF B!markBaseDeleting
  <2> QED  BY <1>7, <2>1, FailedKeeps
<1>9. CASE bases[b].state # "none"
  <2>1. B!Continue(c, [B!Done(c) EXCEPT !.before = B!Now], {b})  BY <1>1, <1>9 DEF B!markBaseDeleting
  <2>2. PICK x : x = Call("done", "delete", calls[c].args, B!NoRows, calls[c].list, calls[c].draft, calls[c].key,
                          B!Now, B!Now', calls[c].disturbed)
    OBVIOUS
  <2>3. [B!Done(c) EXCEPT !.before = B!Now] = x  BY <1>2, <2>2, DoneSince
  <2>4. x.step = "done" /\ x.kind = "delete" /\ x.args.base = b /\ IsCall(x)  BY <1>1, <2>2 DEF Call, IsCall
  <2>5. bases'[b].state = "deleting"
    <3>1. bases[b].state \in {"active", "deleting"}  BY <1>2, <1>9 DEF IsRows
    <3> QED  BY <1>2, <1>4, <1>5, <3>1
  <2>6. CallKept(x, bases')  BY <1>2, <2>4, <2>5 DEF CallKept, Equipped, Patches, Moves, Others
  <2> QED  BY <1>7, <2>1, <2>3, <2>6, Keeps
<1> QED  BY <1>8, <1>9

LEMMA ReadGroupsKeeps ==
    ASSUME CatalogInv, NEW c \in Client, B!ReadGroups(c)
    PROVE  CatalogInv'
<1>1. PICK a : a = calls[c].args  OBVIOUS
<1>2. IsCall(calls[c]) /\ Equipped(calls[c]) /\ UNCHANGED <<bases, groups>> /\ Rewritten(bases, bases', {})
  BY MineKept, Unwritten DEF B!ReadGroups
<1>3. IsRows(bases) /\ groups \subseteq B!ListGroups  BY DEF CatalogInv, B!ListGroups
<1>4. ASSUME NEW step, NEW list,
             B!Continue(c, Renaming(calls[c], step, list, B!Now), {}),
             \/ step = "set groups" /\ calls[c].kind = "create group" /\ a.to \in list /\ groups \subseteq list
             \/ /\ step = "list" /\ calls[c].kind = "rename group" /\ a.from # a.to
                /\ a.from \notin list
                /\ a.to # NoGroup /\ a.from \in groups => a.to \in list
      PROVE  CatalogInv'
  <2>1. PICK x : x = Call(step, calls[c].kind, a, calls[c].rows, list, calls[c].draft, calls[c].key, B!Now,
                          calls[c].after, calls[c].disturbed)
    OBVIOUS
  <2>2. Renaming(calls[c], step, list, B!Now) = x  BY <1>1, <1>2, <2>1, RenamingIs
  <2>3. /\ x.step = step /\ x.kind = calls[c].kind /\ x.args = a /\ x.list = list
        /\ x.before.bases = bases /\ x.before.groups = groups /\ IsCall(x)
    BY <2>1 DEF Call, IsCall, B!Now
  <2>4. step \in {"set groups", "list"}  BY <1>4
  <2>5. Equipped(x)  BY <1>4, <2>3 DEF Equipped
  <2>6. Patches(x, bases')  BY <2>3, <2>4 DEF Patches
  <2>7. Moves(x, bases')  BY <1>2, <1>3, <1>4, <2>3 DEF Moves, Replaces, Undisturbed
  <2>8. Others(x, bases')  BY <1>4, <2>3 DEF Others
  <2> QED  BY <1>2, <1>4, <2>2, <2>3, <2>5, <2>6, <2>7, <2>8, Keeps DEF CallKept
<1>5. CASE B!At(c, "create group")
  <2>1. calls[c].kind = "create group"  BY <1>2, <1>5 DEF B!At, Equipped
  <2>2. CASE a.to \in B!ListGroups
    <3>1. B!Continue(c, [B!Done(c) EXCEPT !.before = B!Now], {})  BY <1>1, <1>5, <2>2 DEF B!ReadGroups, B!At
    <3>2. PICK x : x = Call("done", "create group", a, B!NoRows, calls[c].list, calls[c].draft, calls[c].key, B!Now,
                            B!Now', calls[c].disturbed)
      OBVIOUS
    <3>3. [B!Done(c) EXCEPT !.before = B!Now] = x  BY <1>1, <2>1, <3>2, DoneSince
    <3>4. /\ x.step = "done" /\ x.kind = "create group" /\ x.args = a /\ x.before.groups = groups
          /\ x.after.groups = groups /\ x.after.bases = bases /\ IsCall(x)
      BY <1>2, <3>2 DEF Call, IsCall, B!Now
    <3>5. a.to \in Listed(x.after)  BY <2>2, <3>4 DEF Listed, B!ListGroups, B!Active
    <3>6. Equipped(x) /\ Patches(x, bases') /\ Moves(x, bases')  BY <3>4 DEF Equipped, Patches, Moves
    <3>7. Others(x, bases')  BY <3>4, <3>5 DEF Others
    <3> QED  BY <1>2, <3>1, <3>3, <3>4, <3>6, <3>7, Keeps DEF CallKept
  <2>3. CASE a.to \notin B!ListGroups
    <3>1. B!Continue(c, Renaming(calls[c], "set groups", B!ListGroups \cup {a.to}, B!Now), {})
      BY <1>1, <1>5, <2>3 DEF B!ReadGroups, B!At, Renaming
    <3> QED  BY <1>3, <1>4, <2>1, <3>1
  <2> QED  BY <2>2, <2>3
<1>6. CASE B!At(c, "rename group")
  <2>1. calls[c].kind = "rename group" /\ a.from # a.to  BY <1>1, <1>2, <1>6 DEF B!At, Equipped
  <2>2. PICK list : list = B!Replaced(B!ListGroups, a.from, a.to)  OBVIOUS
  <2>3. B!Continue(c, Renaming(calls[c], "list", list, B!Now), {})
    BY <1>1, <1>6, <2>2 DEF B!ReadGroups, B!At, Renaming
  <2>4. a.from \notin list /\ (a.to # NoGroup /\ a.from \in groups => a.to \in list)
    BY <1>3, <2>1, <2>2 DEF B!Replaced
  <2> QED  BY <1>4, <2>1, <2>3, <2>4
<1> QED  BY <1>5, <1>6 DEF B!ReadGroups

LEMMA ListBasesKeeps ==
    ASSUME CatalogInv, NEW c \in Client, B!ListBases(c)
    PROVE  CatalogInv'
<1>1. PICK a : a = calls[c].args  OBVIOUS
<1>2. /\ IsCall(calls[c]) /\ Equipped(calls[c]) /\ calls[c].step = "list" /\ calls[c].kind = "rename group"
      /\ UNCHANGED bases /\ Moves(calls[c], bases)
  BY MineKept DEF B!ListBases, B!At, Equipped, CallKept
<1>3. PICK rows : rows = [b \in {z \in B!Active : bases[z].group = a.from} |-> bases[b]]  OBVIOUS
<1>4. PICK x : x = Call("members", calls[c].kind, calls[c].args, rows, calls[c].list, calls[c].draft, calls[c].key,
                        calls[c].before, calls[c].after, calls[c].disturbed)
  OBVIOUS
<1>5. calls' = [calls EXCEPT ![c] = x]
  <2>1. Listing(calls[c], "members", rows) = x  BY <1>1, <1>2, <1>4, ListingIs
  <2>2. calls' = [calls EXCEPT ![c] = Listing(calls[c], "members", rows)]
    BY <1>1, <1>3 DEF B!ListBases, CatalogInv, Listing
  <2> QED  BY <2>1, <2>2
<1>6. /\ x.step = "members" /\ x.kind = "rename group" /\ x.args = a /\ x.rows = rows /\ x.list = calls[c].list
      /\ x.before = calls[c].before /\ x.disturbed = calls[c].disturbed /\ IsCall(x)
  BY <1>1, <1>2, <1>4 DEF Call, IsCall
<1>7. Equipped(x)  BY <1>1, <1>2, <1>6 DEF Equipped
<1>8. IsRows(bases) /\ IsRows(x.before.bases) /\ Replaces(x, x.list)
  BY <1>1, <1>2, <1>6 DEF Moves, Replaces, CatalogInv
<1>9. \A b \in DOMAIN rows : b \in Base /\ IsRow(rows[b]) /\ rows[b] = bases[b] /\ bases[b].group = a.from
  BY <1>3, <1>8 DEF B!Active, IsRows
<1>10. ASSUME NEW b \in Undisturbed(x)
       PROVE  IF b \in DOMAIN rows
              THEN bases[b] = x.before.bases[b] /\ rows[b] = bases[b] /\ bases[b].group = a.from
              ELSE bases[b] = Moved(x.before.bases[b], a)
  <2>1. b \in Base /\ bases[b] = x.before.bases[b] /\ bases[b].state = "active"
    BY <1>2, <1>6 DEF Undisturbed, Moves
  <2>2. b \notin DOMAIN rows => bases[b].group # a.from  BY <1>3, <2>1 DEF B!Active
  <2>3. bases[b].group # a.from => Moved(bases[b], a) = bases[b]  BY <1>8, <2>1 DEF Moved, IsRows, IsRow
  <2> QED  BY <1>9, <2>1, <2>2, <2>3
<1>11. Moves(x, bases)  BY <1>6, <1>8, <1>9, <1>10 DEF Moves
<1>12. Patches(x, bases) /\ Others(x, bases)  BY <1>6 DEF Patches, Others
<1> QED  BY <1>2, <1>5, <1>6, <1>7, <1>11, <1>12, ReadKeeps DEF CallKept

LEMMA MoveMemberKeeps ==
    ASSUME CatalogInv, NEW c \in Client, B!MoveMember(c)
    PROVE  CatalogInv'
<1>1. PICK a, rows : a = calls[c].args /\ rows = calls[c].rows  OBVIOUS
<1>2. /\ IsCall(calls[c]) /\ Equipped(calls[c]) /\ calls[c].step = "members" /\ calls[c].kind = "rename group"
      /\ Moves(calls[c], bases)
  BY MineKept DEF B!MoveMember, B!At, Equipped, CallKept
<1>3. PICK b \in DOMAIN rows :
        /\ B!putBase(b, [rows[b] EXCEPT !.group = a.to])
        /\ B!Continue(c, IF b \notin B!Active THEN B!Failed(c)
                       ELSE [calls[c] EXCEPT !.rows = [z \in DOMAIN @ \ {b} |-> @[z]]], {b})
  BY <1>1 DEF B!MoveMember
<1>4. b \in Base /\ IsRow(rows[b]) /\ \A z \in DOMAIN rows : z \in Base /\ IsRow(rows[z])
  BY <1>1, <1>2 DEF Moves
<1>5. PICK row : row = [rows[b] EXCEPT !.group = a.to]  OBVIOUS
<1>6. /\ IsRow(row) /\ row.name = rows[b].name /\ row.key = rows[b].key /\ row.group = a.to
  BY <1>4, <1>5 DEF IsRow
<1>7. /\ Rewritten(bases, bases', {b})
      /\ b \in B!Active => bases'[b] = [state |-> "active", name |-> row.name, group |-> row.group, key |-> row.key]
  <2>1. B!putBase(b, row)  BY <1>3, <1>5
  <2> QED  BY <1>4, <1>6, <2>1, PutRewrites
<1>8. CASE b \notin B!Active
  <2>1. B!Continue(c, B!Failed(c), {b})  BY <1>3, <1>8
  <2> QED  BY <1>7, <2>1, FailedKeeps
<1>9. CASE b \in B!Active
  <2>1. PICK rest : rest = [z \in DOMAIN rows \ {b} |-> rows[z]]  OBVIOUS
  <2>2. PICK x : x = Call("members", calls[c].kind, a, rest, calls[c].list, calls[c].draft, calls[c].key,
                          calls[c].before, calls[c].after, calls[c].disturbed)
    OBVIOUS
  <2>3. [calls[c] EXCEPT !.rows = [z \in DOMAIN @ \ {b} |-> @[z]]] = x
    <3>1. [calls[c] EXCEPT !.rows = [z \in DOMAIN @ \ {b} |-> @[z]]] = [calls[c] EXCEPT !.rows = rest]
      BY <1>1, <1>2, <2>1 DEF Call, IsCall
    <3>2. Leaving(calls[c], rest) = x  BY <1>1, <1>2, <2>2, LeavingIs
    <3> QED  BY <3>1, <3>2 DEF Leaving
  <2>4. B!Continue(c, x, {b})  BY <1>3, <1>9, <2>3
  <2>5. /\ x.step = "members" /\ x.kind = "rename group" /\ x.args = a /\ x.rows = rest /\ x.list = calls[c].list
        /\ x.before = calls[c].before /\ x.disturbed = calls[c].disturbed /\ IsCall(x)
    BY <1>2, <2>2 DEF Call, IsCall
  <2>6. Equipped(x)  BY <1>1, <1>2, <2>5 DEF Equipped
  <2>7. IsRows(x.before.bases) /\ Replaces(x, x.list)  BY <1>1, <1>2, <2>5 DEF Moves, Replaces
  <2>8. DOMAIN rest = DOMAIN rows \ {b} /\ \A z \in DOMAIN rest : rest[z] = rows[z]  BY <2>1
  <2>9. ASSUME NEW z \in Undisturbed(x)
        PROVE  IF z \in DOMAIN rest
               THEN bases'[z] = x.before.bases[z] /\ rest[z] = bases'[z] /\ bases'[z].group = a.from
               ELSE bases'[z] = Moved(x.before.bases[z], a)
    <3>1. z \in Base /\ z \in Undisturbed(calls[c]) /\ x.before.bases[z].state = "active"
      BY <2>5 DEF Undisturbed
    <3>2. IF z \in DOMAIN rows
          THEN bases[z] = x.before.bases[z] /\ rows[z] = bases[z] /\ bases[z].group = a.from
          ELSE bases[z] = Moved(x.before.bases[z], a)
      BY <1>1, <1>2, <2>5, <3>1 DEF Moves
    <3>3. CASE z # b
      <4>1. bases'[z] = bases[z]  BY <1>7, <3>1, <3>3 DEF Rewritten
      <4> QED  BY <2>8, <3>2, <3>3, <4>1
    <3>4. CASE z = b
      <4>1. z \notin DOMAIN rest /\ z \in DOMAIN rows  BY <2>8, <3>4
      <4>2. rows[z] = x.before.bases[z] /\ rows[z].group = a.from /\ rows[z].state = "active"
        BY <3>1, <3>2, <4>1
      <4>3. bases'[z] = [state |-> "active", name |-> rows[z].name, group |-> a.to, key |-> rows[z].key]
        BY <1>6, <1>7, <1>9, <3>4
      <4>4. Moved(rows[z], a) = [state |-> "active", name |-> rows[z].name, group |-> a.to, key |-> rows[z].key]
        BY <1>4, <3>4, <4>2 DEF Moved, IsRow
      <4> QED  BY <4>1, <4>2, <4>3, <4>4
    <3> QED  BY <3>3, <3>4
  <2>10. Moves(x, bases')
    <3>1. \A z \in DOMAIN rest : z \in Base /\ IsRow(rest[z])  BY <1>4, <2>8
    <3> QED  BY <2>5, <2>7, <2>9, <3>1 DEF Moves
  <2>11. Patches(x, bases') /\ Others(x, bases')  BY <2>5 DEF Patches, Others
  <2> QED  BY <1>7, <2>4, <2>5, <2>6, <2>10, <2>11, Keeps DEF CallKept
<1> QED  BY <1>8, <1>9

LEMMA SetGroupsKeeps ==
    ASSUME CatalogInv, NEW c \in Client, B!SetGroups(c)
    PROVE  CatalogInv'
<1>1. PICK a : a = calls[c].args  OBVIOUS
<1>2. /\ Equipped(calls[c]) /\ Moves(calls[c], bases) /\ Others(calls[c], bases)
      /\ \/ calls[c].step = "set groups" /\ calls[c].kind = "create group"
         \/ calls[c].step = "members" /\ calls[c].kind = "rename group" /\ DOMAIN calls[c].rows = {}
      /\ UNCHANGED bases /\ B!Continue(c, B!Done(c), {"groups"}) /\ groups' = calls[c].list
  BY MineKept DEF B!SetGroups, B!At, Equipped, CallKept
<1>3. Rewritten(bases, bases', {"groups"})  BY <1>2 DEF Rewritten, CatalogInv
<1>4. PICK x : x = B!Done(c)  OBVIOUS
<1>5. /\ x.step = "done" /\ x.kind = calls[c].kind /\ x.args = a /\ x.before = calls[c].before
      /\ x.after.bases = bases /\ x.after.groups = calls[c].list /\ x.disturbed = calls[c].disturbed /\ IsCall(x)
  <2>1. PICK y : y = calls[c]  OBVIOUS
  <2>2. x = Call("done", y.kind, y.args, B!NoRows, y.list, y.draft, y.key, y.before, B!Now', y.disturbed)
    BY <1>4, <2>1, DoneIs
  <2>3. B!Now'.bases = bases' /\ B!Now'.groups = groups'  BY DEF B!Now
  <2> QED  BY <1>1, <1>2, <2>1, <2>2, <2>3 DEF Call, IsCall
<1>6. x.kind \in {"create group", "rename group"}  BY <1>2, <1>5
<1>7. Equipped(x)  BY <1>1, <1>2, <1>5 DEF Equipped
<1>8. Patches(x, bases')  BY <1>5, <1>6 DEF Patches
<1>9. Moves(x, bases')
  <2>1. CASE x.kind = "create group"  BY <1>5, <2>1 DEF Moves
  <2>2. CASE x.kind = "rename group"
    <3>1. calls[c].step = "members" /\ DOMAIN calls[c].rows = {}  BY <1>2, <1>5, <2>2
    <3>2. Replaces(x, x.after.groups)  BY <1>1, <1>2, <1>5, <3>1 DEF Moves, Replaces
    <3>3. Undisturbed(x) = Undisturbed(calls[c])  BY <1>5 DEF Undisturbed
    <3>4. \A b \in Undisturbed(x) : x.after.bases[b] = Moved(x.before.bases[b], x.args)
      BY <1>1, <1>2, <1>5, <3>1, <3>3 DEF Moves
    <3> QED  BY <1>5, <3>2, <3>4 DEF Moves
  <2> QED  BY <1>6, <2>1, <2>2
<1>10. Others(x, bases')
  <2>1. CASE x.kind = "create group"
    <3>1. a.to \in calls[c].list /\ calls[c].before.groups \subseteq calls[c].list
      BY <1>1, <1>2, <1>5, <2>1 DEF Others
    <3>2. a.to \in Listed(x.after)  BY <1>5, <3>1 DEF Listed
    <3> QED  BY <1>5, <2>1, <3>1, <3>2 DEF Others
  <2>2. CASE x.kind = "rename group"  BY <1>5, <2>2 DEF Others
  <2> QED  BY <1>6, <2>1, <2>2
<1> QED  BY <1>2, <1>3, <1>4, <1>5, <1>7, <1>8, <1>9, <1>10, Keeps DEF CallKept

LEMMA ReadScopeKeeps ==
    ASSUME CatalogInv, NEW c \in Client, B!ReadScope(c)
    PROVE  CatalogInv'
<1>1. PICK a : a = calls[c].args  OBVIOUS
<1>2. /\ IsCall(calls[c]) /\ Equipped(calls[c]) /\ calls[c].step = "scope" /\ calls[c].kind = "scope"
      /\ UNCHANGED bases
  BY MineKept DEF B!ReadScope, B!At, Equipped
<1>3. PICK draft : draft = [enabled |-> IF a.enabled = Absent THEN B!EnabledScope.enabled ELSE a.enabled,
                            bases |-> IF a.bases = Absent THEN B!EnabledScope.bases ELSE a.bases]
  OBVIOUS
<1>4. PICK x : x = Call("set scope", calls[c].kind, calls[c].args, calls[c].rows, calls[c].list, draft,
                        calls[c].key, B!Now, calls[c].after, calls[c].disturbed)
  OBVIOUS
<1>5. calls' = [calls EXCEPT ![c] = x]
  <2>1. Drafting(calls[c], "set scope", B!Now, draft) = x
    <3>1. PICK y, now : y = calls[c] /\ now = B!Now  OBVIOUS
    <3>2. IsCall(y)  BY <1>2, <3>1
    <3>3. Drafting(y, "set scope", now, draft) =
            Call("set scope", y.kind, y.args, y.rows, y.list, draft, y.key, now, y.after, y.disturbed)
      BY <3>2, DraftingIs
    <3> QED  BY <1>4, <3>1, <3>3
  <2>2. calls' = [calls EXCEPT ![c] = Drafting(calls[c], "set scope", B!Now, draft)]
    BY <1>1, <1>3 DEF B!ReadScope, CatalogInv, Drafting
  <2> QED  BY <2>1, <2>2
<1>6. /\ x.step = "set scope" /\ x.kind = "scope" /\ x.args = a /\ x.draft = draft /\ x.before.scope = scope
      /\ IsCall(x)
  BY <1>1, <1>2, <1>4 DEF Call, IsCall, B!Now
<1>7. ScopeAsked(scope, a, draft)  BY <1>3 DEF ScopeAsked, ScopeOf, B!EnabledScope
<1>8. Equipped(x) /\ Patches(x, bases) /\ Moves(x, bases)  BY <1>6 DEF Equipped, Patches, Moves
<1>9. Others(x, bases)  BY <1>6, <1>7 DEF Others
<1> QED  BY <1>2, <1>5, <1>6, <1>8, <1>9, ReadKeeps DEF CallKept

LEMMA SetScopeKeeps ==
    ASSUME CatalogInv, NEW c \in Client, B!SetScope(c)
    PROVE  CatalogInv'
<1>1. /\ calls[c].step = "set scope" /\ calls[c].kind = "scope" /\ Others(calls[c], bases)
      /\ UNCHANGED bases /\ B!Continue(c, B!Done(c), {"scope"}) /\ scope' = calls[c].draft
  BY MineKept DEF B!SetScope, B!At, Equipped, CallKept
<1>2. Rewritten(bases, bases', {"scope"})  BY <1>1 DEF Rewritten, CatalogInv
<1>3. PICK x : x = B!Done(c)  OBVIOUS
<1>4. /\ x.step = "done" /\ x.kind = "scope" /\ x.args = calls[c].args /\ x.before = calls[c].before
      /\ x.after.scope = calls[c].draft /\ IsCall(x)
  <2>1. PICK y : y = calls[c]  OBVIOUS
  <2>2. x = Call("done", y.kind, y.args, B!NoRows, y.list, y.draft, y.key, y.before, B!Now', y.disturbed)
    BY <1>3, <2>1, DoneIs
  <2>3. B!Now'.scope = scope'  BY DEF B!Now
  <2> QED  BY <1>1, <2>1, <2>2, <2>3 DEF Call, IsCall
<1>5. ScopeAsked(x.before.scope, x.args, x.after.scope)  BY <1>1, <1>4 DEF Others
<1>6. Equipped(x) /\ Patches(x, bases') /\ Moves(x, bases')  BY <1>4 DEF Equipped, Patches, Moves
<1>7. Others(x, bases')  BY <1>4, <1>5 DEF Others
<1> QED  BY <1>1, <1>2, <1>3, <1>4, <1>6, <1>7, Keeps DEF CallKept

LEMMA CatalogInit ==
    ASSUME B!Init
    PROVE  CatalogInv
<1>1. calls = [c \in Client |-> B!Idle]  BY DEF B!Init
<1> DEFINE row(g) == [state |-> "active", name |-> CHOOSE n \in Name : TRUE, group |-> g,
                       key |-> CHOOSE k \in Key : TRUE]
           first == row(CHOOSE g \in Group : TRUE)
           other == row(NoGroup)
<1>2. PICK b \in Base : bases \in {[z \in Base |-> IF z = b THEN first ELSE y] : y \in {first, other, B!NoBase}}
  BY DEF B!Init
<1>3. \A y \in {first, other, B!NoBase} : IsRow(y) /\ y.state \in {"none", "active"}  BY DEF IsRow, B!NoBase
<1> HIDE DEF row, first, other
<1>4. PICK y \in {first, other, B!NoBase} : bases = [z \in Base |-> IF z = b THEN first ELSE y]  BY <1>2
<1>5. IsRows(bases)  BY <1>3, <1>4 DEF IsRows
<1> QED  BY <1>1, <1>5, IdleKept DEF CatalogInv

LEMMA CatalogNext ==
    ASSUME B!CatalogAssumption, CatalogInv, [B!Next]_B!vars
    PROVE  CatalogInv'
<1>1. ASSUME NEW c \in Client, B!Step(c)
      PROVE  CatalogInv'
  <2>1. CASE B!Cancelled(c)
    <3>1. UNCHANGED bases /\ B!Continue(c, B!Failed(c), {})  BY <2>1 DEF B!Cancelled
    <3> QED  BY <3>1, Unwritten, FailedKeeps
  <2> QED
    BY <1>1, <2>1, AskedKeeps, CreateBaseKeeps, KeepKeysKeeps, ReadBaseKeeps, PutBaseKeeps, MarkBaseDeletingKeeps,
       ReadGroupsKeeps, ListBasesKeeps, MoveMemberKeeps, SetGroupsKeeps, ReadScopeKeeps, SetScopeKeeps
    DEF B!Step
<1>2. CASE UNCHANGED B!vars  BY <1>2 DEF B!vars, CatalogInv
<1> QED  BY <1>1, <1>2 DEF B!Next

\* What the invariant says of the calls that clients were answered.
LEMMA CatalogTold ==
    ASSUME B!CatalogAssumption, CatalogInv
    PROVE  B!CatalogIsKept
<1>1. ASSUME NEW c \in B!Told
      PROVE  /\ c \in Client /\ calls[c].step = "done" /\ Equipped(calls[c])
             /\ Patches(calls[c], bases) /\ Moves(calls[c], bases) /\ Others(calls[c], bases)
  BY DEF B!Told, CatalogInv, CallKept
<1>2. B!DeletedStaysDeleted  BY <1>1 DEF B!DeletedStaysDeleted, Others
<1>3. B!PatchIsExact
  <2>1. ASSUME NEW old, NEW asked
        PROVE  KeyOf(old, asked) = CASE asked \in {Absent, NoKey} -> old [] asked = "clear" -> NoKey [] OTHER -> asked
    BY DEF KeyOf, B!CatalogAssumption
  <2> QED  BY <1>1, <2>1 DEF B!PatchIsExact, Patches, Exact, B!Calm, B!Was, B!Became
<1>4. B!GroupsMoveWhole
  BY <1>1 DEF B!GroupsMoveWhole, Moves, Replaces, Undisturbed, Moved, B!Calm, B!Was, B!Became
<1>5. B!GroupsAreListed  BY <1>1 DEF B!GroupsAreListed, Others, Listed
<1>6. B!ScopeIsExact  BY <1>1 DEF B!ScopeIsExact, Others, ScopeAsked, ScopeOf
<1> QED  BY <1>2, <1>3, <1>4, <1>5, <1>6 DEF B!CatalogIsKept

\* What a client is told of a base, a group or the scope is so, whatever the calls that run
\* beside its own did to other rows (service_base.go, web/api.go).
THEOREM CatalogStaysKept ==
    ASSUME B!CatalogAssumption
    PROVE  B!Init /\ [][B!Next]_B!vars => []B!CatalogIsKept
<1>1. CatalogInv /\ [B!Next]_B!vars => CatalogInv'  BY CatalogNext
<1> QED  BY <1>1, CatalogInit, CatalogTold, PTL

=============================================================================
