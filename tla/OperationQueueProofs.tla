----------------------- MODULE OperationQueueProofs -------------------------
(***************************************************************************)
(* Theorems about OperationQueue, for any number of operations, workers,    *)
(* requests, faults and restarts.                                           *)
(***************************************************************************)
EXTENDS OperationQueue, UnitSums

USE DEF States, Active, Resting, Outcomes, Pcs

\* Reserving and releasing keep the counters natural numbers.
LEMMA ReservationTyped ==
    ASSUME NEW o \in Op, perBase \in [Base -> Nat], bytes \in [Resource -> Nat],
           reserve(o) \/ release(o)
    PROVE  perBase' \in [Base -> Nat] /\ bytes' \in [Resource -> Nat]
  <1>1. \A r \in Resource : Budget[o][r] \in Nat
    BY BudgetAssumption
  <1>2. \A n, k \in Nat : Less(n, k) \in Nat
    BY DEF Less
  <1>3. CASE reserve(o)
    BY <1>1, <1>3 DEF reserve
  <1>4. CASE release(o)
    BY <1>1, <1>2, <1>4 DEF release
  <1>5. QED
    BY <1>3, <1>4

\* Sending and receiving a token keep the wake counters natural numbers.
LEMMA WakesTyped ==
    ASSUME wakes \in [Class -> Nat], NEW c
    PROVE  /\ wakeupClass(c) => wakes' \in [Class -> Nat]
           /\ c \in Class /\ wakes[c] > 0 => [wakes EXCEPT ![c] = @ - 1] \in [Class -> Nat]
  <1>1. \A k \in Class : wakes[k] \in Nat
    OBVIOUS
  <1>2. ASSUME wakeupClass(c) PROVE wakes' \in [Class -> Nat]
    <2>. DEFINE woken == IF c \in Class THEN c ELSE IOClass
                sent == IF wakes[woken] < WakeCap THEN wakes[woken] + 1 ELSE wakes[woken]
    <2>1. woken \in Class
      BY ClassAssumption
    <2>2. sent \in Nat
      BY <1>1, <2>1
    <2>3. wakes' = [wakes EXCEPT ![woken] = sent]
      BY <1>2 DEF wakeupClass
    <2>4. QED
      BY <2>1, <2>2, <2>3
  <1>3. ASSUME c \in Class, wakes[c] > 0
        PROVE  [wakes EXCEPT ![c] = @ - 1] \in [Class -> Nat]
    <2>1. wakes[c] - 1 \in Nat
      BY <1>1, <1>3
    <2>2. QED
      BY <2>1
  <1>4. QED
    BY <1>2, <1>3

LEMMA InitTyped == Init => TypeOK
  BY DEF Init, TypeOK

\* The steps of API requests keep the shape.
LEMMA RequestTyped ==
    ASSUME TypeOK, NEW c \in Client,
           RequestProgress(c) \/ \E o \in Op : Request(c, o)
    PROVE  TypeOK'
  <1>. USE DEF TypeOK, rowVars, runVars, callVars, memVars, procVars
  <1>1. ASSUME NEW o \in Op, Submit(c, o) PROVE TypeOK'
    BY <1>1 DEF Submit, Write, Begin
  <1>2. ASSUME NEW o \in Op, CancelRead(c, o) PROVE TypeOK'
    BY <1>2 DEF CancelRead, Begin
  <1>3. ASSUME NEW o \in Op, RetryRead(c, o) PROVE TypeOK'
    BY <1>3 DEF RetryRead, Begin
  <1>4. ASSUME Wake(c) PROVE TypeOK'
    <2>1. wakes' \in [Class -> Nat]
      BY <1>4, WakesTyped DEF Wake
    <2>2. QED
      BY <1>4, <2>1 DEF Wake, Continue
  <1>5. ASSUME CancelTx(c) PROVE TypeOK'
    BY <1>5 DEF CancelTx, CancelRow, Write, Continue
  <1>6. ASSUME CancelMissed(c) PROVE TypeOK'
    BY <1>6 DEF CancelMissed, Continue
  <1>7. ASSUME CancelNotify(c) PROVE TypeOK'
    BY <1>7 DEF CancelNotify, Continue
  <1>8. ASSUME RetryTx(c) PROVE TypeOK'
    BY <1>8 DEF RetryTx, Write, Continue
  <1>9. QED
    BY <1>1, <1>2, <1>3, <1>4, <1>5, <1>6, <1>7, <1>8 DEF Request, RequestProgress

\* The steps of workers keep the shape.
LEMMA WorkerTyped ==
    ASSUME TypeOK, NEW w \in Worker, WorkerProgress(w) \/ reportContext(w)
    PROVE  TypeOK'
  <1>. USE DEF TypeOK, rowVars, runVars, callVars, memVars, procVars, idleVars, Go
  <1>1. ASSUME WorkerWake(w) PROVE TypeOK'
    <2>1. wakes' \in [Class -> Nat]
      <3>1. WorkerClass[w] \in Class
        BY ClassAssumption
      <3>2. QED
        BY <1>1, <3>1, WakesTyped DEF WorkerWake
    <2>2. QED
      BY <1>1, <2>1 DEF WorkerWake
  <1>2. ASSUME WorkerExit(w) PROVE TypeOK'
    BY <1>2 DEF WorkerExit
  <1>3. ASSUME ClaimNothing(w) PROVE TypeOK'
    BY <1>3 DEF ClaimNothing
  <1>4. ASSUME ClaimRefused(w) PROVE TypeOK'
    BY <1>4 DEF ClaimRefused, Write
  <1>5. ASSUME NEW o \in Op, ClaimNext(w, o) PROVE TypeOK'
    <2>1. perBase' \in [Base -> Nat] /\ bytes' \in [Resource -> Nat]
      BY <1>5, ReservationTyped DEF ClaimNext
    <2>2. QED
      BY <1>5, <2>1 DEF ClaimNext, Write
  <1>6. ASSUME Launch(w) PROVE TypeOK'
    BY <1>6 DEF Launch
  <1>7. ASSUME Register(w) PROVE TypeOK'
    BY <1>7 DEF Register
  <1>8. ASSUME ReadCancelled(w) PROVE TypeOK'
    BY <1>8 DEF ReadCancelled
  <1>9. ASSUME Dispatch(w) PROVE TypeOK'
    BY <1>9 DEF Dispatch
  <1>10. ASSUME reportContext(w) PROVE TypeOK'
    BY <1>10 DEF reportContext
  <1>11. ASSUME ExecutorReturns(w) PROVE TypeOK'
    BY <1>11 DEF ExecutorReturns, Write
  <1>12. ASSUME FinishDecide(w) PROVE TypeOK'
    BY <1>12 DEF FinishDecide
  <1>13. ASSUME FinishCommit(w) PROVE TypeOK'
    <2>1. Verdict(w) \in States
      BY DEF Verdict
    <2>2. /\ state' \in [Op -> States] /\ rev' \in [Op -> Nat] /\ retryable' \subseteq Op
      BY <1>13, <2>1 DEF FinishCommit, FinishRow
    <2>3. QED
      BY <1>13, <2>2 DEF FinishCommit, Write
  <1>14. ASSUME ReleaseReservation(w) PROVE TypeOK'
    <2>1. perBase' \in [Base -> Nat] /\ bytes' \in [Resource -> Nat]
      BY <1>14, ReservationTyped DEF ReleaseReservation
    <2>2. QED
      BY <1>14, <2>1 DEF ReleaseReservation
  <1>15. ASSUME Deregister(w) PROVE TypeOK'
    BY <1>15 DEF Deregister, AfterRun
  <1>16. QED
    BY <1>1, <1>2, <1>3, <1>4, <1>5, <1>6, <1>7, <1>8, <1>9, <1>10, <1>11, <1>12, <1>13,
       <1>14, <1>15 DEF WorkerProgress

\* The steps of the process keep the shape.
LEMMA ProcessTyped ==
    ASSUME TypeOK, Start \/ Stop \/ Exit
    PROVE  TypeOK'
  <1>. USE DEF TypeOK, rowVars, runVars, callVars, memVars, procVars, AllRest
  <1>1. ASSUME Start PROVE TypeOK'
    BY <1>1, BoundAssumption DEF Start
  <1>2. ASSUME Stop PROVE TypeOK'
    BY <1>2 DEF Stop
  <1>3. ASSUME Exit PROVE TypeOK'
    BY <1>3 DEF Exit
  <1>4. QED
    BY <1>1, <1>2, <1>3

LEMMA StepTyped == TypeOK /\ [Next]_vars => TypeOK'
  <1>1. CASE UNCHANGED vars
    BY <1>1 DEF vars, rowVars, runVars, callVars, memVars, procVars, TypeOK
  <1>2. CASE Next
    BY <1>2, RequestTyped, WorkerTyped, ProcessTyped DEF Next
  <1>3. QED
    BY <1>1, <1>2

(* Every variable keeps its shape, and whoever is under way with an         *)
(* operation knows which one (every handler of internal/operations).        *)
THEOREM TypeCorrect == Spec => []TypeOK
  BY InitTyped, StepTyped, PTL DEF Spec

----------------------------------------------------------------------------
\* The exclusive claim.

LEMMA InitExclusive == Init => ExclusiveClaim
  BY DEF Init, ExclusiveClaim, Owning, Finishing

(* A request moves a row only out of a state in which nobody owns it, or    *)
(* into cancelling or cancelled.                                            *)
LEMMA RequestExclusive ==
    ASSUME TypeOK, ExclusiveClaim, NEW c \in Client,
           RequestProgress(c) \/ \E o \in Op : Request(c, o)
    PROVE  ExclusiveClaim'
  <1>. USE DEF TypeOK, ExclusiveClaim, Owning, Finishing, rowVars, runVars
  <1>1. ASSUME NEW o \in Op, Submit(c, o) PROVE ExclusiveClaim'
    BY <1>1 DEF Submit
  <1>2. ASSUME NEW o \in Op, CancelRead(c, o) \/ RetryRead(c, o) PROVE ExclusiveClaim'
    BY <1>2 DEF CancelRead, RetryRead
  <1>3. ASSUME CancelTx(c) PROVE ExclusiveClaim'
    BY <1>3 DEF CancelTx, CancelRow, CancelMatches
  <1>4. ASSUME RetryTx(c) PROVE ExclusiveClaim'
    BY <1>4 DEF RetryTx
  <1>5. ASSUME Wake(c) \/ CancelMissed(c) \/ CancelNotify(c) PROVE ExclusiveClaim'
    BY <1>5 DEF Wake, CancelMissed, CancelNotify
  <1>6. QED
    BY <1>1, <1>2, <1>3, <1>4, <1>5 DEF Request, RequestProgress

(* A claim takes a queued row, which nobody owns, and raises its attempt    *)
(* above that of every worker still finishing; a finish changes a row only  *)
(* when its attempt is the row's, hence when nobody owns the row.           *)
LEMMA WorkerExclusive ==
    ASSUME TypeOK, ExclusiveClaim, NEW w \in Worker, WorkerProgress(w) \/ reportContext(w)
    PROVE  ExclusiveClaim'
  <1>. USE DEF TypeOK, ExclusiveClaim, Owning, Finishing, rowVars, runVars, idleVars, Go
  <1>1. ASSUME WorkerWake(w) \/ WorkerExit(w) \/ ClaimNothing(w) \/ ClaimRefused(w)
        PROVE  ExclusiveClaim'
    BY <1>1 DEF WorkerWake, WorkerExit, ClaimNothing, ClaimRefused
  <1>2. ASSUME NEW o \in Op, ClaimNext(w, o) PROVE ExclusiveClaim'
    <2>1. state[o] = "queued" /\ pc[w] = "claim" /\ mine' = mine
      BY <1>2 DEF ClaimNext, Claimable
    <2>2. \A v \in Worker : pc[v] \in Owning => job[v] # o
      BY <2>1
    <2>3. CASE pc'[w] = "claimed"
      <3>1. /\ pc' = [pc EXCEPT ![w] = "claimed"] /\ job' = [job EXCEPT ![w] = o]
            /\ state' = [state EXCEPT ![o] = "running"]
            /\ attempt' = [attempt EXCEPT ![o] = attempt[o] + 1]
        BY <1>2, <2>3 DEF ClaimNext, Committed
      <3>2. QED
        BY <2>1, <2>2, <3>1
    <2>4. CASE pc'[w] # "claimed"
      <3>1. pc' = [pc EXCEPT ![w] = "idle"] /\ job' = job
        BY <1>2, <2>4 DEF ClaimNext
      <3>2. CASE state' = state /\ attempt' = attempt
        BY <2>1, <3>1, <3>2
      <3>3. CASE /\ state' = [state EXCEPT ![o] = "running"]
                 /\ attempt' = [attempt EXCEPT ![o] = attempt[o] + 1]
        BY <2>1, <2>2, <3>1, <3>3
      <3>4. QED
        BY <1>2, <3>2, <3>3 DEF ClaimNext
    <2>5. QED
      BY <2>3, <2>4
  <1>3. ASSUME Launch(w) \/ ReadCancelled(w) \/ Dispatch(w) PROVE ExclusiveClaim'
    BY <1>3 DEF Launch, ReadCancelled, Dispatch
  <1>4. ASSUME Register(w) PROVE ExclusiveClaim'
    BY <1>4 DEF Register
  <1>5. ASSUME reportContext(w) \/ ExecutorReturns(w) \/ FinishDecide(w) PROVE ExclusiveClaim'
    BY <1>5 DEF reportContext, ExecutorReturns, FinishDecide
  <1>6. ASSUME FinishCommit(w) PROVE ExclusiveClaim'
    <2>1. Verdict(w) # "absent"
      BY DEF Verdict
    <2>2. pc[w] = "committing" /\ attempt' = attempt /\ job' = job /\ mine' = mine
      BY <1>6 DEF FinishCommit
    <2>3. pc' = [pc EXCEPT ![w] = "finishing"] \/ pc' = [pc EXCEPT ![w] = "releasing"]
      BY <1>6 DEF FinishCommit
    <2>4. CASE state' = state
      BY <2>2, <2>3, <2>4
    <2>5. CASE OwnsRow(w) /\ FinishRow(w)
      BY <2>1, <2>2, <2>3, <2>5 DEF FinishRow, OwnsRow
    <2>6. QED
      BY <1>6, <2>4, <2>5 DEF FinishCommit
  <1>7. ASSUME ReleaseReservation(w) \/ Deregister(w) PROVE ExclusiveClaim'
    BY <1>7 DEF ReleaseReservation, Deregister, AfterRun
  <1>8. QED
    BY <1>1, <1>2, <1>3, <1>4, <1>5, <1>6, <1>7 DEF WorkerProgress

\* No worker is at work when the process starts or is gone.
LEMMA ProcessExclusive ==
    ASSUME TypeOK, ExclusiveClaim, Start \/ Stop \/ Exit
    PROVE  ExclusiveClaim'
  <1>1. ASSUME Start \/ Exit PROVE ExclusiveClaim'
    BY <1>1 DEF Start, Exit, AllRest, ExclusiveClaim, Owning, Finishing
  <1>2. ASSUME Stop PROVE ExclusiveClaim'
    BY <1>2 DEF Stop, ExclusiveClaim, rowVars, runVars
  <1>3. QED
    BY <1>1, <1>2

LEMMA StepExclusive == TypeOK /\ ExclusiveClaim /\ [Next]_vars => ExclusiveClaim'
  <1>1. CASE UNCHANGED vars
    BY <1>1 DEF vars, rowVars, runVars, ExclusiveClaim
  <1>2. CASE Next
    BY <1>2, RequestExclusive, WorkerExclusive, ProcessExclusive DEF Next
  <1>3. QED
    BY <1>1, <1>2

THEOREM ClaimsAreExclusive == Spec => []ExclusiveClaim
  BY TypeCorrect, InitExclusive, StepExclusive, PTL DEF Spec

(* Two workers never execute one operation at the same time (claimNext,     *)
(* finishContext, CancelContext, RetryContext and recover together).        *)
THEOREM ExecutionIsExclusive == Spec => []OneExecutor
  <1>1. ExclusiveClaim => OneExecutor
    BY DEF ExclusiveClaim, OneExecutor, Owning
  <1>2. QED
    BY <1>1, ClaimsAreExclusive, PTL

----------------------------------------------------------------------------
\* What a step may never do to a row.

(* A succeeded or cancelled command never leaves that state: claimNext,     *)
(* finishContext, CancelContext, RetryContext and recover all condition     *)
(* their update on another state.                                           *)
THEOREM FinalForever == Spec => FinalStaysFinal
  <1>1. ASSUME TypeOK, [Next]_vars, NEW o \in Op, state[o] \in Final
        PROVE  state'[o] = state[o]
    <2>. USE <1>1 DEF TypeOK, Final, rowVars
    <2>1. ASSUME NEW c \in Client, RequestProgress(c) \/ \E p \in Op : Request(c, p)
          PROVE  state'[o] = state[o]
      <3>1. ASSUME NEW p \in Op, Submit(c, p) PROVE state'[o] = state[o]
        BY <3>1 DEF Submit
      <3>2. ASSUME CancelTx(c) PROVE state'[o] = state[o]
        BY <3>2 DEF CancelTx, CancelRow, CancelMatches
      <3>3. ASSUME RetryTx(c) PROVE state'[o] = state[o]
        BY <3>3 DEF RetryTx
      <3>4. ASSUME \/ \E p \in Op : CancelRead(c, p) \/ RetryRead(c, p)
                   \/ Wake(c) \/ CancelMissed(c) \/ CancelNotify(c)
            PROVE  state'[o] = state[o]
        BY <3>4 DEF CancelRead, RetryRead, Wake, CancelMissed, CancelNotify
      <3>5. QED
        BY <2>1, <3>1, <3>2, <3>3, <3>4 DEF Request, RequestProgress
    <2>2. ASSUME NEW w \in Worker, WorkerProgress(w) \/ reportContext(w)
          PROVE  state'[o] = state[o]
      BY <2>2 DEF WorkerProgress, WorkerWake, WorkerExit, ClaimNothing, ClaimRefused, ClaimNext,
                  Claimable, Launch, Register, ReadCancelled, Dispatch, reportContext,
                  ExecutorReturns, FinishDecide, FinishCommit, FinishRow, OwnsRow,
                  ReleaseReservation, Deregister
    <2>3. ASSUME Start \/ Stop \/ Exit
          PROVE  state'[o] = state[o]
      BY <2>3 DEF Start, Stop, Exit, Interrupted, Lost, Replayed
    <2>4. ASSUME UNCHANGED vars PROVE state'[o] = state[o]
      BY <2>4 DEF vars
    <2>5. QED
      BY <1>1, <2>1, <2>2, <2>3, <2>4 DEF Next
  <1>2. TypeOK /\ [Next]_vars => [\A o \in Op : state[o] \in Final => state'[o] = state[o]]_vars
    BY <1>1
  <1>3. QED
    BY <1>2, TypeCorrect, PTL DEF Spec, FinalStaysFinal

(* Only the attempt that holds a row finishes it: no request settles or     *)
(* requeues a row that is running, a claim needs a queued one, and a worker *)
(* finishes only a row whose attempt is its own (finishContext).            *)
THEOREM AttemptFinishesItsOwnRow == Spec => OnlyTheAttemptFinishes
  <1>. DEFINE Allowed(o) == \/ phase = "down"
                           \/ \E w \in Worker : pc[w] = "committing" /\ job[w] = o
                                                 /\ mine[w] = attempt[o]
  <1>1. ASSUME TypeOK, [Next]_vars, NEW o \in Op, state[o] \in Active,
               state'[o] \in {"succeeded", "failed", "queued"}
        PROVE  Allowed(o)
    <2>. USE <1>1 DEF TypeOK, rowVars
    <2>1. ASSUME NEW c \in Client, RequestProgress(c) \/ \E p \in Op : Request(c, p)
          PROVE  FALSE
      <3>1. ASSUME NEW p \in Op, Submit(c, p) PROVE FALSE
        BY <3>1 DEF Submit
      <3>2. ASSUME CancelTx(c) PROVE FALSE
        BY <3>2 DEF CancelTx, CancelRow, CancelMatches
      <3>3. ASSUME RetryTx(c) PROVE FALSE
        BY <3>3 DEF RetryTx
      <3>4. ASSUME \/ \E p \in Op : CancelRead(c, p) \/ RetryRead(c, p)
                   \/ Wake(c) \/ CancelMissed(c) \/ CancelNotify(c)
            PROVE  FALSE
        BY <3>4 DEF CancelRead, RetryRead, Wake, CancelMissed, CancelNotify
      <3>5. QED
        BY <2>1, <3>1, <3>2, <3>3, <3>4 DEF Request, RequestProgress
    <2>2. ASSUME NEW w \in Worker, WorkerProgress(w) \/ reportContext(w)
          PROVE  Allowed(o)
      <3>1. ASSUME FinishCommit(w) PROVE Allowed(o)
        <4>1. pc[w] = "committing" /\ job[w] = o /\ mine[w] = attempt[o]
          BY <3>1 DEF FinishCommit, FinishRow, OwnsRow
        <4>2. QED
          BY <4>1
      <3>2. ASSUME NEW p \in Op, ClaimNext(w, p) PROVE FALSE
        BY <3>2 DEF ClaimNext, Claimable
      <3>3. ASSUME ~FinishCommit(w), ~\E p \in Op : ClaimNext(w, p) PROVE FALSE
        BY <2>2, <3>3 DEF WorkerProgress, WorkerWake, WorkerExit, ClaimNothing, ClaimRefused,
               Launch, Register, ReadCancelled, Dispatch, reportContext, ExecutorReturns,
               FinishDecide, ReleaseReservation, Deregister
      <3>4. QED
        BY <3>1, <3>2, <3>3
    <2>3. ASSUME Start \/ Stop \/ Exit
          PROVE  phase = "down"
      BY <2>3 DEF Start, Stop, Exit
    <2>4. ASSUME UNCHANGED vars PROVE FALSE
      BY <2>4 DEF vars
    <2>5. QED
      BY <1>1, <2>1, <2>2, <2>3, <2>4 DEF Next
  <1>2. TypeOK /\ [Next]_vars =>
          [\A o \in Op : state[o] \in Active /\ state'[o] \in {"succeeded", "failed", "queued"}
             => \/ phase = "down"
                \/ \E w \in Worker : pc[w] = "committing" /\ job[w] = o
                                      /\ mine[w] = attempt[o]]_vars
    BY <1>1
  <1>3. QED
    BY <1>2, TypeCorrect, PTL DEF Spec, OnlyTheAttemptFinishes

----------------------------------------------------------------------------
(* The reservations.  A claim adds a holder or, when its answer is lost, a  *)
(* leak; a run gives back once, what its claim took; and a process that is  *)
(* gone has neither.                                                        *)

NobodyWorksDown == phase = "down" => \A w \in Worker : pc[w] = "exited"

ReservationsInv == NobodyWorksDown /\ ReservationsMatchRuns

(* The counts in terms of Units; a lemma about Units applies to either side *)
(* of a step.                                                               *)
BudgetIn(r) == [w \in Worker |-> Budget[job[w]][r]]
LeakIn(r) == [o \in Op |-> leaked[o] * Budget[o][r]]
OpsOf(b) == {o \in Op : OpBase[o] = b}

LEMMA HeldIsUnits ==
    ASSUME NEW r
    PROVE  HeldUnits(r) = Units(Holders, BudgetIn(r)) /\ LeakedUnits(r) = Units(Op, LeakIn(r))
  BY DEF HeldUnits, LeakedUnits, Units, BudgetIn, LeakIn, Holders

LEMMA SlotsAreUnits ==
    ASSUME NEW b PROVE LeakedSlots(b) = Units(OpsOf(b), leaked)
  BY DEF LeakedSlots, Units, OpsOf

LEMMA ReservationsStart == Init => ReservationsInv
  <1>. SUFFICES ASSUME Init PROVE ReservationsInv
    OBVIOUS
  <1>1. Holders = {}
    BY DEF Init, Holders, Holding
  <1>2. ASSUME NEW b \in Base
        PROVE  perBase[b] = Cardinality(HoldersOf(b)) + Cardinality(LeakedSlots(b))
    <2>1. HoldersOf(b) = {} /\ perBase[b] = 0
      BY <1>1 DEF Init, HoldersOf
    <2>2. \A o \in OpsOf(b) : leaked[o] = 0
      BY DEF Init, OpsOf
    <2>3. QED
      BY <2>1, <2>2, NoUnits, SlotsAreUnits, FS_EmptySet
  <1>3. ASSUME NEW r \in Resource
        PROVE  bytes[r] = Cardinality(HeldUnits(r)) + Cardinality(LeakedUnits(r))
    <2>1. \A o \in Op : LeakIn(r)[o] = 0
      BY BudgetAssumption DEF Init, LeakIn
    <2>2. bytes[r] = 0 /\ \A w \in Holders : BudgetIn(r)[w] = 0
      BY <1>1 DEF Init
    <2>3. QED
      BY <2>1, <2>2, NoUnits, HeldIsUnits
  <1>4. QED
    BY <1>2, <1>3 DEF ReservationsInv, ReservationsMatchRuns, NobodyWorksDown, Init

LEMMA CountsAreTyped ==
    ASSUME TypeOK, NEW r \in Resource
    PROVE  /\ IsFiniteSet(Holders)
           /\ \A w \in Holders : job[w] \in Op /\ BudgetIn(r)[w] \in Nat
           /\ \A o \in Op : LeakIn(r)[o] \in Nat /\ leaked[o] \in Nat /\ Budget[o][r] \in Nat
  <1>1. IsFiniteSet(Holders)
    BY OpAssumption, FS_Subset DEF Holders
  <1>2. \A w \in Holders : w \in Worker /\ job[w] \in Op
    BY DEF Holders, Holding, TypeOK
  <1>3. \A o \in Op : leaked[o] \in Nat /\ Budget[o][r] \in Nat
    BY BudgetAssumption DEF TypeOK
  <1>4. \A o \in Op : leaked[o] * Budget[o][r] \in Nat
    BY <1>3
  <1>5. QED
    BY <1>1, <1>2, <1>3, <1>4 DEF BudgetIn, LeakIn

\* A step that leaves the counters, the leaks and who holds what alone.
LEMMA ReservationsUntouched ==
    ASSUME ReservationsMatchRuns, UNCHANGED memVars, Holders' = Holders,
           \A w \in Holders : job'[w] = job[w]
    PROVE  ReservationsMatchRuns'
  <1>1. ASSUME NEW b \in Base
        PROVE  HoldersOf(b)' = HoldersOf(b) /\ LeakedSlots(b)' = LeakedSlots(b)
    BY DEF HoldersOf, LeakedSlots, memVars
  <1>2. ASSUME NEW r \in Resource
        PROVE  HeldUnits(r)' = HeldUnits(r) /\ LeakedUnits(r)' = LeakedUnits(r)
    BY DEF HeldUnits, LeakedUnits, memVars
  <1>3. QED
    BY <1>1, <1>2 DEF ReservationsMatchRuns, memVars

\* A claim that is answered makes its worker a holder.
LEMMA ClaimAddsHolder ==
    ASSUME TypeOK, ReservationsMatchRuns, NEW w \in Worker, NEW o \in Op,
           w \notin Holders, Holders' = Holders \cup {w},
           job' = [job EXCEPT ![w] = o], reserve(o), leaked' = leaked
    PROVE  ReservationsMatchRuns'
  <1>0. \A v \in Holders : job'[v] = job[v]
    BY DEF TypeOK, Holders
  <1>1. ASSUME NEW b \in Base
        PROVE  perBase'[b] = Cardinality(HoldersOf(b)') + Cardinality(LeakedSlots(b)')
    <2>1. LeakedSlots(b)' = LeakedSlots(b)
      BY DEF LeakedSlots
    <2>2. HoldersOf(b)' = IF OpBase[o] = b THEN HoldersOf(b) \cup {w} ELSE HoldersOf(b)
      BY <1>0 DEF HoldersOf, TypeOK
    <2>3. IsFiniteSet(HoldersOf(b)) /\ w \notin HoldersOf(b)
      BY OpAssumption, FS_Subset DEF HoldersOf, Holders
    <2>4. Cardinality(HoldersOf(b)) \in Nat /\ Cardinality(LeakedSlots(b)) \in Nat
      <3>1. IsFiniteSet(OpsOf(b)) /\ \A p \in OpsOf(b) : leaked[p] \in Nat
        BY OpAssumption, FS_Subset DEF OpsOf, TypeOK
      <3>2. QED
        BY <2>3, <3>1, SlotsAreUnits, UnitsAreFinite, FS_CardinalityType
    <2>5. perBase'[b] = IF OpBase[o] = b THEN perBase[b] + 1 ELSE perBase[b]
      BY DEF reserve
    <2>6. Cardinality(HoldersOf(b)') =
            IF OpBase[o] = b THEN Cardinality(HoldersOf(b)) + 1 ELSE Cardinality(HoldersOf(b))
      BY <2>2, <2>3, FS_AddElement
    <2>7. perBase[b] = Cardinality(HoldersOf(b)) + Cardinality(LeakedSlots(b))
      BY DEF ReservationsMatchRuns
    <2>8. QED
      BY <2>1, <2>4, <2>5, <2>6, <2>7
  <1>2. ASSUME NEW r \in Resource
        PROVE  bytes'[r] = Cardinality(HeldUnits(r)') + Cardinality(LeakedUnits(r)')
    <2>. DEFINE f == [v \in Worker |-> Budget[job'[v]][r]]
    <2>1. LeakedUnits(r)' = LeakedUnits(r)
      BY DEF LeakedUnits
    <2>2. f[w] = Budget[o][r] /\ \A v \in Holders : f[v] = BudgetIn(r)[v]
      BY <1>0 DEF BudgetIn, TypeOK, Holders
    <2>3. HeldUnits(r)' = Units(Holders \cup {w}, f)
      BY HeldIsUnits DEF HeldUnits, Units, Holders
    <2>. HIDE DEF f
    <2>4. HeldUnits(r) = Units(Holders, f)
      BY <2>2, HeldIsUnits, UnitsAgree
    <2>5. Cardinality(Units(Holders \cup {w}, f)) = Cardinality(Units(Holders, f)) + f[w]
      BY <2>2, CountsAreTyped, UnitsOfOneMore
    <2>6. bytes'[r] = bytes[r] + Budget[o][r]
      BY DEF reserve
    <2>7. /\ Cardinality(HeldUnits(r)) \in Nat /\ Cardinality(LeakedUnits(r)) \in Nat
          /\ Budget[o][r] \in Nat
      BY CountsAreTyped, HeldIsUnits, UnitsAreFinite, OpAssumption
    <2>8. bytes[r] = Cardinality(HeldUnits(r)) + Cardinality(LeakedUnits(r))
      BY DEF ReservationsMatchRuns
    <2>9. Cardinality(HeldUnits(r)') = Cardinality(HeldUnits(r)) + Budget[o][r]
      BY <2>2, <2>3, <2>4, <2>5
    <2>10. QED
      BY <2>1, <2>6, <2>7, <2>8, <2>9
  <1>3. QED
    BY <1>1, <1>2 DEF ReservationsMatchRuns

\* A claim whose answer is lost leaks its reservation.
LEMMA ClaimLeaks ==
    ASSUME TypeOK, ReservationsMatchRuns, NEW o \in Op, Holders' = Holders, job' = job,
           reserve(o), leaked' = [leaked EXCEPT ![o] = @ + 1]
    PROVE  ReservationsMatchRuns'
  <1>1. ASSUME NEW b \in Base
        PROVE  perBase'[b] = Cardinality(HoldersOf(b)') + Cardinality(LeakedSlots(b)')
    <2>1. HoldersOf(b)' = HoldersOf(b)
      BY DEF HoldersOf
    <2>2. IsFiniteSet(HoldersOf(b)) /\ Cardinality(HoldersOf(b)) \in Nat
      BY OpAssumption, FS_Subset, FS_CardinalityType DEF HoldersOf, Holders
    <2>3. /\ IsFiniteSet(OpsOf(b)) /\ LeakedSlots(b) = Units(OpsOf(b), leaked)
          /\ \A p \in OpsOf(b) : leaked[p] \in Nat /\ leaked'[p] \in Nat
          /\ \A p \in OpsOf(b) \ {o} : leaked'[p] = leaked[p]
          /\ leaked'[o] = leaked[o] + 1 /\ leaked[o] \in Nat
      BY OpAssumption, FS_Subset, SlotsAreUnits DEF OpsOf, TypeOK
    <2>4. LeakedSlots(b)' = Units(OpsOf(b), leaked')
      BY DEF LeakedSlots, Units, OpsOf
    <2>5. Cardinality(LeakedSlots(b)) \in Nat /\ Cardinality(LeakedSlots(b)') \in Nat
      BY <2>3, <2>4, UnitsAreFinite
    <2>6. perBase[b] = Cardinality(HoldersOf(b)) + Cardinality(LeakedSlots(b))
      BY DEF ReservationsMatchRuns
    <2>7. CASE OpBase[o] = b
      <3>1. o \in OpsOf(b) /\ perBase'[b] = perBase[b] + 1
        BY <2>7 DEF OpsOf, reserve
      <3>2. Cardinality(LeakedSlots(b)') + leaked[o] = Cardinality(LeakedSlots(b)) + leaked'[o]
        <4>. DEFINE f == leaked
                    g == leaked'
        <4>1. /\ IsFiniteSet(OpsOf(b)) /\ o \in OpsOf(b)
              /\ \A p \in OpsOf(b) : f[p] \in Nat /\ g[p] \in Nat
              /\ \A p \in OpsOf(b) \ {o} : g[p] = f[p]
          BY <2>3, <3>1
        <4>2. LeakedSlots(b) = Units(OpsOf(b), f) /\ LeakedSlots(b)' = Units(OpsOf(b), g)
          BY <2>3, <2>4
        <4>3. Cardinality(Units(OpsOf(b), g)) + f[o] = Cardinality(Units(OpsOf(b), f)) + g[o]
          <5>. HIDE DEF f, g
          <5>. QED BY <4>1, UnitsOfMore
        <4>4. QED
          BY <4>2, <4>3
      <3>3. QED
        BY <2>1, <2>2, <2>3, <2>5, <2>6, <3>1, <3>2
    <2>8. CASE OpBase[o] # b
      <3>1. o \notin OpsOf(b) /\ perBase'[b] = perBase[b]
        BY <2>8 DEF OpsOf, reserve
      <3>2. LeakedSlots(b)' = LeakedSlots(b)
        BY <2>3, <2>4, <3>1, UnitsAgree
      <3>3. QED
        BY <2>1, <2>6, <3>1, <3>2
    <2>9. QED
      BY <2>7, <2>8
  <1>2. ASSUME NEW r \in Resource
        PROVE  bytes'[r] = Cardinality(HeldUnits(r)') + Cardinality(LeakedUnits(r)')
    <2>. DEFINE g == [p \in Op |-> leaked'[p] * Budget[p][r]]
    <2>1. HeldUnits(r)' = HeldUnits(r)
      BY DEF HeldUnits
    <2>2. /\ \A p \in Op : leaked[p] \in Nat /\ Budget[p][r] \in Nat /\ leaked'[p] \in Nat
          /\ \A p \in Op \ {o} : leaked'[p] = leaked[p]
          /\ leaked'[o] = leaked[o] + 1
      <3>1. \A p \in Op : Budget[p][r] \in Nat
        BY BudgetAssumption
      <3>2. leaked \in [Op -> Nat]
        BY DEF TypeOK
      <3>3. QED
        BY <3>1, <3>2
    <2>3. \A n, k \in Nat : n * k \in Nat /\ (n + 1) * k = n * k + k
      OBVIOUS
    <2>4. g[o] = LeakIn(r)[o] + Budget[o][r] /\ LeakIn(r)[o] \in Nat
      BY <2>2, <2>3 DEF LeakIn
    <2>5. /\ \A p \in Op : g[p] \in Nat /\ LeakIn(r)[p] \in Nat
          /\ \A p \in Op \ {o} : g[p] = LeakIn(r)[p]
      BY <2>2, <2>3 DEF LeakIn
    <2>6. LeakedUnits(r)' = Units(Op, g)
      BY DEF LeakedUnits, Units
    <2>. HIDE DEF g
    <2>7. Cardinality(Units(Op, g)) + LeakIn(r)[o] = Cardinality(Units(Op, LeakIn(r))) + g[o]
      BY <2>5, OpAssumption, UnitsOfMore
    <2>8. /\ Cardinality(LeakedUnits(r)) \in Nat /\ Cardinality(LeakedUnits(r)') \in Nat
          /\ Cardinality(HeldUnits(r)) \in Nat /\ LeakedUnits(r) = Units(Op, LeakIn(r))
      BY <2>5, <2>6, OpAssumption, CountsAreTyped, HeldIsUnits, UnitsAreFinite
    <2>9. Cardinality(LeakedUnits(r)') = Cardinality(LeakedUnits(r)) + Budget[o][r]
      BY <2>2, <2>4, <2>6, <2>7, <2>8
    <2>10. /\ bytes[r] = Cardinality(HeldUnits(r)) + Cardinality(LeakedUnits(r))
           /\ bytes'[r] = bytes[r] + Budget[o][r]
      BY DEF ReservationsMatchRuns, reserve
    <2>11. QED
      BY <2>1, <2>2, <2>8, <2>9, <2>10
  <1>3. QED
    BY <1>1, <1>2 DEF ReservationsMatchRuns

\* A run that gives back what its claim took is no holder any more.
LEMMA ReleaseRemovesHolder ==
    ASSUME TypeOK, ReservationsMatchRuns, NEW w \in Holders,
           Holders' = Holders \ {w}, job' = job, release(job[w]), leaked' = leaked
    PROVE  ReservationsMatchRuns'
  <1>. DEFINE H == Holders \ {w}
              o == job[w]
  <1>0. w \in Worker /\ o \in Op /\ Holders = H \cup {w} /\ w \notin H /\ H \subseteq Worker
    BY DEF Holders, Holding, TypeOK
  <1>1. ASSUME NEW b \in Base
        PROVE  perBase'[b] = Cardinality(HoldersOf(b)') + Cardinality(LeakedSlots(b)')
    <2>1. LeakedSlots(b)' = LeakedSlots(b)
      BY DEF LeakedSlots
    <2>2. /\ HoldersOf(b)' = HoldersOf(b) \ {w}
          /\ w \in HoldersOf(b) <=> OpBase[o] = b
      BY DEF HoldersOf
    <2>3. IsFiniteSet(HoldersOf(b))
      BY OpAssumption, FS_Subset DEF HoldersOf, Holders
    <2>4. Cardinality(HoldersOf(b)) \in Nat /\ Cardinality(LeakedSlots(b)) \in Nat
      <3>1. IsFiniteSet(OpsOf(b)) /\ \A p \in OpsOf(b) : leaked[p] \in Nat
        BY OpAssumption, FS_Subset DEF OpsOf, TypeOK
      <3>2. QED
        BY <2>3, <3>1, SlotsAreUnits, UnitsAreFinite, FS_CardinalityType
    <2>5. perBase'[b] = IF OpBase[o] = b THEN Less(perBase[b], 1) ELSE perBase[b]
      BY DEF release
    <2>6. Cardinality(HoldersOf(b)') =
            IF OpBase[o] = b THEN Cardinality(HoldersOf(b)) - 1 ELSE Cardinality(HoldersOf(b))
      BY <2>2, <2>3, FS_RemoveElement
    <2>7. OpBase[o] = b => Cardinality(HoldersOf(b)) # 0
      BY <2>2, <2>3, FS_EmptySet
    <2>8. perBase[b] = Cardinality(HoldersOf(b)) + Cardinality(LeakedSlots(b))
      BY DEF ReservationsMatchRuns
    <2>9. QED
      BY <2>1, <2>4, <2>5, <2>6, <2>7, <2>8 DEF Less
  <1>2. ASSUME NEW r \in Resource
        PROVE  bytes'[r] = Cardinality(HeldUnits(r)') + Cardinality(LeakedUnits(r)')
    <2>1. LeakedUnits(r)' = LeakedUnits(r)
      BY DEF LeakedUnits
    <2>2. HeldUnits(r)' = Units(H, BudgetIn(r)) /\ HeldUnits(r) = Units(Holders, BudgetIn(r))
      BY HeldIsUnits DEF HeldUnits, Units, BudgetIn, Holders
    <2>3. BudgetIn(r)[w] = Budget[o][r] /\ IsFiniteSet(H) /\ \A v \in H : BudgetIn(r)[v] \in Nat
      BY <1>0, CountsAreTyped, FS_Subset DEF BudgetIn
    <2>. HIDE DEF H
    <2>4. Cardinality(Units(H \cup {w}, BudgetIn(r))) =
            Cardinality(Units(H, BudgetIn(r))) + BudgetIn(r)[w]
      BY <1>0, <2>3, CountsAreTyped, UnitsOfOneMore
    <2>5. /\ Cardinality(Units(H, BudgetIn(r))) \in Nat /\ Cardinality(LeakedUnits(r)) \in Nat
          /\ Budget[o][r] \in Nat
      BY <1>0, <2>3, CountsAreTyped, HeldIsUnits, UnitsAreFinite, OpAssumption
    <2>6. /\ bytes[r] = Cardinality(HeldUnits(r)) + Cardinality(LeakedUnits(r))
          /\ bytes'[r] = Less(bytes[r], Budget[o][r])
      BY DEF ReservationsMatchRuns, release
    <2>7. Cardinality(HeldUnits(r)) = Cardinality(HeldUnits(r)') + Budget[o][r]
      BY <1>0, <2>2, <2>3, <2>4
    <2>8. QED
      BY <2>1, <2>2, <2>5, <2>6, <2>7 DEF Less
  <1>3. QED
    BY <1>1, <1>2 DEF ReservationsMatchRuns

\* The steps of API requests have no part in the reservations.
LEMMA RequestReserves ==
    ASSUME ReservationsInv, NEW c \in Client,
           RequestProgress(c) \/ \E o \in Op : Request(c, o)
    PROVE  ReservationsInv'
  <1>1. UNCHANGED <<pc, job, memVars, phase>>
    BY DEF RequestProgress, Request, Submit, Wake, CancelRead, CancelTx, CancelMissed,
           CancelNotify, RetryRead, RetryTx, runVars, procVars
  <1>2. QED
    BY <1>1, ReservationsUntouched DEF ReservationsInv, NobodyWorksDown, Holders

\* A worker reserves when it claims and releases once, when its run is over.
LEMMA WorkerReserves ==
    ASSUME TypeOK, ReservationsInv, NEW w \in Worker, WorkerProgress(w) \/ reportContext(w)
    PROVE  ReservationsInv'
  <1>. USE DEF ReservationsInv
  <1>1. phase # "down" /\ phase' = phase
    BY DEF WorkerProgress, WorkerWake, WorkerExit, ClaimNothing, ClaimRefused, ClaimNext, Launch,
           Register, ReadCancelled, Dispatch, reportContext, ExecutorReturns, FinishDecide,
           FinishCommit, ReleaseReservation, Deregister, procVars, NobodyWorksDown
  <1>2. ASSUME NEW o \in Op, ClaimNext(w, o) PROVE ReservationsMatchRuns'
    <2>1. /\ pc[w] = "claim" /\ w \notin Holders /\ reserve(o)
      BY <1>2 DEF ClaimNext, Holders, Holding
    <2>2. PICK res \in WriteOutcome \ {"refused"} :
            /\ Go(w, IF res = "ok" THEN "claimed" ELSE "idle")
            /\ job' = IF res = "ok" THEN [job EXCEPT ![w] = o] ELSE job
            /\ leaked' = IF Unknown(res) THEN [leaked EXCEPT ![o] = @ + 1] ELSE leaked
      BY <1>2 DEF ClaimNext
    <2>3. CASE res = "ok"
      <3>1. Holders' = Holders \cup {w} /\ job' = [job EXCEPT ![w] = o] /\ leaked' = leaked
        BY <2>1, <2>2, <2>3 DEF Holders, Holding, Go, Unknown, TypeOK
      <3>2. QED
        BY <2>1, <3>1, ClaimAddsHolder
    <2>4. CASE res # "ok"
      <3>1. Holders' = Holders /\ job' = job /\ leaked' = [leaked EXCEPT ![o] = @ + 1]
        BY <2>1, <2>2, <2>4 DEF Holders, Holding, Go, Unknown, WriteOutcome, TypeOK
      <3>2. QED
        BY <2>1, <3>1, ClaimLeaks
    <2>5. QED
      BY <2>3, <2>4
  <1>3. ASSUME ReleaseReservation(w) PROVE ReservationsMatchRuns'
    <2>1. /\ w \in Holders /\ release(job[w]) /\ leaked' = leaked /\ job' = job
          /\ Holders' = Holders \ {w}
      BY <1>3 DEF ReleaseReservation, Holders, Holding, Go, idleVars, TypeOK
    <2>2. QED
      BY <2>1, ReleaseRemovesHolder
  <1>4. ASSUME UNCHANGED memVars, pc' = [pc EXCEPT ![w] = pc'[w]],
               pc[w] \in Holding <=> pc'[w] \in Holding,
               \A v \in Holders : job'[v] = job[v]
        PROVE  ReservationsMatchRuns'
    <2>1. Holders' = Holders
      BY <1>4 DEF Holders, TypeOK
    <2>2. QED
      BY <1>4, <2>1, ReservationsUntouched
  <1>5. ASSUME WorkerWake(w) \/ WorkerExit(w) \/ ClaimNothing(w) \/ ClaimRefused(w)
        PROVE  ReservationsMatchRuns'
    BY <1>4, <1>5 DEF WorkerWake, WorkerExit, ClaimNothing, ClaimRefused, Go, Holding, idleVars,
                      TypeOK
  <1>6. ASSUME Launch(w) \/ Register(w) \/ ReadCancelled(w) \/ Dispatch(w) \/ reportContext(w)
        PROVE  ReservationsMatchRuns'
    BY <1>4, <1>6 DEF Launch, Register, ReadCancelled, Dispatch, reportContext, Go, Holding,
                      TypeOK
  <1>7. ASSUME ExecutorReturns(w) \/ FinishDecide(w) \/ FinishCommit(w)
        PROVE  ReservationsMatchRuns'
    BY <1>4, <1>7 DEF ExecutorReturns, FinishDecide, FinishCommit, Go, Holding, TypeOK
  <1>8. ASSUME Deregister(w) PROVE ReservationsMatchRuns'
    BY <1>4, <1>8 DEF Deregister, AfterRun, Go, Holding, Holders, TypeOK
  <1>9. ReservationsMatchRuns'
    BY <1>2, <1>3, <1>5, <1>6, <1>7, <1>8 DEF WorkerProgress
  <1>10. QED
    BY <1>1, <1>9 DEF NobodyWorksDown

\* A process that goes forgets its reservations and its runs together.
LEMMA ProcessReserves ==
    ASSUME TypeOK, ReservationsInv, Start \/ Stop \/ Exit
    PROVE  ReservationsInv'
  <1>. USE DEF ReservationsInv
  <1>1. CASE Start
    <2>1. Holders = {} /\ Holders' = {} /\ UNCHANGED memVars /\ phase' # "down"
      BY <1>1 DEF Start, AllRest, Holders, Holding, NobodyWorksDown
    <2>2. QED
      BY <2>1, ReservationsUntouched DEF NobodyWorksDown
  <1>2. CASE Stop
    BY <1>2, ReservationsUntouched DEF Stop, Holders, NobodyWorksDown
  <1>3. CASE Exit
    <2>1. Holders' = {} /\ NobodyWorksDown'
      BY <1>3 DEF Exit, AllRest, Holders, Holding, NobodyWorksDown
    <2>2. ASSUME NEW b \in Base
          PROVE  perBase'[b] = Cardinality(HoldersOf(b)') + Cardinality(LeakedSlots(b)')
      <3>. DEFINE f == leaked'
      <3>1. HoldersOf(b)' = {} /\ perBase'[b] = 0 /\ \A o \in OpsOf(b) : f[o] = 0
        BY <1>3, <2>1 DEF HoldersOf, Exit, OpsOf
      <3>2. LeakedSlots(b)' = Units(OpsOf(b), f)
        BY DEF LeakedSlots, Units, OpsOf
      <3>. HIDE DEF f
      <3>3. QED
        BY <3>1, <3>2, NoUnits, FS_EmptySet
    <2>3. ASSUME NEW r \in Resource
          PROVE  bytes'[r] = Cardinality(HeldUnits(r)') + Cardinality(LeakedUnits(r)')
      <3>. DEFINE f == [o \in Op |-> leaked'[o] * Budget[o][r]]
      <3>1. \A o \in Op : f[o] = 0
        BY <1>3, BudgetAssumption DEF Exit
      <3>2. LeakedUnits(r)' = Units(Op, f)
        BY DEF LeakedUnits, Units
      <3>. DEFINE g == [w \in Holders' |-> Budget[job'[w]][r]]
      <3>3. bytes'[r] = 0 /\ HeldUnits(r)' = Units(Holders', g)
        BY <1>3 DEF Exit, HeldUnits, Units
      <3>. HIDE DEF g
      <3>4. Cardinality(HeldUnits(r)') = 0
        BY <2>1, <3>3, NoUnits
      <3>. HIDE DEF f
      <3>5. QED
        BY <3>1, <3>2, <3>3, <3>4, NoUnits
    <2>4. QED
      BY <2>1, <2>2, <2>3 DEF ReservationsMatchRuns
  <1>4. QED
    BY <1>1, <1>2, <1>3

LEMMA StepReserves == TypeOK /\ ReservationsInv /\ [Next]_vars => ReservationsInv'
  <1>1. CASE UNCHANGED vars
    BY <1>1, ReservationsUntouched
       DEF vars, runVars, procVars, ReservationsInv, NobodyWorksDown, Holders
  <1>2. CASE Next
    BY <1>2, RequestReserves, WorkerReserves, ProcessReserves DEF Next
  <1>3. QED
    BY <1>1, <1>2

(* The scheduler's counters are those of the workers inside run, and of the *)
(* claims whose answer was lost: reserve and release are paired on every    *)
(* path through claimNext and run.                                          *)
THEOREM ReservationsAreExact == Spec => []ReservationsMatchRuns
  <1>1. Spec => []ReservationsInv
    BY TypeCorrect, ReservationsStart, StepReserves, PTL DEF Spec
  <1>2. ReservationsInv => ReservationsMatchRuns
    BY DEF ReservationsInv
  <1>3. QED
    BY <1>1, <1>2, PTL

----------------------------------------------------------------------------
\* What the reservations are for.

\* The runs of a base and the bytes of all runs stay within what was configured.
RunsWithinLimits ==
    /\ \A b \in Base : Cardinality(HoldersOf(b)) <= MaxPerBase
    /\ \A r \in Resource : Cardinality(HeldUnits(r)) <= Limit[r]

CountersWithinLimits ==
    /\ \A b \in Base : perBase[b] <= MaxPerBase
    /\ \A r \in Resource : bytes[r] <= Limit[r]

LEMMA CountersStayWithin ==
    ASSUME TypeOK, CountersWithinLimits, [Next]_vars
    PROVE  CountersWithinLimits'
  <1>. USE BudgetAssumption, BoundAssumption
  <1>1. ASSUME UNCHANGED <<perBase, bytes>> PROVE CountersWithinLimits'
    BY <1>1 DEF CountersWithinLimits
  <1>2. ASSUME NEW w \in Worker, NEW o \in Op, ClaimNext(w, o) PROVE CountersWithinLimits'
    <2>1. CanReserve(o) /\ reserve(o)
      BY <1>2 DEF ClaimNext
    <2>2. ASSUME NEW b \in Base PROVE perBase'[b] <= MaxPerBase
      <3>1. perBase[b] \in Nat /\ perBase[b] <= MaxPerBase
        BY DEF TypeOK, CountersWithinLimits
      <3>2. CASE OpBase[o] = b
        BY <2>1, <3>1, <3>2, OpAssumption DEF CanReserve, reserve
      <3>3. CASE OpBase[o] # b
        BY <2>1, <3>1, <3>3 DEF reserve
      <3>4. QED
        BY <3>2, <3>3
    <2>3. ASSUME NEW r \in Resource PROVE bytes'[r] <= Limit[r]
      BY <2>1 DEF CanReserve, reserve
    <2>4. QED
      BY <2>2, <2>3 DEF CountersWithinLimits
  <1>3. ASSUME NEW w \in Worker, ReleaseReservation(w) PROVE CountersWithinLimits'
    <2>1. release(job[w]) /\ job[w] \in Op
      BY <1>3 DEF ReleaseReservation, TypeOK
    <2>2. \A n, k \in Nat : Less(n, k) <= n
      BY DEF Less
    <2>3. ASSUME NEW b \in Base PROVE perBase'[b] <= MaxPerBase
      <3>1. perBase[b] \in Nat /\ perBase[b] <= MaxPerBase
        BY DEF TypeOK, CountersWithinLimits
      <3>2. QED
        BY <2>1, <3>1 DEF release, Less
    <2>4. ASSUME NEW r \in Resource PROVE bytes'[r] <= Limit[r]
      <3>1. /\ bytes[r] \in Nat /\ bytes[r] <= Limit[r]
            /\ Budget[job[w]][r] \in Nat /\ Limit[r] \in Nat
        BY <2>1 DEF TypeOK, CountersWithinLimits
      <3>2. QED
        BY <2>1, <3>1 DEF release, Less
    <2>5. QED
      BY <2>3, <2>4 DEF CountersWithinLimits
  <1>4. CASE Exit
    BY <1>4 DEF Exit, CountersWithinLimits
  <1>5. CASE Start \/ Stop \/ UNCHANGED vars
    BY <1>1, <1>5 DEF Start, Stop, vars, memVars
  <1>6. ASSUME NEW c \in Client, RequestProgress(c) \/ \E o \in Op : Request(c, o)
        PROVE  CountersWithinLimits'
    BY <1>1, <1>6 DEF RequestProgress, Request, Submit, Wake, CancelRead, CancelTx, CancelMissed,
                      CancelNotify, RetryRead, RetryTx, memVars
  <1>7. ASSUME NEW w \in Worker, WorkerProgress(w) \/ reportContext(w)
        PROVE  CountersWithinLimits'
    BY <1>1, <1>2, <1>3, <1>7
       DEF WorkerProgress, WorkerWake, WorkerExit, ClaimNothing, ClaimRefused, Launch, Register,
           ReadCancelled, Dispatch, reportContext, ExecutorReturns, FinishDecide, FinishCommit,
           Deregister, memVars
  <1>8. QED
    BY <1>4, <1>5, <1>6, <1>7 DEF Next

(* However claims, lost answers and releases interleave, the commands in    *)
(* run never take more slots of a base or more bytes than the limits allow  *)
(* (canReserve under the scheduler's lock, claimNext, run).                 *)
THEOREM RunsStayWithinLimits == Spec => []RunsWithinLimits
  <1>1. Init => CountersWithinLimits
    BY BudgetAssumption, BoundAssumption DEF Init, CountersWithinLimits
  <1>2. Spec => []CountersWithinLimits
    BY <1>1, TypeCorrect, CountersStayWithin, PTL DEF Spec
  <1>3. TypeOK /\ ReservationsMatchRuns /\ CountersWithinLimits => RunsWithinLimits
    <2>. SUFFICES ASSUME TypeOK, ReservationsMatchRuns, CountersWithinLimits
                  PROVE  RunsWithinLimits
      OBVIOUS
    <2>1. ASSUME NEW b \in Base PROVE Cardinality(HoldersOf(b)) <= MaxPerBase
      <3>1. /\ IsFiniteSet(OpsOf(b)) /\ \A p \in OpsOf(b) : leaked[p] \in Nat
            /\ IsFiniteSet(HoldersOf(b))
        BY OpAssumption, FS_Subset DEF OpsOf, HoldersOf, Holders, TypeOK
      <3>2. Cardinality(HoldersOf(b)) \in Nat /\ Cardinality(LeakedSlots(b)) \in Nat
        BY <3>1, SlotsAreUnits, UnitsAreFinite, FS_CardinalityType
      <3>3. QED
        BY <3>2, BoundAssumption DEF ReservationsMatchRuns, CountersWithinLimits
    <2>2. ASSUME NEW r \in Resource PROVE Cardinality(HeldUnits(r)) <= Limit[r]
      <3>1. Cardinality(HeldUnits(r)) \in Nat /\ Cardinality(LeakedUnits(r)) \in Nat
        BY CountsAreTyped, HeldIsUnits, UnitsAreFinite, OpAssumption
      <3>2. QED
        BY <3>1, BudgetAssumption DEF ReservationsMatchRuns, CountersWithinLimits
    <2>3. QED
      BY <2>1, <2>2 DEF RunsWithinLimits
  <1>4. QED
    BY <1>2, <1>3, TypeCorrect, ReservationsAreExact, PTL

-----------------------------------------------------------------------------
(***************************************************************************)
(* The queue implements OperationLifecycle.                                 *)
(***************************************************************************)
Step == [Lifecycle!Next]_(Lifecycle!vars)

\* The abstract row of o moves and every other one stays.
MovesTo(o, to) == \A p \in Op : StatusOf(p)' = IF p = o THEN to ELSE StatusOf(p)
HoldsTo(o, to) == \A p \in Op : HolderOf(p)' = IF p = o THEN to ELSE HolderOf(p)
RowsStay == \A p \in Op : StatusOf(p)' = StatusOf(p)
HoldersStay == \A p \in Op : HolderOf(p)' = HolderOf(p)

LEMMA Moving ==
    ASSUME NEW o \in Op, NEW from, NEW to, StatusOf(o) \in from, MovesTo(o, to)
    PROVE  Lifecycle!Moves(o, from, to)
  BY DEF MovesTo, Lifecycle!Moves

LEMMA HoldingOn ==
    ASSUME NEW o \in Op, NEW from, NEW to, HolderOf(o) \in from, HoldsTo(o, to)
    PROVE  Lifecycle!Holds(o, from, to)
  BY DEF HoldsTo, Lifecycle!Holds

LEMMA RowsStaying == RowsStay => [o \in Op |-> StatusOf(o)]' = [o \in Op |-> StatusOf(o)]
  BY DEF RowsStay
LEMMA HoldersStaying == HoldersStay => [o \in Op |-> HolderOf(o)]' = [o \in Op |-> HolderOf(o)]
  BY DEF HoldersStay

LEMMA Unseen == RowsStay /\ HoldersStay /\ attempt' = attempt => Step
  BY RowsStaying, HoldersStaying DEF Step, Lifecycle!vars

LEMMA RowFrame == state' = state => RowsStay
  BY DEF RowsStay, StatusOf

\* What holds an operation depends on the workers that own it.
LEMMA HolderFrame ==
    ASSUME NEW o \in Op,
           \A w \in Worker : \/ pc'[w] = pc[w] /\ job'[w] = job[w]
                             \/ /\ pc[w] \in Owning => job[w] # o
                                /\ pc'[w] \in Owning => job'[w] # o
    PROVE  HolderOf(o)' = HolderOf(o)
  BY DEF HolderOf, Owning

LEMMA RunFrame == pc' = pc /\ job' = job => HoldersStay
  BY HolderFrame DEF HoldersStay

(* While the process is down no worker is at work: only the table carries   *)
(* over to the next start.                                                  *)
AllExited == \A w \in Worker : pc[w] = "exited"
DownIsIdle == phase = "down" => AllExited

LEMMA InitRefines == Init => Lifecycle!Init
  <1>. SUFFICES ASSUME Init PROVE Lifecycle!Init
    OBVIOUS
  <1>1. \A o \in Op : StatusOf(o) = "absent" /\ HolderOf(o) = "none"
    BY DEF Init, StatusOf, HolderOf, Owning
  <1>2. QED
    BY <1>1 DEF Init, Lifecycle!Init

\* A request changes the row of one operation and no holder.
LEMMA RequestRefines ==
    ASSUME TypeOK, NEW c \in Client, RequestProgress(c) \/ \E o \in Op : Request(c, o)
    PROVE  Step
  <1>. USE DEF TypeOK, rowVars, runVars
  <1>1. ASSUME NEW o \in Op, Submit(c, o) PROVE Step
    <2>1. HoldersStay /\ attempt' = attempt
      BY <1>1, RunFrame DEF Submit
    <2>2. CASE state' = state
      BY <2>1, <2>2, RowFrame, Unseen
    <2>3. CASE state' # state
      <3>1. StatusOf(o) \in {"absent"} /\ MovesTo(o, "queued")
        BY <1>1, <2>3 DEF Submit, StatusOf, MovesTo
      <3>2. Lifecycle!Accept(o)
        BY <2>1, <3>1, Moving, HoldersStaying DEF Lifecycle!Accept
      <3>3. QED
        BY <3>2 DEF Step, Lifecycle!Next
    <2>4. QED
      BY <2>2, <2>3
  <1>2. ASSUME CancelTx(c) PROVE Step
    <2>. DEFINE o == callOp[c]
    <2>1. HoldersStay /\ attempt' = attempt /\ o \in Op
      BY <1>2, RunFrame DEF CancelTx
    <2>2. CASE state' = state
      BY <2>1, <2>2, RowFrame, Unseen
    <2>3. CASE state' # state
      <3>1. state[o] \in {"queued", "running"}
        BY <1>2, <2>3 DEF CancelTx, CancelMatches
      <3>2. \E s \in {"cancelling", "cancelled"} : state' = [state EXCEPT ![o] = s]
        BY <1>2, <2>3 DEF CancelTx, CancelRow
      <3>3. \E s \in {"owned", "cancelled"} : MovesTo(o, s)
        BY <2>1, <3>2 DEF MovesTo, StatusOf
      <3>4. Lifecycle!Cancel(o)
        BY <2>1, <3>1, <3>3, Moving, HoldersStaying DEF Lifecycle!Cancel, StatusOf
      <3>5. QED
        BY <2>1, <3>4 DEF Step, Lifecycle!Next
    <2>4. QED
      BY <2>2, <2>3
  <1>3. ASSUME RetryTx(c) PROVE Step
    <2>. DEFINE o == callOp[c]
    <2>1. HoldersStay /\ attempt' = attempt /\ o \in Op
      BY <1>3, RunFrame DEF RetryTx
    <2>2. CASE state' = state
      BY <2>1, <2>2, RowFrame, Unseen
    <2>3. CASE state' # state
      <3>1. StatusOf(o) \in {"open"} /\ MovesTo(o, "queued")
        BY <1>3, <2>1, <2>3 DEF RetryTx, StatusOf, MovesTo
      <3>2. Lifecycle!Retry(o)
        BY <2>1, <3>1, Moving, HoldersStaying DEF Lifecycle!Retry
      <3>3. QED
        BY <2>1, <3>2 DEF Step, Lifecycle!Next
    <2>4. QED
      BY <2>2, <2>3
  <1>4. ASSUME \/ \E o \in Op : CancelRead(c, o) \/ RetryRead(c, o)
               \/ Wake(c) \/ CancelMissed(c) \/ CancelNotify(c)
        PROVE  Step
    <2>1. state' = state /\ attempt' = attempt /\ pc' = pc /\ job' = job
      BY <1>4 DEF CancelRead, RetryRead, Wake, CancelMissed, CancelNotify
    <2>2. QED
      BY <2>1, RowFrame, RunFrame, Unseen
  <1>5. QED
    BY <1>1, <1>2, <1>3, <1>4 DEF Request, RequestProgress

(* A worker claims a queued row that nobody holds, executes and lets go of  *)
(* an operation it alone holds, and finishes one that nobody holds.         *)
LEMMA WorkerRefines ==
    ASSUME TypeOK, ExclusiveClaim, NEW w \in Worker, WorkerProgress(w) \/ reportContext(w)
    PROVE  Step
  <1>. USE DEF TypeOK, rowVars, runVars, idleVars, Go
  <1>1. ASSUME state' = state, attempt' = attempt, job' = job,
               \A v \in Worker \ {w} : pc'[v] = pc[v],
               pc[w] \notin Owning, pc'[w] \notin Owning
        PROVE  Step
    <2>1. HoldersStay
      BY <1>1, HolderFrame DEF HoldersStay
    <2>2. QED
      BY <1>1, <2>1, RowFrame, Unseen
  <1>2. ASSUME \/ WorkerWake(w) \/ WorkerExit(w) \/ ClaimNothing(w) \/ ClaimRefused(w)
               \/ FinishDecide(w) \/ ReleaseReservation(w)
        PROVE  Step
    BY <1>1, <1>2 DEF WorkerWake, WorkerExit, ClaimNothing, ClaimRefused, FinishDecide,
                      ReleaseReservation, Owning
  <1>3. ASSUME NEW o \in Op, ClaimNext(w, o) PROVE Step
    <2>1. state[o] = "queued" /\ pc[w] = "claim"
      BY <1>3 DEF ClaimNext, Claimable
    <2>2. \A v \in Worker : pc[v] \in Owning => job[v] # o
      BY <2>1 DEF ExclusiveClaim
    <2>3. HolderOf(o) = "none"
      BY <2>2 DEF HolderOf, Owning
    <2>4. CASE state' = state
      <3>1. attempt' = attempt /\ job' = job /\ pc' = [pc EXCEPT ![w] = "idle"]
        BY <1>3, <2>1, <2>4 DEF ClaimNext, Committed
      <3>2. QED
        BY <1>1, <2>1, <2>4, <3>1 DEF Owning
    <2>5. CASE state' # state
      <3>1. /\ state' = [state EXCEPT ![o] = "running"]
            /\ attempt' = [attempt EXCEPT ![o] = attempt[o] + 1]
        BY <1>3, <2>5 DEF ClaimNext
      <3>2. Lifecycle!Moves(o, {"queued"}, "owned")
        BY <2>1, <3>1, Moving DEF StatusOf, MovesTo
      <3>3. \E h \in {"none", "claimed"} : HoldsTo(o, h)
        <4>1. CASE pc'[w] = "claimed"
          <5>1. pc' = [pc EXCEPT ![w] = "claimed"] /\ job' = [job EXCEPT ![w] = o]
            BY <1>3, <4>1 DEF ClaimNext
          <5>2. \A p \in Op \ {o} : HolderOf(p)' = HolderOf(p)
            BY <2>1, <5>1, HolderFrame DEF Owning
          <5>3. HolderOf(o)' = "claimed"
            BY <2>2, <5>1 DEF HolderOf, Owning
          <5>4. QED
            BY <5>2, <5>3 DEF HoldsTo
        <4>2. CASE pc'[w] # "claimed"
          <5>1. pc' = [pc EXCEPT ![w] = "idle"] /\ job' = job
            BY <1>3, <4>2 DEF ClaimNext
          <5>2. HoldersStay
            BY <2>1, <5>1, HolderFrame DEF HoldersStay, Owning
          <5>3. QED
            BY <2>3, <5>2 DEF HoldersStay, HoldsTo
        <4>3. QED
          BY <4>1, <4>2
      <3>4. Lifecycle!Claim(o)
        BY <2>3, <3>1, <3>2, <3>3, HoldingOn DEF Lifecycle!Claim
      <3>5. QED
        BY <3>4 DEF Step, Lifecycle!Next
    <2>6. QED
      BY <2>4, <2>5
  <1>4. ASSUME Launch(w) \/ Register(w) \/ reportContext(w) PROVE Step
    <2>1. state' = state /\ attempt' = attempt /\ job' = job
      BY <1>4 DEF Launch, Register, reportContext
    <2>2. \/ pc' = pc
          \/ /\ pc[w] \in {"claimed", "launched"}
             /\ \E at \in {"launched", "registered"} : pc' = [pc EXCEPT ![w] = at]
      BY <1>4 DEF Launch, Register, reportContext
    <2>3. HoldersStay
      BY <2>1, <2>2 DEF HoldersStay, HolderOf, Owning
    <2>4. QED
      BY <2>1, <2>3, RowFrame, Unseen
  <1>5. ASSUME Dispatch(w) PROVE Step
    <2>. DEFINE o == job[w]
    <2>1. /\ state' = state /\ attempt' = attempt /\ job' = job /\ o \in Op
          /\ pc[w] = "registered" /\ pc' = [pc EXCEPT ![w] = "executing"]
      BY <1>5 DEF Dispatch
    <2>2. \A v \in Worker \ {w} : pc[v] \in Owning => job[v] # o
      BY <2>1 DEF ExclusiveClaim, Owning
    <2>3. HolderOf(o) = "claimed"
      BY <2>1, <2>2 DEF HolderOf, Owning
    <2>4. \A p \in Op \ {o} : HolderOf(p)' = HolderOf(p)
      BY <2>1, HolderFrame
    <2>5. HolderOf(o)' = "executing"
      BY <2>1 DEF HolderOf
    <2>6. Lifecycle!Execute(o)
      BY <2>1, <2>3, <2>4, <2>5, HoldingOn, RowFrame, RowsStaying DEF Lifecycle!Execute, HoldsTo
    <2>7. QED
      BY <2>1, <2>6 DEF Step, Lifecycle!Next
  <1>6. ASSUME ReadCancelled(w) \/ ExecutorReturns(w) PROVE Step
    <2>. DEFINE o == job[w]
    <2>1. /\ state' = state /\ attempt' = attempt /\ job' = job /\ o \in Op
          /\ pc[w] \in {"registered", "executing"} /\ pc' = [pc EXCEPT ![w] = "finishing"]
      BY <1>6 DEF ReadCancelled, ExecutorReturns
    <2>2. \A v \in Worker \ {w} : pc[v] \in Owning => job[v] # o
      BY <2>1 DEF ExclusiveClaim, Owning
    <2>3. HolderOf(o) \in {"claimed", "executing"}
      BY <2>1 DEF HolderOf, Owning
    <2>4. \A p \in Op \ {o} : HolderOf(p)' = HolderOf(p)
      BY <2>1, HolderFrame
    <2>5. HolderOf(o)' = "none"
      BY <2>1, <2>2 DEF HolderOf, Owning
    <2>6. Lifecycle!LetGo(o)
      BY <2>1, <2>3, <2>4, <2>5, HoldingOn, RowFrame, RowsStaying DEF Lifecycle!LetGo, HoldsTo
    <2>7. QED
      BY <2>1, <2>6 DEF Step, Lifecycle!Next
  <1>7. ASSUME FinishCommit(w) PROVE Step
    <2>. DEFINE o == job[w]
    <2>1. /\ attempt' = attempt /\ job' = job /\ o \in Op /\ pc[w] = "committing"
          /\ \E at \in {"finishing", "releasing"} : pc' = [pc EXCEPT ![w] = at]
      BY <1>7 DEF FinishCommit
    <2>2. CASE state' = state
      BY <1>1, <2>1, <2>2 DEF Owning
    <2>3. CASE state' # state
      <3>1. OwnsRow(w)
        BY <1>7, <2>3 DEF FinishCommit
      <3>2. \E s \in {"queued", "succeeded", "cancelled", "interrupted", "failed"} :
               state' = [state EXCEPT ![o] = s]
        BY <1>7, <2>3 DEF FinishCommit, FinishRow, Verdict
      <3>3. \A v \in Worker : pc[v] \in Owning => job[v] # o
        BY <2>1, <3>1 DEF ExclusiveClaim, OwnsRow, Owning, Finishing
      <3>4. HolderOf(o) = "none"
        BY <3>3 DEF HolderOf, Owning
      <3>5. HoldersStay
        BY <2>1, HolderFrame DEF HoldersStay, Owning
      <3>6. \E s \in {"queued", "open", "succeeded", "cancelled"} : MovesTo(o, s)
        BY <2>1, <3>2 DEF MovesTo, StatusOf
      <3>7. StatusOf(o) = "owned"
        BY <3>1 DEF OwnsRow, StatusOf
      <3>8. Lifecycle!Finish(o)
        BY <2>1, <3>4, <3>5, <3>6, <3>7, Moving, HoldersStaying DEF Lifecycle!Finish
      <3>9. QED
        BY <2>1, <3>8 DEF Step, Lifecycle!Next
    <2>4. QED
      BY <2>2, <2>3
  <1>8. ASSUME Deregister(w) PROVE Step
    <2>1. /\ state' = state /\ attempt' = attempt /\ pc[w] = "deregister"
          /\ \A v \in Worker \ {w} : pc'[v] = pc[v] /\ job'[v] = job[v]
          /\ pc'[w] \in {"exited", "claim"}
      BY <1>8 DEF Deregister, AfterRun
    <2>2. HoldersStay
      BY <2>1, HolderFrame DEF HoldersStay, Owning
    <2>3. QED
      BY <2>1, <2>2, RowFrame, Unseen
  <1>9. QED
    BY <1>2, <1>3, <1>4, <1>5, <1>6, <1>7, <1>8 DEF WorkerProgress

\* A process that starts or is gone has no holder.
LEMMA ProcessRefines ==
    ASSUME TypeOK, phase = "down" => AllExited,
           Start \/ Stop \/ Exit
    PROVE  Step
  <1>. USE DEF TypeOK, rowVars, runVars
  <1>1. ASSUME Start PROVE Step
    <2>1. /\ \A o \in Op : HolderOf(o) = "none" /\ HolderOf(o)' = "none"
          /\ attempt' = attempt
      BY <1>1 DEF Start, AllRest, AllExited, HolderOf, Owning
    <2>2. \A o \in Op : StatusOf(o)' # StatusOf(o) =>
             /\ StatusOf(o) \in {"owned", "open"}
             /\ StatusOf(o)' \in {"queued", "open", "cancelled"}
      BY <1>1 DEF Start, StatusOf, Interrupted, Lost, Replayed
    <2>3. \A o \in Op : StatusOf(o)' \in Lifecycle!Status
      <3>1. TypeOK'
        BY <1>1, ProcessTyped
      <3>2. QED
        BY <3>1 DEF StatusOf, Lifecycle!Status
    <2>4. HoldersStay
      BY <2>1 DEF HoldersStay
    <2>5. Lifecycle!Recover
      BY <2>1, <2>2, <2>3, <2>4, HoldersStaying DEF Lifecycle!Recover
    <2>6. QED
      BY <2>5 DEF Step, Lifecycle!Next
  <1>2. ASSUME Exit PROVE Step
    <2>1. /\ \A o \in Op : HolderOf(o)' = "none"
          /\ state' = state /\ attempt' = attempt
      BY <1>2 DEF Exit, AllRest, HolderOf, Owning
    <2>2. Lifecycle!Crash
      BY <2>1, RowFrame, RowsStaying DEF Lifecycle!Crash
    <2>3. QED
      BY <2>2 DEF Step, Lifecycle!Next
  <1>3. ASSUME Stop PROVE Step
    <2>1. state' = state /\ attempt' = attempt /\ pc' = pc /\ job' = job
      BY <1>3 DEF Stop
    <2>2. QED
      BY <2>1, RowFrame, RunFrame, Unseen
  <1>4. QED
    BY <1>1, <1>2, <1>3

LEMMA StepDownIsIdle == TypeOK /\ DownIsIdle /\ [Next]_vars => DownIsIdle'
  <1>. SUFFICES ASSUME TypeOK, DownIsIdle, [Next]_vars PROVE DownIsIdle'
    OBVIOUS
  <1>. USE DEF DownIsIdle, AllExited, TypeOK, rowVars, runVars, callVars, procVars, idleVars, Go
  <1>1. ASSUME NEW c \in Client, RequestProgress(c) \/ \E o \in Op : Request(c, o)
        PROVE  pc' = pc /\ phase' = phase
    BY <1>1 DEF Request, RequestProgress, Submit, CancelRead, RetryRead, Wake, CancelTx,
                CancelMissed, CancelNotify, RetryTx
  <1>2. ASSUME NEW w \in Worker, WorkerProgress(w) \/ reportContext(w)
        PROVE  phase' = phase /\ pc[w] # "exited"
    BY <1>2 DEF WorkerProgress, WorkerWake, WorkerExit, ClaimNothing, ClaimRefused, ClaimNext,
                Launch, Register, ReadCancelled, Dispatch, reportContext, ExecutorReturns,
                FinishDecide, FinishCommit, ReleaseReservation, Deregister
  <1>3. CASE Start \/ Stop \/ Exit
    BY <1>3 DEF Start, Stop, Exit, AllRest
  <1>4. CASE UNCHANGED vars
    BY <1>4 DEF vars
  <1>5. QED
    BY <1>1, <1>2, <1>3, <1>4 DEF Next

(* The queue implements its promise: claimNext, run, finishContext,         *)
(* CancelContext, RetryContext, Submit and recover never execute a command  *)
(* twice at a time, an attempt twice, or a command that is over, and never  *)
(* finish one that is being executed.                                       *)
THEOREM QueueImplementsLifecycle == Spec => ImplementsLifecycle
  <1>1. Init => DownIsIdle
    BY DEF Init, DownIsIdle, AllExited
  <1>2. Spec => []DownIsIdle
    BY <1>1, TypeCorrect, StepDownIsIdle, PTL DEF Spec
  <1>3. TypeOK /\ ExclusiveClaim /\ DownIsIdle /\ [Next]_vars
          => [Lifecycle!Next]_(Lifecycle!vars)
    <2>1. ASSUME TypeOK, ExclusiveClaim, DownIsIdle, Next PROVE Step
      BY <2>1, RequestRefines, WorkerRefines, ProcessRefines DEF Next, DownIsIdle
    <2>2. ASSUME UNCHANGED vars PROVE Step
      BY <2>2, RowFrame, RunFrame, Unseen DEF vars, rowVars, runVars
    <2>3. QED
      BY <2>1, <2>2 DEF Step
  <1>4. QED
    BY <1>2, <1>3, InitRefines, TypeCorrect, ClaimsAreExclusive, PTL
       DEF Spec, Lifecycle!Spec, ImplementsLifecycle

============================================================================
