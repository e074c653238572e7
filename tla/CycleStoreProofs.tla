--------------------------- MODULE CycleStoreProofs ---------------------------
(* Theorems about CycleStore, for every number of rows and every target.   *)
EXTENDS CycleStore, TLAPS

-----------------------------------------------------------------------------
(* Rows.  The provers see a row only through these facts.                  *)

\* SQL's null is no row number.
LEMMA NullIsNoRow == 0 \notin ReqIds /\ 0 \notin CycIds /\ 0 \notin SerIds
BY DEF ReqIds, CycIds, SerIds

LEMMA RowFields ==
  ASSUME TypeOK
  PROVE  /\ \A r \in ReqIds : /\ req[r].series \in SerIds \cup {0}
                              /\ req[r].slot \in Nat
                              /\ req[r].retryOf \in ReqIds \cup {0}
         /\ \A c \in CycIds : cyc[c].request \in ReqIds \cup {0}
         /\ \A s \in SerIds : /\ ser[s].target \in Nat /\ ser[s].settled \in Nat
                              /\ ser[s].pausedCycle \in CycIds \cup {0}
BY DEF TypeOK, ReqRow, CycRow, SerRow

LEMMA ReqRowUpdate ==
  ASSUME NEW row \in ReqRow, NEW st \in ReqStatus
  PROVE  [row EXCEPT !.status = st] \in ReqRow
BY DEF ReqRow

LEMMA NewReqRow ==
  ASSUME NEW s \in SerIds \cup {0}, NEW n \in Nat, NEW old \in ReqIds \cup {0}
  PROVE  [status |-> "queued", series |-> s, slot |-> n, retryOf |-> old] \in ReqRow
BY DEF ReqRow, ReqStatus

LEMMA CycRowUpdate ==
  ASSUME NEW row \in CycRow, NEW st \in CycleStatus
  PROVE  [row EXCEPT !.status = st] \in CycRow
BY DEF CycRow

LEMMA NewCycRow ==
  ASSUME NEW st \in CycleStatus, NEW r \in ReqIds \cup {0}
  PROVE  [status |-> st, request |-> r] \in CycRow
BY DEF CycRow

LEMMA SerRowUpdate ==
  ASSUME NEW row \in SerRow, NEW st \in SeriesStatus
  PROVE  /\ [row EXCEPT !.status = st] \in SerRow
         /\ \A c \in CycIds \cup {0} :
              [row EXCEPT !.status = st, !.pausedCycle = c] \in SerRow
BY DEF SerRow

LEMMA SerRowFields ==
  ASSUME NEW row \in SerRow, NEW st \in SeriesStatus, NEW n \in Nat,
         NEW c \in CycIds \cup {0}
  PROVE  [row EXCEPT !.status = st, !.settled = n, !.pausedCycle = c] \in SerRow
BY DEF SerRow

LEMMA SlotSettledType ==
  ASSUME NEW row \in SerRow
  PROVE  SlotSettled(row) \in SerRow
<1>1. row.settled + 1 \in Nat
  BY DEF SerRow
<1>2. {"auto_completed", "waiting_interval"} \subseteq SeriesStatus
  BY DEF SeriesStatus, ActiveSeries
<1> QED BY <1>1, <1>2, SerRowFields DEF SlotSettled

-----------------------------------------------------------------------------
(* Type correctness, one lemma per group of actions.                       *)

LEMMA InsertTypes ==
  ASSUME TypeOK, NEW r \in ReqIds, NEW s \in SerIds \cup {0}, NEW n \in Nat,
         NEW old \in ReqIds \cup {0}, Insert(r, s, n, old)
  PROVE  req' \in [ReqIds -> ReqRow]
BY NewReqRow DEF Insert, TypeOK

LEMMA StartSeriesTypes ==
  ASSUME TypeOK, NEW r \in ReqIds, NEW s \in SerIds, NEW t \in Nat, StartSeries(s, r, t)
  PROVE  TypeOK'
<1>1. [status |-> "running", target |-> t, settled |-> 0, pausedCycle |-> 0] \in SerRow
  BY DEF SerRow, SeriesStatus, ActiveSeries
<1>2. ser' \in [SerIds -> SerRow]
  BY <1>1 DEF StartSeries, TypeOK
<1>3. req' \in [ReqIds -> ReqRow]
  BY InsertTypes DEF StartSeries
<1> QED BY <1>2, <1>3 DEF StartSeries, TypeOK

\* An insert, claim or requeue keeps the tables well-typed.
LEMMA RequestTypes == TypeOK /\ Requests => TypeOK'
<1> SUFFICES ASSUME TypeOK, Requests PROVE TypeOK'
  OBVIOUS
<1>a. {"queued", "dispatching"} \subseteq ReqStatus /\ "running" \in SeriesStatus
  BY DEF ReqStatus, SeriesStatus, ActiveSeries
<1>1. ASSUME NEW r \in ReqIds, EnqueueTriggered(r) PROVE TypeOK'
  BY <1>1, InsertTypes DEF EnqueueTriggered, TypeOK
<1>2. ASSUME NEW r \in ReqIds, ClaimNext(r) PROVE TypeOK'
  BY <1>2, <1>a, ReqRowUpdate DEF ClaimNext, TypeOK
<1>3. ASSUME NEW r \in ReqIds, RequeueClaim(r) PROVE TypeOK'
  BY <1>3, <1>a, ReqRowUpdate DEF RequeueClaim, TypeOK
<1>4. ASSUME NEW r \in ReqIds, NEW s \in SerIds, NEW t \in Targets,
             CreateAutoSeries(s, r, t) PROVE TypeOK'
  BY <1>4, StartSeriesTypes, TargetsArePositive DEF CreateAutoSeries
<1>5. ASSUME NEW r \in ReqIds, NEW s \in SerIds, RestartSeries(s, r) PROVE TypeOK'
  BY <1>5, StartSeriesTypes, RowFields DEF RestartSeries
<1>6. ASSUME NEW r \in ReqIds, NEW s \in SerIds, RetryFailed(s, r) PROVE TypeOK'
  <2> DEFINE old == cyc[ser[s].pausedCycle].request
  <2>1. old \in ReqIds /\ req[old].slot \in Nat
    BY <1>6, RowFields DEF RetryFailed
  <2>2. Insert(r, s, req[old].slot, old)
    BY <1>6 DEF RetryFailed
  <2>3. req' \in [ReqIds -> ReqRow]
    BY <2>1, <2>2, InsertTypes
  <2>4. ser' \in [SerIds -> SerRow]
    BY <1>6, <1>a, SerRowUpdate DEF RetryFailed, TypeOK
  <2> QED BY <1>6, <2>3, <2>4 DEF RetryFailed, TypeOK
<1>7. ASSUME NEW r \in ReqIds, NEW s \in SerIds, NEW p \in BOOLEAN, EnqueueDue(s, r, p)
      PROVE TypeOK'
  <2>1. ser[s].settled + 1 \in Nat
    BY RowFields
  <2>2. req' \in [ReqIds -> ReqRow]
    BY <1>7, <2>1, InsertTypes DEF EnqueueDue
  <2>3. ser' \in [SerIds -> SerRow]
    BY <1>7, <1>a, SerRowUpdate DEF EnqueueDue, TypeOK
  <2> QED BY <1>7, <2>2, <2>3 DEF EnqueueDue, TypeOK
<1>8. ASSUME NEW r \in ReqIds, NEW c \in CycIds, CreateCycle(c, r) PROVE TypeOK'
  <2>1. "queued" \in CycleStatus
    BY DEF CycleStatus
  <2> QED BY <1>8, <2>1, NewCycRow DEF CreateCycle, TypeOK
<1> QED BY <1>1, <1>2, <1>3, <1>4, <1>5, <1>6, <1>7, <1>8 DEF Requests

\* So does a slot that is consumed or given up.
LEMMA SeriesTypes == TypeOK /\ Series => TypeOK'
<1> SUFFICES ASSUME TypeOK, NEW s \in SerIds, ContinueFailed(s) \/ EndDueSeries(s)
             PROVE TypeOK'
  BY DEF Series
<1>1. CASE ContinueFailed(s)
  BY <1>1, SlotSettledType DEF ContinueFailed, TypeOK
<1>2. CASE EndDueSeries(s)
  <2>1. "auto_completed" \in SeriesStatus
    BY DEF SeriesStatus
  <2> QED BY <1>2, <2>1, SerRowUpdate DEF EndDueSeries, TypeOK
<1> QED BY <1>1, <1>2

\* So does every write for one cycle: settlement, status, decision.
LEMMA CycleTypes == TypeOK /\ Cycles => TypeOK'
<1> SUFFICES ASSUME TypeOK, Cycles PROVE TypeOK'
  OBVIOUS
<1>a. /\ {"canceled", "settled"} \subseteq ReqStatus
      /\ {"paused_interrupted", "paused_user", "running"} \subseteq SeriesStatus
      /\ {"waiting_for_user", "running", "interrupted"} \subseteq CycleStatus
      /\ {"waiting_for_user", "running", "interrupted"} \subseteq RunStatus
      /\ {"none", "collecting", "awaiting_user"} \subseteq DecisionStatus
  BY DEF ReqStatus, SeriesStatus, ActiveSeries, CycleStatus, RunStatus, DecisionStatus
<1>b. ASSUME NEW c \in CycIds, cyc[c].request # 0
      PROVE cyc[c].request \in ReqIds /\ req[cyc[c].request].series \in SerIds \cup {0}
  BY <1>b, RowFields
<1>c. ASSUME NEW c \in CycIds PROVE SeriesOf(c) \in SerIds \cup {0}
  BY RowFields DEF SeriesOf
<1>1. ASSUME NEW c \in CycIds, SettleCycle(c) PROVE TypeOK'
  <2>1. \A row \in SerRow : SeriesAfter(row, c) \in SerRow
    BY SlotSettledType, SerRowUpdate DEF SeriesAfter, SeriesStatus, ActiveSeries
  <2>2. req' \in [ReqIds -> ReqRow]
    BY <1>1, <1>a, <1>b, ReqRowUpdate DEF SettleCycle, TypeOK
  <2>3. ser' \in [SerIds -> SerRow]
    BY <1>1, <1>b, <2>1 DEF SettleCycle, TypeOK
  <2> QED BY <1>1, <2>2, <2>3 DEF SettleCycle, TypeOK
<1>2. ASSUME NEW c \in CycIds, PauseSeries(c) PROVE TypeOK'
  BY <1>2, <1>a, <1>b, SerRowUpdate DEF PauseSeries, TypeOK
<1>3. ASSUME NEW c \in CycIds, NEW a \in CycleStatus, NEW b \in RunStatus,
             SetCycleAndRun(c, a, b) PROVE TypeOK'
  BY <1>3, CycRowUpdate DEF SetCycleAndRun, TypeOK
<1>4. ASSUME NEW c \in CycIds,
             \/ Activate(c) \/ FailUnstarted(c) \/ PauseCycle(c)
             \/ \E status \in TerminalCycle : Finish(c, status)
             \/ Interrupt(c) \/ InterruptAmbiguous(c)
             \/ WaitForProvider(c) \/ \E stage \in {"add_work", "later"} : RecoverProvider(c, stage)
      PROVE TypeOK'
  <2>1. run \in RunStatus
    BY DEF TypeOK
  <2> QED BY <1>3, <1>4, <2>1 DEF Activate, FailUnstarted, PauseCycle, Finish, Interrupt,
       InterruptAmbiguous, WaitForProvider, RecoverProvider, SetCycle, CycleStatus,
       RunStatus, TerminalCycle
<1>5. ASSUME NEW c \in CycIds, DeferDecision(c) PROVE TypeOK'
  BY <1>5, <1>a DEF DeferDecision, TypeOK
<1>6. ASSUME NEW c \in CycIds, PublishDecision(c) PROVE TypeOK'
  <2>1. ser' \in [SerIds -> SerRow]
    BY <1>6, <1>a, <1>c, SerRowUpdate DEF PublishDecision, TypeOK
  <2>2. cyc' \in [CycIds -> CycRow]
    BY <1>6, <1>a, CycRowUpdate DEF PublishDecision, TypeOK
  <2> QED BY <1>6, <1>a, <2>1, <2>2 DEF PublishDecision, TypeOK
<1>7. ASSUME NEW c \in CycIds, AnswerDecision(c) PROVE TypeOK'
  <2>1. ser' \in [SerIds -> SerRow]
    BY <1>7, <1>a, <1>c, NullIsNoRow, SerRowUpdate DEF AnswerDecision, TypeOK
  <2>2. cyc' \in [CycIds -> CycRow]
    BY <1>7, <1>a, CycRowUpdate DEF AnswerDecision, TypeOK
  <2> QED BY <1>7, <1>a, <2>1, <2>2 DEF AnswerDecision, TypeOK
<1>8. ASSUME NEW c \in CycIds, RetryFailedTask(c) PROVE TypeOK'
  BY <1>8, <1>a, NewCycRow DEF RetryFailedTask, TypeOK
<1> QED BY <1>1, <1>2, <1>4, <1>5, <1>6, <1>7, <1>8 DEF Cycles

\* So does every sweep over the run: cancellation, interruption, startup repair.
LEMMA RunTypes == TypeOK /\ Runs => TypeOK'
<1> SUFFICES ASSUME TypeOK, Runs PROVE TypeOK'
  OBVIOUS
<1>a. /\ "canceled" \in ReqStatus
      /\ {"canceled", "paused_user"} \subseteq SeriesStatus
      /\ {"canceled", "interrupted", "waiting_for_user"} \subseteq CycleStatus
      /\ {"canceled", "interrupted", "waiting_for_user", "paused"} \subseteq RunStatus
      /\ {"none", "awaiting_user"} \subseteq DecisionStatus
  BY DEF ReqStatus, SeriesStatus, CycleStatus, TerminalCycle, RunStatus, DecisionStatus,
     ActiveSeries
<1>1. ASSUME CancelRun PROVE TypeOK'
  <2>1. req' \in [ReqIds -> ReqRow]
    BY <1>1, <1>a, ReqRowUpdate DEF CancelRun, TypeOK
  <2>2. cyc' \in [CycIds -> CycRow]
    BY <1>1, <1>a, CycRowUpdate DEF CancelRun, TypeOK
  <2>3. ser' \in [SerIds -> SerRow]
    BY <1>1, <1>a, SerRowUpdate DEF CancelRun, TypeOK
  <2> QED BY <1>1, <1>a, <2>1, <2>2, <2>3 DEF CancelRun, TypeOK
<1>2. ASSUME ReopenRun \/ PauseRun PROVE TypeOK'
  BY <1>2, <1>a DEF ReopenRun, PauseRun, SetRun, TypeOK
<1>3. ASSUME NEW also \in BOOLEAN, InterruptRun(also) PROVE TypeOK'
  BY <1>3, <1>a, CycRowUpdate DEF InterruptRun, TypeOK
<1>4. ASSUME NEW protected \in SUBSET CycIds, ReconcileLifecycle(protected) PROVE TypeOK'
  <2> DEFINE open == OpenDecisions(protected)
  <2>1. cyc' \in [CycIds -> CycRow]
    BY <1>4, <1>a, CycRowUpdate DEF ReconcileLifecycle, TypeOK
  <2>2. \A s \in SerIds : LastOpenOf(s, open) # {} =>
           (CHOOSE c \in LastOpenOf(s, open) : TRUE) \in CycIds
    BY DEF LastOpenOf, OpenDecisions
  <2>3. ser' \in [SerIds -> SerRow]
    <3>1. ASSUME NEW s \in SerIds, LastOpenOf(s, open) # {}
          PROVE [ser[s] EXCEPT !.status = "paused_user",
                   !.pausedCycle = CHOOSE c \in LastOpenOf(s, open) : TRUE] \in SerRow
      BY <3>1, <2>2, <1>a, SerRowUpdate DEF TypeOK
    <3> QED BY <1>4, <3>1 DEF ReconcileLifecycle, TypeOK
  <2> QED BY <1>4, <1>a, <2>1, <2>3 DEF ReconcileLifecycle, TypeOK
<1> QED BY <1>1, <1>2, <1>3, <1>4 DEF Runs

\* The four groups together, and the stuttering step.
LEMMA TypeStep == TypeOK /\ [Next]_store => TypeOK'
<1>1. TypeOK /\ UNCHANGED store => TypeOK'
  BY DEF TypeOK, store
<1> QED BY <1>1, RequestTypes, SeriesTypes, CycleTypes, RunTypes DEF Next

LEMMA StoreInit == Init => TypeOK
BY NullIsNoRow DEF Init, TypeOK, RunStatus, DecisionStatus, AbsentReq, AbsentCyc, AbsentSer,
   ReqRow, CycRow, SerRow

\* Every reachable store has well-typed rows, whatever its size: status
\* literals, row references and slot counts of every service method.
THEOREM StoreTypes == Spec => []TypeOK
BY StoreInit, TypeStep, PTL DEF Spec

-----------------------------------------------------------------------------
(* The FIFO.  Its invariant also needs that rows are inserted in order:    *)
(* a request inserted behind a dispatching one must be younger than it.    *)

QueueInv == TypeOK /\ RowsArePrefix /\ OneDispatching /\ NoOvertaking

\* What one step can do to the requests: the five writers of their status.
ReqStep ==
  \/ \E r \in ReqIds, s, n, old \in Nat : Insert(r, s, n, old)
  \/ \E r \in ReqIds : ClaimNext(r)
  \/ \E r \in ReqIds : RequeueClaim(r)
  \/ \E c \in CycIds : SettleCycle(c)
  \/ CancelRun
  \/ UNCHANGED req

LEMMA ReqSteps == TypeOK /\ [Next]_store => ReqStep
<1> SUFFICES ASSUME TypeOK, [Next]_store PROVE ReqStep
  OBVIOUS
<1>a. ReqIds \subseteq Nat /\ CycIds \subseteq Nat /\ SerIds \subseteq Nat
  BY RowBounds DEF ReqIds, CycIds, SerIds
<1>1. CASE Requests
  <2>1. ASSUME NEW r \in ReqIds, NEW s \in SerIds, NEW t \in Nat, StartSeries(s, r, t)
        PROVE ReqStep
    BY <2>1, <1>a DEF StartSeries, ReqStep
  <2>2. ASSUME NEW r \in ReqIds, EnqueueTriggered(r) PROVE ReqStep
    BY <2>2 DEF EnqueueTriggered, ReqStep
  <2>3. ASSUME NEW r \in ReqIds, NEW s \in SerIds, NEW t \in Targets,
               CreateAutoSeries(s, r, t) PROVE ReqStep
    BY <2>1, <2>3, TargetsArePositive DEF CreateAutoSeries
  <2>4. ASSUME NEW r \in ReqIds, NEW s \in SerIds, RestartSeries(s, r) PROVE ReqStep
    BY <2>1, <2>4, RowFields DEF RestartSeries
  <2>5. ASSUME NEW r \in ReqIds, NEW s \in SerIds, RetryFailed(s, r) PROVE ReqStep
    <3> DEFINE old == cyc[ser[s].pausedCycle].request
    <3>1. old \in ReqIds
      BY <2>5, RowFields DEF RetryFailed
    <3>2. Insert(r, s, req[old].slot, old)
      BY <2>5 DEF RetryFailed
    <3>3. req[old].slot \in Nat /\ old \in Nat /\ s \in Nat
      BY <3>1, <1>a, RowFields
    <3> HIDE DEF old
    <3> QED BY <3>2, <3>3 DEF ReqStep
  <2>6. ASSUME NEW r \in ReqIds, NEW s \in SerIds, NEW p \in BOOLEAN, EnqueueDue(s, r, p)
        PROVE ReqStep
    <3>1. ser[s].settled + 1 \in Nat
      BY RowFields
    <3> QED BY <2>6, <3>1, <1>a DEF EnqueueDue, ReqStep
  <2>7. ASSUME NEW r \in ReqIds, NEW c \in CycIds, CreateCycle(c, r) PROVE ReqStep
    BY <2>7 DEF CreateCycle, ReqStep
  <2> QED BY <1>1, <2>2, <2>3, <2>4, <2>5, <2>6, <2>7 DEF Requests, ReqStep
<1>2. CASE Series
  BY <1>2 DEF Series, ContinueFailed, EndDueSeries, ReqStep
<1>3. CASE Cycles
  <2>1. ASSUME NEW c \in CycIds, SettleCycle(c) PROVE ReqStep
    BY <2>1 DEF ReqStep
  <2>2. ASSUME NEW c \in CycIds,
               \/ Activate(c) \/ FailUnstarted(c) \/ PauseCycle(c)
               \/ \E status \in TerminalCycle : Finish(c, status)
               \/ Interrupt(c) \/ InterruptAmbiguous(c)
               \/ WaitForProvider(c)
               \/ \E stage \in {"add_work", "later"} : RecoverProvider(c, stage)
        PROVE UNCHANGED req
    BY <2>2 DEF Activate, FailUnstarted, PauseCycle, Finish, Interrupt, InterruptAmbiguous,
       WaitForProvider, RecoverProvider, SetCycle, SetCycleAndRun
  <2>3. ASSUME NEW c \in CycIds,
               \/ PauseSeries(c) \/ DeferDecision(c) \/ PublishDecision(c)
               \/ AnswerDecision(c) \/ RetryFailedTask(c)
        PROVE UNCHANGED req
    BY <2>3 DEF PauseSeries, DeferDecision, PublishDecision, AnswerDecision, RetryFailedTask
  <2> QED BY <1>3, <2>1, <2>2, <2>3 DEF Cycles, ReqStep
<1>4. CASE Runs
  BY <1>4 DEF Runs, ReopenRun, PauseRun, SetRun, InterruptRun, ReconcileLifecycle, ReqStep
<1>5. CASE UNCHANGED store
  BY <1>5 DEF store, ReqStep
<1> QED BY <1>1, <1>2, <1>3, <1>4, <1>5 DEF Next

\* One case per writer: only claim_next makes a request dispatching, and it
\* takes the oldest queued one while no other is dispatching.
LEMMA QueueStep == QueueInv /\ [Next]_store => QueueInv'
<1> SUFFICES ASSUME QueueInv, [Next]_store PROVE QueueInv'
  OBVIOUS
<1> USE DEF QueueInv
<1>a. TypeOK'
  BY TypeStep
<1>b. ReqStep
  BY ReqSteps
<1>c. \A r \in ReqIds : r \in Nat
  BY RowBounds DEF ReqIds
<1>d. req \in [ReqIds -> ReqRow] /\ \A row \in ReqRow, st \in STRING : [row EXCEPT !.status = st].status = st
  BY DEF TypeOK, ReqRow
<1>1. ASSUME NEW r \in ReqIds, NEW s, NEW n, NEW old, Insert(r, s, n, old)
      PROVE (RowsArePrefix /\ OneDispatching /\ NoOvertaking)'
  <2>1. req'[r].status = "queued" /\ \A q \in ReqIds \ {r} : req'[q] = req[q]
    BY <1>1, <1>d DEF Insert
  <2>2. \A q \in ReqIds : (q < r => req[q].status # "absent") /\ (r <= q => req[q].status = "absent")
    BY <1>1, <1>c, <1>d DEF Insert, NextRow, RowsArePrefix
  <2> QED BY <2>1, <2>2, <1>c DEF RowsArePrefix, OneDispatching, NoOvertaking
<1>2. ASSUME NEW r \in ReqIds, ClaimNext(r)
      PROVE (RowsArePrefix /\ OneDispatching /\ NoOvertaking)'
  <2>1. req'[r].status = "dispatching" /\ \A q \in ReqIds \ {r} : req'[q] = req[q]
    BY <1>2, <1>d DEF ClaimNext
  <2>2. /\ \A q \in ReqIds : req[q].status # "dispatching"
        /\ req[r].status = "queued" /\ \A q \in ReqIds : q < r => req[q].status # "queued"
    BY <1>2 DEF ClaimNext, NoneDispatching, OldestQueued
  <2>3. RowsArePrefix'
    BY <2>1, <2>2 DEF RowsArePrefix
  <2>4. OneDispatching'
    BY <2>1, <2>2 DEF OneDispatching
  <2>5. NoOvertaking'
    BY <2>1, <2>2, <1>c DEF NoOvertaking
  <2> QED BY <2>3, <2>4, <2>5
<1>3. ASSUME NEW r \in ReqIds, NEW st \in {"queued", "settled", "canceled"},
             req[r].status = "dispatching", req' = [req EXCEPT ![r].status = st]
      PROVE (RowsArePrefix /\ OneDispatching /\ NoOvertaking)'
  <2>1. req'[r].status = st /\ \A q \in ReqIds \ {r} : req'[q] = req[q]
    BY <1>3, <1>d
  <2> QED BY <1>3, <2>1, <1>c DEF RowsArePrefix, OneDispatching, NoOvertaking
<1>4. ASSUME CancelRun PROVE (RowsArePrefix /\ OneDispatching /\ NoOvertaking)'
  <2>1. \A r \in ReqIds : req'[r].status = IF req[r].status \in Live THEN "canceled"
                                                                   ELSE req[r].status
    BY <1>4, <1>d DEF CancelRun
  <2> QED BY <2>1, <1>c DEF Live, RowsArePrefix, OneDispatching, NoOvertaking
<1>5. ASSUME UNCHANGED req PROVE (RowsArePrefix /\ OneDispatching /\ NoOvertaking)'
  BY <1>5 DEF RowsArePrefix, OneDispatching, NoOvertaking
<1>6. ASSUME NEW c \in CycIds, SettleCycle(c)
      PROVE (RowsArePrefix /\ OneDispatching /\ NoOvertaking)'
  BY <1>3, <1>6, RowFields DEF SettleCycle
<1>7. ASSUME NEW r \in ReqIds, RequeueClaim(r)
      PROVE (RowsArePrefix /\ OneDispatching /\ NoOvertaking)'
  BY <1>3, <1>7 DEF RequeueClaim
<1> QED BY <1>a, <1>b, <1>1, <1>2, <1>4, <1>5, <1>6, <1>7 DEF ReqStep

\* However claims, requeues, settlements and cancellations interleave, a run
\* never has two requests dispatching (claim_next's promise).
THEOREM AtMostOneDispatching == Spec => []OneDispatching
<1>1. Init => QueueInv
  BY StoreInit DEF QueueInv, Init, RowsArePrefix, OneDispatching, NoOvertaking, AbsentReq
<1>2. QueueInv => OneDispatching
  BY DEF QueueInv
<1> QED BY <1>1, <1>2, QueueStep, PTL DEF Spec

\* A claimed request is older than every queued one: the FIFO order of
\* requested_at survives requeue_claim.
THEOREM ClaimsAreFifo == Spec => []NoOvertaking
<1>1. Init => QueueInv
  BY StoreInit DEF QueueInv, Init, RowsArePrefix, OneDispatching, NoOvertaking, AbsentReq
<1>2. QueueInv => NoOvertaking
  BY DEF QueueInv
<1> QED BY <1>1, <1>2, QueueStep, PTL DEF Spec

-----------------------------------------------------------------------------
(* Cycles and their requests.  A cycle that is over stays as it is unless  *)
(* it was canceled: interrupt_run may take up a canceled one.              *)

FinalCycle == TerminalCycle \ {"canceled"}

AbsentRowsAreEmpty ==
  /\ \A r \in ReqIds : req[r].status = "absent" => req[r].series = 0
  /\ \A c \in CycIds : cyc[c].status = "absent" => cyc[c].request = 0 /\ dec[c] = "none"

OneCyclePerRequest ==
  \A c, d \in CycIds : cyc[c].request # 0 /\ cyc[c].request = cyc[d].request => c = d

\* A request with a cycle has been claimed, and a settled one's cycle is over.
StartedRequest ==
  \A c \in CycIds : cyc[c].request # 0 =>
    /\ req[cyc[c].request].status \in {"dispatching", "settled", "canceled"}
    /\ req[cyc[c].request].status = "settled" => cyc[c].status \in FinalCycle

CycleInv == TypeOK /\ AbsentRowsAreEmpty /\ OneCyclePerRequest /\ StartedRequest

LEMMA RowExcept ==
  /\ \A row \in ReqRow, st \in ReqStatus :
       LET new == [row EXCEPT !.status = st]
       IN new.status = st /\ new.series = row.series /\ new.slot = row.slot
  /\ \A row \in CycRow, st \in CycleStatus :
       LET new == [row EXCEPT !.status = st]
       IN new.status = st /\ new.request = row.request
  /\ \A row \in SerRow, st \in SeriesStatus :
       LET new == [row EXCEPT !.status = st]
       IN /\ new.status = st /\ new.target = row.target /\ new.settled = row.settled
          /\ new.pausedCycle = row.pausedCycle
  /\ \A row \in SerRow, st \in SeriesStatus, p \in CycIds \cup {0} :
       LET new == [row EXCEPT !.status = st, !.pausedCycle = p]
       IN /\ new.status = st /\ new.target = row.target /\ new.settled = row.settled
          /\ new.pausedCycle = p
BY DEF ReqRow, CycRow, SerRow

\* What no step does: touch a cycle that is over, take a cycle from its
\* request, or change an absent one other than by inserting it.
CyclesKeep ==
  \A c \in CycIds :
    /\ cyc[c].status \in FinalCycle => cyc'[c] = cyc[c]
    /\ cyc[c].status # "absent" =>
         cyc'[c].status # "absent" /\ cyc'[c].request = cyc[c].request

AbsentKeep ==
  \A c \in CycIds : cyc[c].status = "absent" => cyc'[c] = cyc[c] /\ dec'[c] = dec[c]

\* create_cycle and the retry of a failed task insert a row.
OpenCycle(c, q) ==
  /\ cyc[c].status = "absent"
  /\ q # 0 => q \in ReqIds /\ req[q].status = "dispatching" /\ CycleOf(q) = {}
  /\ \E st \in CycleStatus : cyc' = [cyc EXCEPT ![c] = [status |-> st, request |-> q]]
  /\ UNCHANGED <<req, ser, dec>>

CycleStep ==
  \/ CyclesKeep /\ AbsentKeep
  \/ \E c \in CycIds, q \in ReqIds \cup {0} : OpenCycle(c, q)

\* A status write by the runtime: only to a cycle that is not over.
LEMMA CycleWrite ==
  ASSUME TypeOK, NEW c \in CycIds, cyc[c].status \notin FinalCycle \cup {"absent"},
         NEW st \in CycleStatus, cyc' = [cyc EXCEPT ![c].status = st],
         \A d \in CycIds \ {c} : dec'[d] = dec[d]
  PROVE  CyclesKeep /\ AbsentKeep
<1>1. cyc \in [CycIds -> CycRow] /\ st # "absent"
  BY DEF TypeOK, CycleStatus, TerminalCycle
<1>2. /\ \A d \in CycIds \ {c} : cyc'[d] = cyc[d]
      /\ cyc'[c].status = st /\ cyc'[c].request = cyc[c].request
  BY <1>1, RowExcept
<1> QED BY <1>1, <1>2 DEF CyclesKeep, AbsentKeep

LEMMA RuntimeWrites ==
  ASSUME TypeOK, NEW c \in CycIds,
         \/ Activate(c) \/ FailUnstarted(c) \/ PauseCycle(c)
         \/ \E status \in TerminalCycle : Finish(c, status)
         \/ Interrupt(c) \/ InterruptAmbiguous(c)
         \/ WaitForProvider(c) \/ \E stage \in {"add_work", "later"} : RecoverProvider(c, stage)
  PROVE  UNCHANGED <<req, ser, dec>> /\ CyclesKeep /\ AbsentKeep
<1>1. ASSUME NEW st \in CycleStatus, NEW b, SetCycleAndRun(c, st, b),
             cyc[c].status \notin FinalCycle \cup {"absent"}
      PROVE  UNCHANGED <<req, ser, dec>> /\ CyclesKeep /\ AbsentKeep
  BY <1>1, CycleWrite DEF SetCycleAndRun
<1>2. /\ {"queued", "running", "interrupted", "paused", "waiting_for_provider"}
           \cap (FinalCycle \cup {"absent"}) = {}
      /\ {"queued", "running", "interrupted", "paused", "waiting_for_provider", "failed"}
           \cup TerminalCycle \subseteq CycleStatus
  BY DEF FinalCycle, TerminalCycle, CycleStatus
<1> QED
  BY <1>1, <1>2 DEF Activate, Executable, FailUnstarted, PauseCycle, Finish, Interrupt,
     InterruptAmbiguous, WaitForProvider, RecoverProvider, SetCycle

LEMMA CycleSteps == CycleInv /\ [Next]_store => CycleStep
<1> SUFFICES ASSUME CycleInv, [Next]_store PROVE CycleStep
  OBVIOUS
<1> USE DEF CycleInv
<1>t. cyc \in [CycIds -> CycRow] /\ dec \in [CycIds -> DecisionStatus]
  BY DEF TypeOK
<1>s. /\ {"running", "waiting_for_user", "interrupted", "canceled"} \subseteq CycleStatus
      /\ FinalCycle = {"completed", "completed_with_failures", "blocked", "failed"}
  BY DEF CycleStatus, TerminalCycle, FinalCycle
<1>u. UNCHANGED <<cyc, dec>> => CycleStep
  BY DEF CycleStep, CyclesKeep, AbsentKeep
<1>1. CASE Requests
  <2>1. ASSUME NEW r \in ReqIds, NEW c \in CycIds, CreateCycle(c, r) PROVE CycleStep
    BY <2>1, NullIsNoRow DEF CreateCycle, NextRow, OpenCycle, CycleStep, CycleStatus
  <2>2. ASSUME NEW r \in ReqIds,
               \/ EnqueueTriggered(r) \/ ClaimNext(r) \/ RequeueClaim(r)
               \/ \E s \in SerIds : \/ \E t \in Targets : CreateAutoSeries(s, r, t)
                                    \/ RestartSeries(s, r)
                                    \/ RetryFailed(s, r)
                                    \/ \E proposed \in BOOLEAN : EnqueueDue(s, r, proposed)
        PROVE UNCHANGED <<cyc, dec>>
    BY <2>2 DEF EnqueueTriggered, ClaimNext, RequeueClaim, CreateAutoSeries, RestartSeries,
       StartSeries, RetryFailed, EnqueueDue
  <2> QED BY <1>1, <1>u, <2>1, <2>2 DEF Requests
<1>2. CASE Series
  BY <1>2, <1>u DEF Series, ContinueFailed, EndDueSeries
<1>3. CASE Cycles
  <2>1. ASSUME NEW c \in CycIds, SettleCycle(c) \/ PauseSeries(c) PROVE CycleStep
    BY <2>1, <1>u DEF SettleCycle, PauseSeries
  <2>2. ASSUME NEW c \in CycIds,
               \/ Activate(c) \/ FailUnstarted(c) \/ PauseCycle(c)
               \/ \E status \in TerminalCycle : Finish(c, status)
               \/ Interrupt(c) \/ InterruptAmbiguous(c)
               \/ WaitForProvider(c)
               \/ \E stage \in {"add_work", "later"} : RecoverProvider(c, stage)
        PROVE CycleStep
    BY <2>2, RuntimeWrites DEF CycleStep
  <2>3. ASSUME NEW c \in CycIds, cyc[c].status = "running", DeferDecision(c) PROVE CycleStep
    BY <2>3, <1>t DEF DeferDecision, CycleStep, CyclesKeep, AbsentKeep
  <2>4. ASSUME NEW c \in CycIds, PublishDecision(c) \/ AnswerDecision(c) PROVE CycleStep
    <3>1. cyc[c].status \in {"running", "waiting_for_user"}
      BY <2>4 DEF PublishDecision, CanPublish, AnswerDecision
    <3>2. /\ \E st \in CycleStatus : cyc' = [cyc EXCEPT ![c].status = st]
          /\ \A d \in CycIds \ {c} : dec'[d] = dec[d]
      BY <2>4, <1>t, <1>s DEF PublishDecision, AnswerDecision
    <3> QED BY <3>1, <3>2, <1>s, CycleWrite DEF CycleStep
  <2>5. ASSUME NEW c \in CycIds, RetryFailedTask(c) PROVE CycleStep
    BY <2>5, <1>s DEF RetryFailedTask, NextRow, OpenCycle, CycleStep
  <2> QED BY <1>3, <2>1, <2>2, <2>3, <2>4, <2>5 DEF Cycles
<1>4. CASE Runs
  <2>1. ASSUME NEW S \in SUBSET CycIds, NEW st \in CycleStatus,
               \A c \in S : cyc[c].status \notin FinalCycle \cup {"absent"},
               cyc' = [c \in CycIds |-> IF c \in S THEN [cyc[c] EXCEPT !.status = st] ELSE cyc[c]],
               \A c \in CycIds : cyc[c].status = "absent" => dec'[c] = dec[c]
        PROVE CycleStep
    <3>1. \A c \in CycIds :
            IF c \in S THEN cyc'[c].status = st /\ cyc'[c].request = cyc[c].request
                       ELSE cyc'[c] = cyc[c]
      <4> TAKE c \in CycIds
      <4>1. cyc'[c] = IF c \in S THEN [cyc[c] EXCEPT !.status = st] ELSE cyc[c]
        BY <2>1
      <4>2. cyc[c] \in CycRow
        BY <1>t
      <4> QED BY <4>1, <4>2, RowExcept
    <3>2. st # "absent"
      BY DEF CycleStatus, TerminalCycle
    <3> QED BY <2>1, <3>1, <3>2 DEF CycleStep, CyclesKeep, AbsentKeep
  <2>2. ASSUME CancelRun PROVE CycleStep
    <3> DEFINE S == {c \in CycIds : cyc[c].request # 0 /\ cyc[c].status \in CanceledWithRun}
    <3>1. cyc' = [c \in CycIds |-> IF c \in S THEN [cyc[c] EXCEPT !.status = "canceled"]
                                              ELSE cyc[c]]
      BY <2>2 DEF CancelRun
    <3>2. \A c \in S : cyc[c].status \notin FinalCycle \cup {"absent"}
      BY <1>s DEF CanceledWithRun
    <3>3. \A c \in CycIds : cyc[c].status = "absent" => dec'[c] = dec[c]
      BY <2>2, <1>t DEF CancelRun, AbsentRowsAreEmpty
    <3> QED BY <2>1, <3>1, <3>2, <3>3, <1>s
  <2>3. ASSUME NEW also \in BOOLEAN, InterruptRun(also) PROVE CycleStep
    <3> DEFINE who == {"running"} \cup (IF also THEN {"canceled"} ELSE {})
               S == {c \in CycIds : InterruptedCycle(who, c)}
    <3>1. cyc' = [c \in CycIds |-> IF c \in S THEN [cyc[c] EXCEPT !.status = "interrupted"]
                                              ELSE cyc[c]]
      BY <2>3 DEF InterruptRun
    <3>2. \A c \in S : cyc[c].status \notin FinalCycle \cup {"absent"}
      BY <1>s DEF InterruptedCycle
    <3>3. dec' = dec
      BY <2>3 DEF InterruptRun
    <3> QED BY <2>1, <3>1, <3>2, <3>3, <1>s
  <2>4. ASSUME NEW protected \in SUBSET CycIds, ReconcileLifecycle(protected) PROVE CycleStep
    <3> DEFINE open == OpenDecisions(protected)
               S == {c \in CycIds : c \in open /\ cyc[c].status \notin TerminalCycle}
    <3>1. cyc' = [c \in CycIds |-> IF c \in S
                    THEN [cyc[c] EXCEPT !.status = "waiting_for_user"] ELSE cyc[c]]
      BY <2>4 DEF ReconcileLifecycle
    <3>2. \A c \in S : cyc[c].status \notin FinalCycle \cup {"absent"}
      BY DEF FinalCycle, OpenDecisions, AbsentRowsAreEmpty
    <3>3. \A c \in CycIds : cyc[c].status = "absent" => dec'[c] = dec[c]
      BY <2>4, <1>t DEF ReconcileLifecycle, OpenDecisions, AbsentRowsAreEmpty
    <3> QED BY <2>1, <3>1, <3>2, <3>3, <1>s
  <2>5. ASSUME ReopenRun \/ PauseRun PROVE CycleStep
    BY <2>5, <1>u DEF ReopenRun, PauseRun, SetRun
  <2> QED BY <1>4, <2>2, <2>3, <2>4, <2>5 DEF Runs
<1>5. CASE UNCHANGED store
  BY <1>5, <1>u DEF store
<1> QED BY <1>1, <1>2, <1>3, <1>4, <1>5 DEF Next

\* What no step does to a request: change one that is over, move one to another
\* slot, requeue one with a cycle, or settle one whose cycle is not over.
ReqsKeep ==
  \A r \in ReqIds :
    /\ req[r].status # "absent" => /\ req'[r].status # "absent"
                                   /\ req'[r].series = req[r].series
                                   /\ req'[r].slot = req[r].slot
    /\ req[r].status \in {"settled", "canceled"} => req'[r] = req[r]
    /\ req[r].status = "dispatching" =>
         \/ req'[r].status \in {"dispatching", "canceled"}
         \/ req'[r].status = "settled" /\ cyc' = cyc
            /\ \E c \in CycIds : cyc[c].request = r /\ cyc[c].status \in FinalCycle
         \/ req'[r].status = "queued" /\ cyc' = cyc /\ CycleOf(r) = {}

LEMMA ReqKeepSteps == TypeOK /\ [Next]_store => ReqsKeep
<1> SUFFICES ASSUME TypeOK, [Next]_store PROVE ReqsKeep
  OBVIOUS
<1>t. req \in [ReqIds -> ReqRow] /\ ReqStatus = {"queued", "dispatching", "settled", "canceled"}
  BY DEF TypeOK, ReqStatus
<1>w. ASSUME NEW r \in ReqIds, NEW st \in ReqStatus, req' = [req EXCEPT ![r].status = st]
      PROVE  /\ \A q \in ReqIds \ {r} : req'[q] = req[q]
             /\ req'[r].status = st /\ req'[r].series = req[r].series
             /\ req'[r].slot = req[r].slot
  BY <1>w, <1>t, RowExcept
<1>1. ASSUME NEW r \in ReqIds, NEW s, NEW n, NEW old, Insert(r, s, n, old) PROVE ReqsKeep
  <2>1. req[r].status = "absent" /\ \A q \in ReqIds \ {r} : req'[q] = req[q]
    BY <1>1, <1>t DEF Insert, NextRow
  <2> QED BY <2>1 DEF ReqsKeep
<1>2. ASSUME NEW r \in ReqIds, ClaimNext(r) PROVE ReqsKeep
  BY <1>2, <1>t, <1>w DEF ClaimNext, OldestQueued, ReqsKeep
<1>3. ASSUME NEW r \in ReqIds, RequeueClaim(r) PROVE ReqsKeep
  BY <1>3, <1>t, <1>w DEF RequeueClaim, ReqsKeep
<1>4. ASSUME NEW c \in CycIds, SettleCycle(c) PROVE ReqsKeep
  <2> DEFINE r == cyc[c].request
             st == IF cyc[c].status = "canceled" THEN "canceled" ELSE "settled"
  <2>1. r \in ReqIds /\ st \in ReqStatus /\ req[r].status = "dispatching" /\ cyc' = cyc
    BY <1>4, <1>t, RowFields DEF SettleCycle
  <2>2. req' = [req EXCEPT ![r].status = st]
    BY <1>4 DEF SettleCycle
  <2>3. st = "settled" => cyc[c].status \in FinalCycle
    BY <1>4 DEF SettleCycle, FinalCycle
  <2> QED BY <2>1, <2>2, <2>3, <1>w, <1>t DEF ReqsKeep
<1>5. ASSUME CancelRun PROVE ReqsKeep
  <2>1. \A r \in ReqIds : IF req[r].status \in Live
                          THEN /\ req'[r].status = "canceled"
                               /\ req'[r].series = req[r].series /\ req'[r].slot = req[r].slot
                          ELSE req'[r] = req[r]
    <3> TAKE r \in ReqIds
    <3>1. req'[r] = IF req[r].status \in Live THEN [req[r] EXCEPT !.status = "canceled"]
                                              ELSE req[r]
      BY <1>5 DEF CancelRun
    <3> QED BY <3>1, <1>t, RowExcept
  <2> QED BY <2>1 DEF ReqsKeep, Live
<1>6. ASSUME UNCHANGED req PROVE ReqsKeep
  BY <1>6 DEF ReqsKeep
<1> QED BY <1>1, <1>2, <1>3, <1>4, <1>5, <1>6, ReqSteps DEF ReqStep

\* An absent request stays as it is, or is inserted.
LEMMA ReqAbsentSteps ==
  ASSUME TypeOK, [Next]_store, NEW r \in ReqIds, req[r].status = "absent"
  PROVE  req'[r] = req[r] \/ req'[r].status = "queued"
<1>t. req \in [ReqIds -> ReqRow] /\ ReqStatus = {"queued", "dispatching", "settled", "canceled"}
  BY DEF TypeOK, ReqStatus
<1>1. ASSUME NEW q \in ReqIds, NEW s, NEW n, NEW old, Insert(q, s, n, old)
      PROVE req'[r] = req[r] \/ req'[r].status = "queued"
  BY <1>1, <1>t DEF Insert
<1>2. ASSUME \/ \E q \in ReqIds : ClaimNext(q) \/ RequeueClaim(q)
             \/ \E c \in CycIds : SettleCycle(c)
             \/ CancelRun
             \/ UNCHANGED req
      PROVE req'[r] = req[r]
  BY <1>2, <1>t DEF ClaimNext, OldestQueued, RequeueClaim, SettleCycle, CancelRun, Live
<1> QED BY <1>1, <1>2, ReqSteps DEF ReqStep

\* One case for each way a cycle can change.
LEMMA CycleInvStep == CycleInv /\ [Next]_store => CycleInv'
<1> SUFFICES ASSUME CycleInv, [Next]_store PROVE CycleInv'
  OBVIOUS
<1> USE DEF CycleInv
<1>a. TypeOK' /\ CycleStep /\ ReqsKeep
  BY TypeStep, CycleSteps, ReqKeepSteps
<1>b. \A r \in ReqIds : req'[r].status = "absent" => req'[r].series = 0
  BY <1>a, ReqAbsentSteps DEF AbsentRowsAreEmpty, ReqsKeep
<1>c. \A c \in CycIds : cyc[c].request \in ReqIds \cup {0}
  BY RowFields
<1>1. ASSUME CyclesKeep, AbsentKeep
      PROVE (AbsentRowsAreEmpty /\ OneCyclePerRequest /\ StartedRequest)'
  <2>1. \A c \in CycIds : cyc'[c].request = cyc[c].request
    BY <1>1 DEF CyclesKeep, AbsentKeep
  <2>2. AbsentRowsAreEmpty'
    BY <1>1, <1>b DEF AbsentRowsAreEmpty, CyclesKeep, AbsentKeep
  <2>3. OneCyclePerRequest'
    BY <2>1 DEF OneCyclePerRequest
  <2>4. ASSUME NEW c \in CycIds, cyc'[c].request # 0
        PROVE /\ req'[cyc'[c].request].status \in {"dispatching", "settled", "canceled"}
              /\ req'[cyc'[c].request].status = "settled" => cyc'[c].status \in FinalCycle
    <3> DEFINE r == cyc[c].request
    <3>1. r \in ReqIds /\ r # 0 /\ r = cyc'[c].request /\ c \in CycleOf(r)
      BY <2>1, <2>4, <1>c DEF CycleOf, AbsentRowsAreEmpty
    <3>2. /\ req[r].status \in {"dispatching", "settled", "canceled"}
          /\ req[r].status = "settled" => cyc[c].status \in FinalCycle
      BY <3>1 DEF StartedRequest
    <3>3. CASE req[r].status \in {"settled", "canceled"}
      BY <3>1, <3>2, <3>3, <1>a, <1>1 DEF ReqsKeep, CyclesKeep
    <3>4. CASE req[r].status = "dispatching"
      <4>1. ASSUME NEW d \in CycIds, cyc[d].request = r PROVE d = c
        BY <3>1, <4>1 DEF OneCyclePerRequest, CycleOf
      <4> QED BY <3>1, <3>4, <4>1, <1>a DEF ReqsKeep
    <3> QED BY <3>2, <3>3, <3>4
  <2> QED BY <2>2, <2>3, <2>4 DEF StartedRequest
<1>2. ASSUME NEW c \in CycIds, NEW q \in ReqIds \cup {0}, OpenCycle(c, q)
      PROVE (AbsentRowsAreEmpty /\ OneCyclePerRequest /\ StartedRequest)'
  <2>1. /\ cyc'[c].request = q /\ cyc'[c].status # "absent"
        /\ \A d \in CycIds \ {c} : cyc'[d] = cyc[d]
        /\ dec' = dec /\ req' = req
    BY <1>2 DEF OpenCycle, TypeOK, CycleStatus, TerminalCycle
  <2>2. q # 0 => req[q].status = "dispatching" /\ \A d \in CycIds : cyc[d].request # q
    BY <1>2, NullIsNoRow DEF OpenCycle, CycleOf, AbsentRowsAreEmpty
  <2> QED BY <1>b, <2>1, <2>2 DEF AbsentRowsAreEmpty, OneCyclePerRequest, StartedRequest
<1> QED BY <1>a, <1>1, <1>2 DEF CycleStep

LEMMA CycleInvInit == Init => CycleInv
BY StoreInit DEF Init, CycleInv, AbsentRowsAreEmpty, OneCyclePerRequest, StartedRequest,
   AbsentReq, AbsentCyc

\* Whatever a later resume, shutdown, cancellation or startup repair does, a
\* request that settled keeps its row, and its cycle its final status.
THEOREM SettledStaysSettled == Spec => SettledWorkIsFinal
<1> DEFINE Final == \A r \in ReqIds : req[r].status = "settled" =>
                      /\ req'[r] = req[r]
                      /\ \A c \in CycleOf(r) : cyc'[c] = cyc[c] /\ cyc[c].status \in TerminalCycle
<1>1. CycleInv /\ [Next]_store => Final
  <2> SUFFICES ASSUME CycleInv, [Next]_store, NEW r \in ReqIds, req[r].status = "settled",
                      NEW c \in CycleOf(r)
               PROVE  /\ req'[r] = req[r]
                      /\ cyc'[c] = cyc[c] /\ cyc[c].status \in TerminalCycle
    BY ReqKeepSteps DEF CycleInv, ReqsKeep
  <2>1. req'[r] = req[r]
    BY ReqKeepSteps DEF CycleInv, ReqsKeep
  <2>2. c \in CycIds /\ cyc[c].request = r /\ cyc[c].status \in FinalCycle
    BY NullIsNoRow DEF CycleOf, CycleInv, StartedRequest
  <2>3. CASE CyclesKeep
    BY <2>1, <2>2, <2>3 DEF CyclesKeep, FinalCycle
  <2>4. ASSUME NEW d \in CycIds, NEW q, OpenCycle(d, q) PROVE cyc'[c] = cyc[c]
    BY <2>2, <2>4 DEF OpenCycle, CycleInv, TypeOK, FinalCycle, TerminalCycle
  <2> QED BY <2>1, <2>2, <2>3, <2>4, CycleSteps DEF CycleStep, FinalCycle
<1> QED BY <1>1, CycleInvInit, CycleInvStep, PTL DEF Spec, SettledWorkIsFinal

-----------------------------------------------------------------------------
(* Series and their slots.  The invariant says of every series: its live    *)
(* request, if any, is its youngest one and stands for the next slot; it is *)
(* the request a failure is paused on otherwise.                            *)

EndedSeries == {"auto_completed", "canceled"}
GoingSeries == {"running", "paused_user", "paused_interrupted"}

TargetIsPositive(s) == ser[s].status # "absent" => ser[s].target > 0

RequestsFit(s) ==
  \A r \in ReqIds : req[r].series = s =>
    /\ ser[s].status # "absent"
    /\ req[r].status = "canceled" => ser[s].status \in EndedSeries
    /\ req[r].status \in Live =>
         /\ req[r].slot = ser[s].settled + 1 /\ req[r].slot <= ser[s].target
         /\ ser[s].status \in GoingSeries
         /\ \A q \in ReqIds : req[q].series = s => q <= r

HasLive(s) == \E r \in ReqIds : req[r].series = s /\ req[r].status \in Live

GoesOn(s) == ser[s].status \in {"running", "paused_interrupted"} => HasLive(s)

FailureIsLast(s) ==
  ser[s].status = "paused_failure" =>
    LET c == ser[s].pausedCycle
        r == cyc[c].request
    IN /\ c \in CycIds /\ cyc[c].status \in FailedCycle
       /\ r \in ReqIds /\ req[r].series = s /\ req[r].status = "settled"
       /\ req[r].slot = ser[s].settled + 1
       /\ \A q \in ReqIds : req[q].series = s => q <= r

SeriesOK(s) == TargetIsPositive(s) /\ RequestsFit(s) /\ GoesOn(s) /\ FailureIsLast(s)

SeriesInv ==
  /\ QueueInv /\ CycleInv
  /\ \A s \in SerIds : SeriesOK(s)
  /\ SlotRepeatedOnlyAfterFailure

\* The requests of s keep what SeriesOK says of them.
Quiet(s) ==
  \A r \in ReqIds :
    /\ req'[r].series = s <=> req[r].series = s
    /\ req[r].series = s =>
         /\ req'[r].slot = req[r].slot
         /\ req'[r].status \in Live <=> req[r].status \in Live
         /\ req'[r].status = "canceled" <=> req[r].status = "canceled"
         /\ req[r].status = "settled" => req'[r].status = "settled"

LEMMA EveryStepKeeps == CycleInv /\ [Next]_store => CyclesKeep /\ ReqsKeep
<1> SUFFICES ASSUME CycleInv, [Next]_store PROVE CyclesKeep
  BY ReqKeepSteps DEF CycleInv
<1>1. ASSUME NEW c \in CycIds, NEW q, OpenCycle(c, q) PROVE CyclesKeep
  BY <1>1 DEF OpenCycle, CyclesKeep, CycleInv, TypeOK, FinalCycle, TerminalCycle
<1> QED BY <1>1, CycleSteps DEF CycleStep

\* Nothing happens to a series or its requests.
LEMMA QuietSeries ==
  ASSUME NEW s \in SerIds, SeriesOK(s), CyclesKeep, Quiet(s), ser'[s] = ser[s]
  PROVE  SeriesOK(s)'
<1> USE DEF SeriesOK
<1>1. TargetIsPositive(s)'
  BY DEF TargetIsPositive
<1>2. RequestsFit(s)'
  BY DEF RequestsFit, Quiet
<1>3. GoesOn(s)'
  BY DEF GoesOn, HasLive, Quiet
<1>4. FailureIsLast(s)'
  BY DEF FailureIsLast, Quiet, CyclesKeep, FinalCycle, FailedCycle, TerminalCycle
<1> QED BY <1>1, <1>2, <1>3, <1>4

\* A paused or waiting series, whose requests are all over, moves on or ends.
LEMMA WaitingSeries ==
  ASSUME NEW s \in SerIds, SeriesOK(s), Quiet(s),
         ser[s].status \in {"paused_failure", "waiting_interval"},
         ser'[s].status \in {"waiting_interval", "auto_completed"},
         ser'[s].target = ser[s].target
  PROVE  SeriesOK(s)'
<1> USE DEF SeriesOK
<1>1. TargetIsPositive(s)'
  BY DEF TargetIsPositive
<1>2. RequestsFit(s)'
  BY DEF RequestsFit, Quiet, GoingSeries, EndedSeries
<1>3. GoesOn(s)' /\ FailureIsLast(s)'
  BY DEF GoesOn, FailureIsLast
<1> QED BY <1>1, <1>2, <1>3

\* A series with a live request is paused for it or taken up again.
LEMMA GoingSeriesMoves ==
  ASSUME NEW s \in SerIds, SeriesOK(s), Quiet(s), HasLive(s),
         ser'[s].status \in GoingSeries,
         ser'[s].target = ser[s].target, ser'[s].settled = ser[s].settled
  PROVE  SeriesOK(s)'
<1> USE DEF SeriesOK
<1>1. TargetIsPositive(s)'
  BY DEF TargetIsPositive, HasLive, RequestsFit
<1>2. RequestsFit(s)'
  BY DEF RequestsFit, Quiet, GoingSeries, EndedSeries, HasLive
<1>3. GoesOn(s)' /\ FailureIsLast(s)'
  BY DEF GoesOn, FailureIsLast, HasLive, Quiet, GoingSeries
<1> QED BY <1>1, <1>2, <1>3

\* Startup repair may pause any active series on an open decision.
LEMMA RepairedSeries ==
  ASSUME NEW s \in SerIds, SeriesOK(s), Quiet(s), ser[s].status \in ActiveSeries,
         ser'[s].status = "paused_user",
         ser'[s].target = ser[s].target, ser'[s].settled = ser[s].settled
  PROVE  SeriesOK(s)'
<1> USE DEF SeriesOK
<1>1. TargetIsPositive(s)'
  BY DEF TargetIsPositive, ActiveSeries
<1>2. RequestsFit(s)'
  BY DEF RequestsFit, Quiet, GoingSeries, EndedSeries, ActiveSeries
<1>3. GoesOn(s)' /\ FailureIsLast(s)'
  BY DEF GoesOn, FailureIsLast
<1> QED BY <1>1, <1>2, <1>3

\* A series that is canceled, with the requests it still had.
LEMMA CanceledSeries ==
  ASSUME NEW s \in SerIds, SeriesOK(s),
         \A r \in ReqIds : /\ req'[r].series = req[r].series
                           /\ req'[r].status \notin Live \/ req'[r].series # s,
         ser[s].status # "absent", ser'[s].status = "canceled", ser'[s].target = ser[s].target
  PROVE  SeriesOK(s)'
BY DEF SeriesOK, TargetIsPositive, RequestsFit, GoesOn, FailureIsLast, EndedSeries

\* settle_cycle: the live request of s leaves, and its cycle decides what
\* becomes of the series.
LEMMA SettledSeries ==
  ASSUME SeriesInv, NEW c \in CycIds, SettleCycle(c), NEW s \in SerIds, SeriesOf(c) = s
  PROVE  SeriesOK(s)'
<1> DEFINE r == cyc[c].request
           st == IF cyc[c].status = "canceled" THEN "canceled" ELSE "settled"
<1>1. r \in ReqIds /\ r # 0 /\ req[r].series = s /\ req[r].status = "dispatching"
  BY NullIsNoRow, RowFields DEF SeriesInv, CycleInv, SettleCycle, SeriesOf
<1>2. /\ req'[r].status = st /\ req'[r].series = s /\ req'[r].slot = req[r].slot
      /\ \A q \in ReqIds \ {r} : req'[q] = req[q]
  BY <1>1, RowExcept DEF SettleCycle, SeriesInv, CycleInv, TypeOK, ReqStatus
<1>3. ser'[s] = SeriesAfter(ser[s], c) /\ cyc' = cyc /\ cyc[c].status \in TerminalCycle
  BY <1>1, NullIsNoRow DEF SettleCycle, SeriesInv, CycleInv, TypeOK
<1>4. SeriesOK(s) /\ ser[s] \in SerRow /\ c \in CycIds \cup {0}
  BY DEF SeriesInv, CycleInv, TypeOK
<1>5. /\ ser[s].status \in GoingSeries /\ ser[s].target > 0
      /\ req[r].slot = ser[s].settled + 1
      /\ \A q \in ReqIds : req[q].series = s => q <= r
      /\ \A q \in ReqIds : req[q].series = s => req[q].status # "canceled"
  BY <1>1, <1>4 DEF SeriesOK, RequestsFit, Live, GoingSeries, EndedSeries, TargetIsPositive
<1>6. \A q \in ReqIds : req[q].series = s /\ req[q].status \in Live => q = r
  <2> SUFFICES ASSUME NEW q \in ReqIds, req[q].series = s, req[q].status \in Live
               PROVE  q = r
    OBVIOUS
  <2>1. q <= r /\ r <= q
    BY <1>1, <1>4, <1>5 DEF SeriesOK, RequestsFit
  <2> QED BY <2>1, <1>1, RowBounds DEF ReqIds
<1>7. \A q \in ReqIds : req'[q].series = s => req[q].series = s /\ req'[q].status \notin Live
  BY <1>1, <1>2, <1>6 DEF Live
<1>8. CASE cyc[c].status \in SettledCycle
  <2>a. SeriesAfter(ser[s], c) = SlotSettled(ser[s])
    BY <1>8 DEF SeriesAfter, SettledCycle, FailedCycle
  <2>1. st = "settled" /\ ser'[s] = SlotSettled(ser[s])
    BY <2>a, <1>3, <1>8 DEF SettledCycle
  <2>2. ser'[s].target = ser[s].target /\ ser'[s].status \in {"auto_completed", "waiting_interval"}
    BY <2>1, <1>4 DEF SlotSettled, SerRow
  <2>3. \A q \in ReqIds : req'[q].series = s => req'[q].status # "canceled"
    BY <2>1, <1>2, <1>5, <1>7
  <2> QED BY <2>2, <2>3, <1>5, <1>7 DEF SeriesOK, TargetIsPositive, RequestsFit, GoesOn, FailureIsLast
<1>9. CASE cyc[c].status \in FailedCycle
  <2>1. st = "settled" /\ ser'[s] = [ser[s] EXCEPT !.status = "paused_failure", !.pausedCycle = c]
    BY <1>3, <1>9 DEF SeriesAfter, SettledCycle, FailedCycle
  <2>2. /\ ser'[s].target = ser[s].target /\ ser'[s].settled = ser[s].settled
        /\ ser'[s].status = "paused_failure" /\ ser'[s].pausedCycle = c
    BY <2>1, <1>4, RowExcept DEF SeriesStatus, ActiveSeries
  <2>3. \A q \in ReqIds : req'[q].series = s => req'[q].status # "canceled"
    BY <2>1, <1>2, <1>5, <1>7
  <2>4. RequestsFit(s)'
    BY <2>2, <2>3, <1>7 DEF RequestsFit
  <2>5. FailureIsLast(s)'
    BY <2>1, <2>2, <1>1, <1>2, <1>3, <1>5, <1>7, <1>9 DEF FailureIsLast
  <2> QED BY <2>2, <2>4, <2>5, <1>5 DEF SeriesOK, TargetIsPositive, GoesOn
<1>10. CASE cyc[c].status = "canceled"
  <2>1. ser'[s] = [ser[s] EXCEPT !.status = "canceled", !.pausedCycle = c]
    BY <1>3, <1>10 DEF SeriesAfter, SettledCycle, FailedCycle
  <2>2. ser'[s].status = "canceled" /\ ser'[s].target = ser[s].target
    BY <2>1, <1>4, RowExcept DEF SeriesStatus
  <2>3. \A q \in ReqIds : req'[q].series = req[q].series
    BY <1>1, <1>2
  <2> QED BY <2>2, <2>3, <1>4, <1>5, <1>7, CanceledSeries DEF GoingSeries
<1> QED BY <1>3, <1>8, <1>9, <1>10 DEF TerminalCycle, SettledCycle, FailedCycle

\* A new request is the youngest; the other series do not notice it.
LEMMA InsertedRow ==
  ASSUME SeriesInv, NEW r \in ReqIds, NEW s, NEW n, NEW old, Insert(r, s, n, old)
  PROVE  /\ req'[r].status = "queued" /\ req'[r].series = s /\ req'[r].slot = n
         /\ \A q \in ReqIds \ {r} : req'[q] = req[q]
         /\ \A q \in ReqIds : req[q].status = "absent" <=> q >= r
         /\ \A t \in SerIds : t # s => Quiet(t)
<1>1. /\ req'[r].status = "queued" /\ req'[r].series = s /\ req'[r].slot = n
      /\ \A q \in ReqIds \ {r} : req'[q] = req[q]
  BY DEF Insert, SeriesInv, CycleInv, TypeOK
<1>2. \A q \in ReqIds : req[q].status = "absent" <=> q >= r
  <2>1. /\ req[r].status = "absent"
        /\ \A q \in ReqIds : q < r => req[q].status # "absent"
    BY DEF Insert, NextRow, SeriesInv, CycleInv, TypeOK
  <2>2. \A q \in ReqIds : r < q => req[q].status = "absent"
    BY <2>1 DEF SeriesInv, QueueInv, RowsArePrefix
  <2>3. \A q \in ReqIds : q < r \/ q = r \/ r < q
    BY RowBounds DEF ReqIds
  <2>4. \A q \in ReqIds : q >= r <=> ~(q < r)
    BY RowBounds DEF ReqIds
  <2> QED BY <2>1, <2>2, <2>3, <2>4
<1>3. req[r].status = "absent" /\ req[r].series = 0
  BY <1>2, RowBounds DEF ReqIds, SeriesInv, CycleInv, AbsentRowsAreEmpty
<1>4. \A t \in SerIds : t # s => Quiet(t)
  BY <1>1, <1>3, NullIsNoRow DEF Quiet
<1> QED BY <1>1, <1>2, <1>4

\* A series that gets a new request goes on with it.
LEMMA InsertedSeries ==
  ASSUME SeriesInv, NEW r \in ReqIds, NEW s \in SerIds, NEW n \in Nat, NEW old,
         Insert(r, s, n, old),
         ser'[s].status = "running", ser'[s].target \in Nat, ser'[s].settled \in Nat,
         n = ser'[s].settled + 1, n <= ser'[s].target,
         ser[s].status \in {"absent", "paused_failure", "waiting_interval"}
  PROVE  SeriesOK(s)'
<1>0. /\ req'[r].status = "queued" /\ req'[r].series = s /\ req'[r].slot = n
      /\ \A q \in ReqIds \ {r} : req'[q] = req[q]
      /\ \A q \in ReqIds : req[q].status = "absent" <=> q >= r
  BY InsertedRow
<1>1. SeriesOK(s) /\ ReqIds \subseteq Nat
  BY RowBounds DEF SeriesInv, ReqIds
<1>2. \A q \in ReqIds : req[q].series = s =>
        req[q].status \notin Live \cup {"canceled"} /\ req[q].status # "absent"
  BY <1>1, NullIsNoRow DEF SeriesOK, RequestsFit, GoingSeries, EndedSeries, SeriesInv, CycleInv,
     AbsentRowsAreEmpty
<1>3. \A q \in ReqIds : req[q].series = s => q < r
  BY <1>0, <1>1, <1>2
<1>4. n > 0
  OBVIOUS
<1>5. TargetIsPositive(s)'
  BY <1>4 DEF TargetIsPositive
<1>6. RequestsFit(s)'
  BY <1>0, <1>1, <1>2, <1>3 DEF RequestsFit, GoingSeries
<1>7. GoesOn(s)' /\ FailureIsLast(s)'
  BY <1>0 DEF GoesOn, HasLive, Live, FailureIsLast
<1> QED BY <1>5, <1>6, <1>7 DEF SeriesOK

\* A slot is repeated only by an insert for it: without one, what was failed
\* stays failed.
LEMMA NoInsertNoRepeat ==
  ASSUME SeriesInv, CyclesKeep, ReqsKeep,
         \A r \in ReqIds : req[r].status = "absent" => req'[r] = req[r]
  PROVE  SlotRepeatedOnlyAfterFailure'
<1>1. \A r \in ReqIds : req'[r].series # 0 => req'[r].series = req[r].series /\ req'[r].slot = req[r].slot
  BY DEF ReqsKeep, SeriesInv, CycleInv, AbsentRowsAreEmpty
<1>2. \A r \in ReqIds : (\E c \in CycleOf(r) : cyc[c].status = "failed")
                          => \E c \in CycleOf(r)' : cyc'[c].status = "failed"
  BY DEF CyclesKeep, CycleOf, FinalCycle, TerminalCycle
<1> QED BY <1>1, <1>2 DEF SlotRepeatedOnlyAfterFailure, SeriesInv

LEMMA InsertRepeatsFailure ==
  ASSUME SeriesInv, CyclesKeep, NEW r \in ReqIds, NEW s, NEW n, NEW old, Insert(r, s, n, old),
         s # 0 => \A q \in ReqIds : req[q].series = s /\ req[q].slot = n
                    => \E c \in CycleOf(q) : cyc[c].status = "failed"
  PROVE  SlotRepeatedOnlyAfterFailure'
<1>0. /\ req'[r].series = s /\ req'[r].slot = n
      /\ \A q \in ReqIds \ {r} : req'[q] = req[q]
      /\ \A q \in ReqIds : req[q].status = "absent" <=> q >= r
  BY InsertedRow
<1>1. \A q \in ReqIds : r < q => req'[q].series = 0
  BY <1>0, RowBounds DEF ReqIds, SeriesInv, CycleInv, AbsentRowsAreEmpty
<1>2. \A q \in ReqIds : (\E c \in CycleOf(q) : cyc[c].status = "failed")
                          => \E c \in CycleOf(q)' : cyc'[c].status = "failed"
  BY DEF CyclesKeep, CycleOf, FinalCycle, TerminalCycle
<1> SUFFICES ASSUME NEW p \in ReqIds, NEW q \in ReqIds, p < q,
                    req'[p].series # 0, req'[p].series = req'[q].series,
                    req'[p].slot = req'[q].slot
             PROVE  \E c \in CycleOf(p)' : cyc'[c].status = "failed"
  BY DEF SlotRepeatedOnlyAfterFailure
<1>3. p # r
  BY <1>1
<1>4. CASE q = r
  BY <1>0, <1>2, <1>3, <1>4
<1>5. CASE q # r
  <2>1. \E c \in CycleOf(p) : cyc[c].status = "failed"
    BY <1>0, <1>3, <1>5 DEF SeriesInv, SlotRepeatedOnlyAfterFailure
  <2> QED BY <1>2, <2>1
<1> QED BY <1>4, <1>5

SeriesStep == (\A s \in SerIds : SeriesOK(s)') /\ SlotRepeatedOnlyAfterFailure'

\* Steps that leave the series alone and no request over or new.
LEMMA QuietSteps ==
  ASSUME SeriesInv, [Next]_store, UNCHANGED ser,
         \A r \in ReqIds :
           /\ req'[r].series = req[r].series /\ req'[r].slot = req[r].slot
           /\ req'[r] # req[r] => req[r].status \in Live /\ req'[r].status \in Live
  PROVE  SeriesStep
<1>1. CyclesKeep /\ ReqsKeep
  BY EveryStepKeeps DEF SeriesInv
<1>2. \A s \in SerIds : Quiet(s)
  BY DEF Quiet, Live
<1>3. SlotRepeatedOnlyAfterFailure'
  BY <1>1, NoInsertNoRepeat DEF Live
<1> QED BY <1>1, <1>2, <1>3, QuietSeries DEF SeriesStep, SeriesInv

\* Steps that change one series or several, and no request.
LEMMA SeriesOnlySteps ==
  ASSUME SeriesInv, [Next]_store, UNCHANGED req,
         \A s \in SerIds :
           \/ ser'[s] = ser[s]
           \/ /\ ser'[s].target = ser[s].target
              /\ \/ /\ ser[s].status \in {"paused_failure", "waiting_interval"}
                    /\ ser'[s].status \in {"waiting_interval", "auto_completed"}
                 \/ /\ HasLive(s) /\ ser'[s].status \in GoingSeries
                    /\ ser'[s].settled = ser[s].settled
                 \/ /\ ser[s].status \in ActiveSeries /\ ser'[s].status = "paused_user"
                    /\ ser'[s].settled = ser[s].settled
  PROVE  SeriesStep
<1>1. CyclesKeep /\ ReqsKeep
  BY EveryStepKeeps DEF SeriesInv
<1>2. \A s \in SerIds : Quiet(s) /\ SeriesOK(s)
  BY DEF Quiet, SeriesInv
<1>3. SlotRepeatedOnlyAfterFailure'
  BY <1>1, NoInsertNoRepeat
<1>4. \A s \in SerIds : SeriesOK(s)'
  BY <1>1, <1>2, QuietSeries, WaitingSeries, GoingSeriesMoves, RepairedSeries
<1> QED BY <1>3, <1>4 DEF SeriesStep

\* A step that inserts a request for series s and sets s running.
LEMMA InsertSteps ==
  ASSUME SeriesInv, [Next]_store, NEW r \in ReqIds, NEW s \in SerIds, NEW n \in Nat, NEW old,
         Insert(r, s, n, old),
         \A t \in SerIds \ {s} : ser'[t] = ser[t],
         ser'[s].status = "running", ser'[s].target \in Nat, ser'[s].settled \in Nat,
         n = ser'[s].settled + 1, n <= ser'[s].target,
         ser[s].status \in {"absent", "paused_failure", "waiting_interval"},
         \A q \in ReqIds : req[q].series = s /\ req[q].slot = n
           => \E c \in CycleOf(q) : cyc[c].status = "failed"
  PROVE  SeriesStep
<1>1. CyclesKeep
  BY EveryStepKeeps DEF SeriesInv
<1>2. SeriesOK(s)'
  BY InsertedSeries
<1>3. \A t \in SerIds \ {s} : SeriesOK(t)'
  BY <1>1, InsertedRow, QuietSeries DEF SeriesInv
<1>4. SlotRepeatedOnlyAfterFailure'
  BY <1>1, InsertRepeatsFailure
<1> QED BY <1>2, <1>3, <1>4 DEF SeriesStep

\* A cycle that is not over belongs to a live request, unless its series ended.
LEMMA OpenCycleIsLive ==
  ASSUME SeriesInv, NEW c \in CycIds, cyc[c].status \notin FinalCycle,
         NEW s \in SerIds, SeriesOf(c) = s, ser[s].status \notin EndedSeries
  PROVE  HasLive(s)
<1> DEFINE r == cyc[c].request
<1>1. r # 0 /\ r \in ReqIds /\ req[r].series = s
  BY NullIsNoRow, RowFields DEF SeriesOf, SeriesInv, CycleInv
<1>2. req[r].status = "dispatching"
  BY <1>1 DEF SeriesInv, CycleInv, StartedRequest, SeriesOK, RequestsFit
<1> QED BY <1>1, <1>2 DEF HasLive, Live

LEMMA RequestSteps == SeriesInv /\ [Next]_store /\ Requests => SeriesStep
<1> SUFFICES ASSUME SeriesInv, [Next]_store, Requests PROVE SeriesStep
  OBVIOUS
<1>k. CyclesKeep /\ TypeOK /\ TypeOK'
  BY EveryStepKeeps, TypeStep DEF SeriesInv, CycleInv
<1>t. req \in [ReqIds -> ReqRow] /\ ser \in [SerIds -> SerRow]
  BY <1>k DEF TypeOK
<1>1. ASSUME NEW r \in ReqIds, EnqueueTriggered(r) PROVE SeriesStep
  <2>1. Insert(r, 0, 0, 0) /\ ser' = ser
    BY <1>1 DEF EnqueueTriggered
  <2>2. \A t \in SerIds : SeriesOK(t)'
    BY <2>1, <1>k, InsertedRow, NullIsNoRow, QuietSeries DEF SeriesInv
  <2>3. SlotRepeatedOnlyAfterFailure'
    BY <2>1, <1>k, InsertRepeatsFailure
  <2> QED BY <2>2, <2>3 DEF SeriesStep
<1>2. ASSUME NEW r \in ReqIds, ClaimNext(r) \/ RequeueClaim(r) PROVE SeriesStep
  <2>1. PICK st \in {"queued", "dispatching"} : req' = [req EXCEPT ![r].status = st]
    BY <1>2 DEF ClaimNext, RequeueClaim
  <2>2. req[r].status \in Live /\ ser' = ser
    BY <1>2 DEF ClaimNext, OldestQueued, RequeueClaim, Live
  <2>3. /\ req'[r].status = st /\ req'[r].series = req[r].series /\ req'[r].slot = req[r].slot
        /\ \A q \in ReqIds \ {r} : req'[q] = req[q]
    BY <2>1, <1>t, RowExcept DEF ReqStatus
  <2> QED BY <2>1, <2>2, <2>3, QuietSteps DEF Live
<1>3. ASSUME NEW r \in ReqIds, NEW s \in SerIds, NEW t \in Nat, t > 0, StartSeries(s, r, t)
      PROVE SeriesStep
  <2>1. ser[s].status = "absent" /\ Insert(r, s, 1, 0)
    BY <1>3 DEF StartSeries, NextRow
  <2>2. /\ ser'[s].status = "running" /\ ser'[s].target = t /\ ser'[s].settled = 0
        /\ \A u \in SerIds \ {s} : ser'[u] = ser[u]
    BY <1>3, <1>t DEF StartSeries
  <2>3. \A q \in ReqIds : req[q].series # s
    BY <2>1 DEF SeriesInv, SeriesOK, RequestsFit
  <2> QED BY <1>3, <2>1, <2>2, <2>3, InsertSteps
<1>4. ASSUME NEW r \in ReqIds, NEW s \in SerIds, NEW t \in Targets, CreateAutoSeries(s, r, t)
      PROVE SeriesStep
  BY <1>3, <1>4, TargetsArePositive DEF CreateAutoSeries
<1>5. ASSUME NEW r \in ReqIds, NEW s \in SerIds, RestartSeries(s, r) PROVE SeriesStep
  <2>1. PICK last \in SerIds : ser[last].status = "auto_completed"
                               /\ StartSeries(s, r, ser[last].target)
    BY <1>5 DEF RestartSeries
  <2>2. ser[last].target \in Nat /\ ser[last].target > 0
    BY <2>1, <1>k, RowFields DEF SeriesInv, SeriesOK, TargetIsPositive
  <2> QED BY <2>1, <2>2, <1>3
<1>6. ASSUME NEW r \in ReqIds, NEW s \in SerIds, RetryFailed(s, r) PROVE SeriesStep
  <2> DEFINE c == ser[s].pausedCycle
             old == cyc[c].request
             n == ser[s].settled + 1
  <2>1. /\ ser[s].status = "paused_failure" /\ cyc[c].status = "failed"
        /\ req[old].series = s /\ req[old].slot = n /\ n <= ser[s].target
        /\ Insert(r, s, req[old].slot, old)
    BY <1>6 DEF RetryFailed, Retriable
  <2>a. Insert(r, s, n, old)
    BY <2>1
  <2>2. /\ c \in CycIds /\ old \in ReqIds
        /\ \A q \in ReqIds : req[q].series = s => q <= old
    BY <2>1 DEF SeriesInv, SeriesOK, FailureIsLast
  <2>3. ser' = [ser EXCEPT ![s].status = "running", ![s].pausedCycle = 0]
    BY <1>6 DEF RetryFailed
  <2>4. /\ ser'[s].status = "running" /\ ser'[s].target = ser[s].target
        /\ ser'[s].settled = ser[s].settled
        /\ \A u \in SerIds \ {s} : ser'[u] = ser[u]
    BY <2>3, <1>t, RowExcept DEF SeriesStatus, ActiveSeries
  <2>5. ser[s].target \in Nat /\ ser[s].settled \in Nat /\ n \in Nat
    BY <1>k, RowFields
  <2>6. ASSUME NEW q \in ReqIds, req[q].series = s, req[q].slot = n
        PROVE \E d \in CycleOf(q) : cyc[d].status = "failed"
    <3>1. CASE q = old
      BY <3>1, <2>1, <2>2 DEF CycleOf
    <3>2. CASE q # old
      <4>1. q < old
        BY <3>2, <2>2, <2>6, RowBounds DEF ReqIds
      <4> QED BY <4>1, <2>1, <2>2, <2>6, NullIsNoRow DEF SeriesInv, SlotRepeatedOnlyAfterFailure
    <3> QED BY <3>1, <3>2
  <2> HIDE DEF c, old, n
  <2>7. n = ser'[s].settled + 1 /\ n <= ser'[s].target
    BY <2>1, <2>4 DEF n
  <2> QED BY <2>1, <2>a, <2>4, <2>5, <2>6, <2>7, InsertSteps
<1>7. ASSUME NEW r \in ReqIds, NEW s \in SerIds, NEW p \in BOOLEAN, EnqueueDue(s, r, p)
      PROVE SeriesStep
  <2> DEFINE n == ser[s].settled + 1
  <2>1. /\ ser[s].status = "waiting_interval" /\ n <= ser[s].target
        /\ Insert(r, s, n, 0) /\ ~SlotTaken(s)
        /\ ser' = [ser EXCEPT ![s].status = "running"]
    BY <1>7 DEF EnqueueDue
  <2>2. /\ ser'[s].status = "running" /\ ser'[s].target = ser[s].target
        /\ ser'[s].settled = ser[s].settled
        /\ \A u \in SerIds \ {s} : ser'[u] = ser[u]
    BY <2>1, <1>t, RowExcept DEF SeriesStatus, ActiveSeries
  <2>3. ser[s].target \in Nat /\ ser[s].settled \in Nat /\ n \in Nat
    BY <1>k, RowFields
  <2>4. \A q \in ReqIds : ~(req[q].series = s /\ req[q].slot = n)
    BY <2>1 DEF SlotTaken
  <2>5. n = ser'[s].settled + 1 /\ n <= ser'[s].target
    BY <2>1, <2>2
  <2> HIDE DEF n
  <2> QED BY <2>1, <2>2, <2>3, <2>4, <2>5, InsertSteps
<1>8. ASSUME NEW r \in ReqIds, NEW c \in CycIds, CreateCycle(c, r) PROVE SeriesStep
  BY <1>8, QuietSteps DEF CreateCycle
<1> QED BY <1>1, <1>2, <1>4, <1>5, <1>6, <1>7, <1>8 DEF Requests

LEMMA SettleSteps ==
  ASSUME SeriesInv, [Next]_store, NEW c \in CycIds, SettleCycle(c)
  PROVE  SeriesStep
<1> DEFINE r == cyc[c].request
           s == req[r].series
<1>1. CyclesKeep /\ ReqsKeep /\ TypeOK
  BY EveryStepKeeps DEF SeriesInv, CycleInv
<1>2. r \in ReqIds /\ r # 0 /\ SeriesOf(c) = s /\ req[r].status = "dispatching"
  BY <1>1, RowFields DEF SettleCycle, SeriesOf
<1>3. /\ \A q \in ReqIds \ {r} : req'[q] = req[q]
      /\ req'[r].series = s
      /\ \A t \in SerIds \ {s} : ser'[t] = ser[t]
  BY <1>1, <1>2 DEF SettleCycle, TypeOK, ReqsKeep
<1>4. \A t \in SerIds \ {s} : Quiet(t)
  BY <1>3 DEF Quiet
<1>5. \A t \in SerIds \ {s} : SeriesOK(t)'
  BY <1>1, <1>3, <1>4, QuietSeries DEF SeriesInv
<1>6. ASSUME NEW t \in SerIds, t = s PROVE SeriesOK(t)'
  BY <1>2, <1>6, SettledSeries
<1>7. SlotRepeatedOnlyAfterFailure'
  BY <1>1, <1>2, <1>3, NoInsertNoRepeat
<1> QED BY <1>5, <1>6, <1>7 DEF SeriesStep

LEMMA CycleGroupSteps == SeriesInv /\ [Next]_store /\ Cycles => SeriesStep
<1> SUFFICES ASSUME SeriesInv, [Next]_store, Cycles PROVE SeriesStep
  OBVIOUS
<1>t. TypeOK /\ ser \in [SerIds -> SerRow]
  BY DEF SeriesInv, CycleInv, TypeOK
<1>1. ASSUME NEW c \in CycIds,
             \/ Activate(c) \/ FailUnstarted(c) \/ PauseCycle(c)
             \/ \E status \in TerminalCycle : Finish(c, status)
             \/ Interrupt(c) \/ InterruptAmbiguous(c)
             \/ WaitForProvider(c)
             \/ \E stage \in {"add_work", "later"} : RecoverProvider(c, stage)
      PROVE SeriesStep
  BY <1>1, <1>t, RuntimeWrites, QuietSteps
<1>2. ASSUME NEW c \in CycIds, DeferDecision(c) \/ RetryFailedTask(c) PROVE SeriesStep
  BY <1>2, QuietSteps DEF DeferDecision, RetryFailedTask
\* a write to the series of a cycle that is not over
<1>3. ASSUME NEW c \in CycIds, NEW s \in SerIds, SeriesOf(c) = s,
             cyc[c].status \notin FinalCycle, ser[s].status \notin EndedSeries,
             NEW st \in GoingSeries, NEW p \in CycIds \cup {0}, UNCHANGED req,
             ser' = [ser EXCEPT ![s].status = st, ![s].pausedCycle = p]
      PROVE SeriesStep
  <2>1. HasLive(s)
    BY <1>3, OpenCycleIsLive
  <2>2. /\ ser'[s].status = st /\ ser'[s].target = ser[s].target
        /\ ser'[s].settled = ser[s].settled
        /\ \A t \in SerIds \ {s} : ser'[t] = ser[t]
    BY <1>3, <1>t, RowExcept DEF GoingSeries, SeriesStatus, ActiveSeries
  <2> QED BY <1>3, <2>1, <2>2, SeriesOnlySteps
<1>4. ASSUME NEW c \in CycIds, PauseSeries(c) PROVE SeriesStep
  <2> DEFINE s == req[cyc[c].request].series
  <2>1. /\ cyc[c].request \in ReqIds /\ SeriesOf(c) = s /\ s \in SerIds \cup {0}
        /\ req[cyc[c].request].status \in Live
        /\ cyc[c].status \notin FinalCycle
    BY <1>4, <1>t, RowFields DEF PauseSeries, SeriesOf, FinalCycle, TerminalCycle, Live
  <2>2. s \in SerIds => ser[s].status \notin EndedSeries
    BY <2>1 DEF SeriesInv, SeriesOK, RequestsFit, GoingSeries, EndedSeries
  <2>3. CASE s = 0
    BY <1>4, <2>3, QuietSteps DEF PauseSeries
  <2>4. CASE s \in SerIds
    <3>1. PICK st \in GoingSeries : ser' = [ser EXCEPT ![s].status = st, ![s].pausedCycle = c]
      BY <1>4, <2>4, NullIsNoRow DEF PauseSeries, GoingSeries
    <3>2. UNCHANGED req
      BY <1>4 DEF PauseSeries
    <3> QED BY <2>1, <2>2, <2>4, <3>1, <3>2, <1>3
  <2> QED BY <2>1, <2>3, <2>4
<1>5. ASSUME NEW c \in CycIds, PublishDecision(c) \/ AnswerDecision(c) PROVE SeriesStep
  <2> DEFINE s == SeriesOf(c)
  <2>1. s \in SerIds \cup {0} /\ UNCHANGED req /\ cyc[c].status \notin FinalCycle
    BY <1>5, <1>t, RowFields DEF PublishDecision, CanPublish, AnswerDecision, SeriesOf,
       FinalCycle, TerminalCycle
  <2>2. CASE s = 0
    BY <1>5, <2>2, QuietSteps DEF PublishDecision, AnswerDecision
  <2>3. CASE s \in SerIds
    <3>1. ser[s].status \notin EndedSeries
      BY <1>5, <2>3, NullIsNoRow DEF PublishDecision, CanPublish, AnswerDecision, SeriesOf,
         EndedSeries
    <3>2. \E st \in GoingSeries, p \in CycIds \cup {0} :
            ser' = [ser EXCEPT ![s].status = st, ![s].pausedCycle = p]
      BY <1>5, <2>3, NullIsNoRow DEF PublishDecision, AnswerDecision, GoingSeries
    <3> QED BY <2>1, <2>3, <3>1, <3>2, <1>3
  <2> QED BY <2>1, <2>2, <2>3
<1> QED BY <1>1, <1>2, <1>4, <1>5, SettleSteps DEF Cycles

LEMMA RunSteps == SeriesInv /\ [Next]_store /\ Runs => SeriesStep
<1> SUFFICES ASSUME SeriesInv, [Next]_store, Runs PROVE SeriesStep
  OBVIOUS
<1>t. TypeOK /\ req \in [ReqIds -> ReqRow] /\ ser \in [SerIds -> SerRow]
  BY DEF SeriesInv, CycleInv, TypeOK
<1>k. CyclesKeep /\ ReqsKeep
  BY EveryStepKeeps DEF SeriesInv
<1>1. ASSUME CancelRun PROVE SeriesStep
  <2>1. ASSUME NEW r \in ReqIds
        PROVE  /\ req'[r].series = req[r].series
               /\ IF req[r].status \in Live THEN req'[r].status = "canceled"
                                            ELSE req'[r] = req[r]
    <3>1. req'[r] = IF req[r].status \in Live THEN [req[r] EXCEPT !.status = "canceled"]
                                              ELSE req[r]
      BY <1>1 DEF CancelRun
    <3>2. req[r] \in ReqRow /\ "canceled" \in ReqStatus
      BY <1>t DEF ReqStatus
    <3> QED BY <3>1, <3>2, RowExcept
  <2>2. ASSUME NEW s \in SerIds PROVE SeriesOK(s)'
    <3>1. ser'[s] = IF ser[s].status \in ActiveSeries THEN [ser[s] EXCEPT !.status = "canceled"]
                                                      ELSE ser[s]
      BY <1>1 DEF CancelRun
    <3>2. CASE ser[s].status \in ActiveSeries
      <4>1. ser'[s].status = "canceled" /\ ser'[s].target = ser[s].target
        BY <3>1, <3>2, <1>t, RowExcept DEF SeriesStatus
      <4>2. \A r \in ReqIds : req'[r].status \notin Live
        BY <2>1 DEF Live
      <4> QED BY <3>2, <4>1, <4>2, <2>1, CanceledSeries DEF SeriesInv, ActiveSeries
    <3>3. CASE ser[s].status \notin ActiveSeries
      <4>1. \A r \in ReqIds : req[r].series = s => req[r].status \notin Live
        BY <3>3 DEF SeriesInv, SeriesOK, RequestsFit, GoingSeries, ActiveSeries
      <4>2. Quiet(s)
        BY <4>1, <2>1 DEF Quiet
      <4> QED BY <3>1, <3>3, <4>2, <1>k, QuietSeries DEF SeriesInv
    <3> QED BY <3>2, <3>3
  <2>3. SlotRepeatedOnlyAfterFailure'
    BY <2>1, <1>k, NoInsertNoRepeat DEF Live
  <2> QED BY <2>2, <2>3 DEF SeriesStep
<1>2. ASSUME \/ ReopenRun \/ PauseRun \/ \E also \in BOOLEAN : InterruptRun(also)
      PROVE SeriesStep
  BY <1>2, QuietSteps DEF ReopenRun, PauseRun, SetRun, InterruptRun
<1>3. ASSUME NEW protected \in SUBSET CycIds, ReconcileLifecycle(protected) PROVE SeriesStep
  <2> DEFINE open == OpenDecisions(protected)
             p(s) == CHOOSE c \in LastOpenOf(s, open) : TRUE
  <2>1. ASSUME NEW s \in SerIds, ser'[s] # ser[s]
        PROVE  /\ ser[s].status \in ActiveSeries /\ ser'[s].status = "paused_user"
               /\ ser'[s].target = ser[s].target /\ ser'[s].settled = ser[s].settled
    <3>1. /\ ser[s].status \in ActiveSeries /\ LastOpenOf(s, open) # {}
          /\ ser'[s] = [ser[s] EXCEPT !.status = "paused_user", !.pausedCycle = p(s)]
      BY <1>3, <2>1 DEF ReconcileLifecycle
    <3>2. p(s) \in CycIds
      BY <3>1 DEF LastOpenOf, OpenDecisions
    <3> HIDE DEF p
    <3>3. ser[s] \in SerRow /\ "paused_user" \in SeriesStatus
      BY <1>t DEF SeriesStatus, ActiveSeries
    <3> QED BY <3>1, <3>2, <3>3, RowExcept
  <2>2. UNCHANGED req
    BY <1>3 DEF ReconcileLifecycle
  <2> QED BY <2>1, <2>2, SeriesOnlySteps
<1> QED BY <1>1, <1>2, <1>3 DEF Runs

LEMMA SeriesInvStep == SeriesInv /\ [Next]_store => SeriesInv'
<1> SUFFICES ASSUME SeriesInv, [Next]_store PROVE SeriesStep
  BY QueueStep, CycleInvStep DEF SeriesInv, SeriesStep
<1>t. ser \in [SerIds -> SerRow]
  BY DEF SeriesInv, CycleInv, TypeOK
<1>1. CASE Series
  <2>1. ASSUME NEW s \in SerIds, ContinueFailed(s) PROVE SeriesStep
    <3>1. /\ ser[s].status = "paused_failure" /\ UNCHANGED req
          /\ ser'[s] = SlotSettled(ser[s]) /\ \A t \in SerIds \ {s} : ser'[t] = ser[t]
      BY <2>1, <1>t DEF ContinueFailed
    <3>2. /\ ser'[s].status \in {"waiting_interval", "auto_completed"}
          /\ ser'[s].target = ser[s].target
      BY <3>1, <1>t DEF SlotSettled, SerRow
    <3> QED BY <3>1, <3>2, SeriesOnlySteps
  <2>2. ASSUME NEW s \in SerIds, EndDueSeries(s) PROVE SeriesStep
    <3>1. /\ ser[s].status = "waiting_interval" /\ UNCHANGED req
          /\ ser' = [ser EXCEPT ![s].status = "auto_completed", ![s].pausedCycle = 0]
      BY <2>2 DEF EndDueSeries
    <3>2. /\ ser'[s].status = "auto_completed" /\ ser'[s].target = ser[s].target
          /\ \A t \in SerIds \ {s} : ser'[t] = ser[t]
      BY <3>1, <1>t, RowExcept DEF SeriesStatus
    <3> QED BY <3>1, <3>2, SeriesOnlySteps
  <2> QED BY <1>1, <2>1, <2>2 DEF Series
<1>2. CASE UNCHANGED store
  BY <1>2, QuietSteps DEF store
<1> QED BY <1>1, <1>2, RequestSteps, CycleGroupSteps, RunSteps DEF Next

LEMMA SeriesInvInit == Init => SeriesInv
<1> SUFFICES ASSUME Init PROVE SeriesInv
  OBVIOUS
<1>1. QueueInv
  BY StoreInit DEF QueueInv, Init, RowsArePrefix, OneDispatching, NoOvertaking, AbsentReq
<1>2. \A s \in SerIds : SeriesOK(s)
  BY NullIsNoRow DEF Init, SeriesOK, TargetIsPositive, RequestsFit, GoesOn, FailureIsLast,
     AbsentReq, AbsentSer
<1>3. SlotRepeatedOnlyAfterFailure
  BY DEF Init, SlotRepeatedOnlyAfterFailure, AbsentReq
<1> QED BY <1>1, <1>2, <1>3, CycleInvInit DEF SeriesInv

\* However continues, retries, interval ticks, late settlements, cancellations
\* and startup repair interleave: a series has at most one live request, for
\* its next slot, and a slot is run again only after a failed cycle.
THEOREM SlotsStayExact == Spec => []SlotsAreExact
<1>1. SeriesInv => SlotsAreExact
  <2> SUFFICES ASSUME SeriesInv, NEW s \in SerIds, NEW r \in LiveOf(s)
               PROVE  /\ LiveOf(s) = {r}
                      /\ req[r].slot = ser[s].settled + 1 /\ req[r].slot <= ser[s].target
                      /\ ser[s].status \in {"running", "paused_user", "paused_interrupted"}
    BY DEF SlotsAreExact, LiveRequestOwnsNextSlot, SeriesInv
  <2>1. /\ r \in ReqIds /\ req[r].series = s /\ req[r].status \in Live
        /\ SeriesOK(s)
    BY DEF LiveOf, SeriesInv
  <2>2. ASSUME NEW q \in LiveOf(s) PROVE q = r
    <3>1. q <= r /\ r <= q /\ q \in ReqIds
      BY <2>1, <2>2 DEF LiveOf, SeriesOK, RequestsFit
    <3> QED BY <3>1, <2>1, RowBounds DEF ReqIds
  <2> QED BY <2>1, <2>2 DEF SeriesOK, RequestsFit, GoingSeries
<1> QED BY <1>1, SeriesInvInit, SeriesInvStep, PTL DEF Spec

\* No series is stuck: a running one has the request that moves it, and one
\* paused on a failure has the failed cycle that RETRY and CONTINUE need.
THEOREM SeriesStaysActionable == Spec => []SeriesIsActionable
<1>1. SeriesInv => RunningSeriesHasRequest
  BY DEF SeriesInv, SeriesOK, GoesOn, HasLive, RunningSeriesHasRequest, LiveOf
<1>2. SeriesInv => FailurePauseIsActionable
  <2> SUFFICES ASSUME SeriesInv, NEW s \in SerIds, ser[s].status = "paused_failure"
               PROVE  LET c == ser[s].pausedCycle
                      IN /\ c # 0 /\ cyc[c].status \in FailedCycle /\ SeriesOf(c) = s
                         /\ req[cyc[c].request].status = "settled"
                         /\ req[cyc[c].request].slot = ser[s].settled + 1
    BY DEF FailurePauseIsActionable
  <2> QED BY NullIsNoRow DEF SeriesInv, SeriesOK, FailureIsLast, SeriesOf
<1> QED BY <1>1, <1>2, SeriesInvInit, SeriesInvStep, PTL DEF Spec, SeriesIsActionable

\* A late pause, decision, retry, tick or startup repair never brings an ended
\* series back.
THEOREM EndedStaysEnded == Spec => EndedSeriesStaysEnded
<1> DEFINE Kept == \A s \in SerIds : ser[s].status \in {"auto_completed", "canceled"} =>
                     ser'[s] = ser[s]
<1>1. SeriesInv /\ [Next]_store => Kept
  <2> SUFFICES ASSUME SeriesInv, [Next]_store, NEW s \in SerIds,
                      ser[s].status \in {"auto_completed", "canceled"}
               PROVE  ser'[s] = ser[s]
    OBVIOUS
  <2>t. TypeOK /\ ser \in [SerIds -> SerRow]
    BY DEF SeriesInv, CycleInv, TypeOK
  <2>l. ~HasLive(s)
    BY DEF SeriesInv, SeriesOK, RequestsFit, HasLive, GoingSeries
  <2>1. CASE Requests
    BY <2>1, <2>t DEF Requests, EnqueueTriggered, ClaimNext, RequeueClaim, CreateAutoSeries,
       RestartSeries, StartSeries, NextRow, RetryFailed, EnqueueDue, CreateCycle
  <2>2. CASE Series
    BY <2>2, <2>t DEF Series, ContinueFailed, EndDueSeries
  <2>3. CASE Cycles
    <3>1. ASSUME NEW c \in CycIds,
                 \/ Activate(c) \/ FailUnstarted(c) \/ PauseCycle(c)
                 \/ \E status \in TerminalCycle : Finish(c, status)
                 \/ Interrupt(c) \/ InterruptAmbiguous(c)
                 \/ WaitForProvider(c)
                 \/ \E stage \in {"add_work", "later"} : RecoverProvider(c, stage)
          PROVE ser' = ser
      BY <3>1, <2>t, RuntimeWrites
    <3>2. ASSUME NEW c \in CycIds, SettleCycle(c) \/ PauseSeries(c) PROVE ser'[s] = ser[s]
      <4>1. /\ cyc[c].request \in ReqIds /\ req[cyc[c].request].status \in Live
            /\ \A t \in SerIds : t # req[cyc[c].request].series => ser'[t] = ser[t]
        BY <3>2, <2>t, RowFields DEF SettleCycle, PauseSeries, Live
      <4>2. req[cyc[c].request].series # s
        BY <4>1, <2>l DEF HasLive
      <4> QED BY <4>1, <4>2
    <3>3. ASSUME NEW c \in CycIds, PublishDecision(c) \/ AnswerDecision(c)
          PROVE ser'[s] = ser[s]
      BY <3>3, <2>t, NullIsNoRow DEF PublishDecision, CanPublish, AnswerDecision, SeriesOf
    <3>4. ASSUME NEW c \in CycIds, DeferDecision(c) \/ RetryFailedTask(c) PROVE ser' = ser
      BY <3>4 DEF DeferDecision, RetryFailedTask
    <3> QED BY <2>3, <3>1, <3>2, <3>3, <3>4 DEF Cycles
  <2>4. CASE Runs
    BY <2>4 DEF Runs, CancelRun, ReopenRun, PauseRun, SetRun, InterruptRun, ReconcileLifecycle,
       ActiveSeries
  <2>5. CASE UNCHANGED store
    BY <2>5 DEF store
  <2> QED BY <2>1, <2>2, <2>3, <2>4, <2>5 DEF Next
<1> QED BY <1>1, SeriesInvInit, SeriesInvStep, PTL DEF Spec, EndedSeriesStaysEnded
=============================================================================
