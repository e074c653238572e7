------------------------- MODULE CycleDispatcherProofs -------------------------
(* Theorems about CycleDispatcher, for every number of rows, workers and    *)
(* stops: its types under all events, the rest for every choice of        *)
(* ordinary ones.                                                          *)
EXTENDS CycleDispatcher, TLAPS, WellFoundedInduction

Stored == INSTANCE CycleStoreProofs

-----------------------------------------------------------------------------
(* Steps of the store.                                                      *)

LEMMA RequestSteps ==
  /\ \A r \in S!ReqIds : S!EnqueueTriggered(r) \/ S!ClaimNext(r) \/ S!RequeueClaim(r) => S!Next
  /\ \A r \in S!ReqIds, c \in CycIds : S!CreateCycle(c, r) => S!Next
  /\ \A r \in S!ReqIds, s \in S!SerIds :
       /\ S!RestartSeries(s, r) \/ S!RetryFailed(s, r) => S!Next
       /\ \A t \in Targets : S!CreateAutoSeries(s, r, t) => S!Next
       /\ \A proposed \in BOOLEAN : S!EnqueueDue(s, r, proposed) => S!Next
  /\ \A s \in S!SerIds : S!ContinueFailed(s) \/ S!EndDueSeries(s) => S!Next
<1> USE DEF CycIds, S!Next
<1>1. \A r \in S!ReqIds : S!EnqueueTriggered(r) \/ S!ClaimNext(r) \/ S!RequeueClaim(r) => S!Next
  BY DEF S!Requests
<1>2. \A r \in S!ReqIds, c \in CycIds : S!CreateCycle(c, r) => S!Next
  BY DEF S!Requests
<1>3. \A r \in S!ReqIds, s \in S!SerIds : S!RestartSeries(s, r) \/ S!RetryFailed(s, r) => S!Next
  BY DEF S!Requests
<1>4. \A r \in S!ReqIds, s \in S!SerIds, t \in Targets : S!CreateAutoSeries(s, r, t) => S!Next
  BY DEF S!Requests
<1>5. \A r \in S!ReqIds, s \in S!SerIds, proposed \in BOOLEAN :
        S!EnqueueDue(s, r, proposed) => S!Next
  BY DEF S!Requests
<1>6. \A s \in S!SerIds : S!ContinueFailed(s) \/ S!EndDueSeries(s) => S!Next
  BY DEF S!Series
<1> QED BY <1>1, <1>2, <1>3, <1>4, <1>5, <1>6

LEMMA RunSteps ==
  /\ S!CancelRun => S!Next
  /\ run = "running" /\ S!SetRun("paused") => S!Next
  /\ \A canceled \in BOOLEAN : S!InterruptRun(canceled) => S!Next
  /\ \A protected \in SUBSET CycIds : S!ReconcileLifecycle(protected) => S!Next
BY DEF CycIds, S!Next, S!Runs, S!PauseRun

\* The writes of a cycle's status, and what they find it in.
LEMMA CycleSteps ==
  ASSUME NEW c \in CycIds
  PROVE  /\ S!SettleCycle(c) \/ S!PauseSeries(c) => S!Next
         /\ S!PublishDecision(c) \/ S!AnswerDecision(c) => S!Next
         /\ cyc[c].status = "running" /\ S!DeferDecision(c) => S!Next
         /\ \A stage \in {"add_work", "later"} : S!RecoverProvider(c, stage) => S!Next
         /\ cyc[c].status \in S!Executable =>
              /\ S!SetCycleAndRun(c, "running", "running") => S!Next
              /\ S!SetCycle(c, "running") => S!Next
         /\ cyc[c].status = "running" => \A status \in S!TerminalCycle :
              /\ S!SetCycleAndRun(c, status, status) => S!Next
              /\ S!SetCycleAndRun(c, "running", status) => S!Next
         /\ cyc[c].status = "running" /\ S!SetCycleAndRun(c, "paused", "paused") => S!Next
         /\ cyc[c].status \in {"queued", "interrupted"} /\ S!SetCycle(c, "failed") => S!Next
         /\ cyc[c].status \in {"queued", "running", "waiting_for_provider"} /\
              S!SetCycle(c, "interrupted") => S!Next
         /\ cyc[c].status \in {"queued", "running", "interrupted"} /\
              S!SetCycleAndRun(c, "interrupted", "interrupted") => S!Next
         /\ S!WaitForProvider(c) => S!Next
<1> USE DEF CycIds, S!Next
<1>1. S!SettleCycle(c) \/ S!PauseSeries(c) \/ S!PublishDecision(c) \/ S!AnswerDecision(c)
        \/ S!WaitForProvider(c) => S!Next
  BY DEF S!Cycles
<1>2. cyc[c].status = "running" /\ S!DeferDecision(c) => S!Next
  BY DEF S!Cycles
<1>3. \A stage \in {"add_work", "later"} : S!RecoverProvider(c, stage) => S!Next
  BY DEF S!Cycles
<1>4. S!Activate(c) \/ S!PauseCycle(c) \/ S!FailUnstarted(c) \/ S!Interrupt(c)
        \/ S!InterruptAmbiguous(c) => S!Next
  BY DEF S!Cycles
<1>5. \A status \in S!TerminalCycle : S!Finish(c, status) => S!Next
  BY DEF S!Cycles
<1>6. cyc[c].status \in S!Executable =>
        /\ S!SetCycleAndRun(c, "running", "running") => S!Next
        /\ S!SetCycle(c, "running") => S!Next
  BY <1>4 DEF S!Activate, S!SetCycle
<1>7. cyc[c].status = "running" => \A status \in S!TerminalCycle :
        /\ S!SetCycleAndRun(c, status, status) => S!Next
        /\ S!SetCycleAndRun(c, "running", status) => S!Next
  BY <1>5 DEF S!Finish
<1>8. cyc[c].status = "running" /\ S!SetCycleAndRun(c, "paused", "paused") => S!Next
  BY <1>4 DEF S!PauseCycle
<1>9. cyc[c].status \in {"queued", "interrupted"} /\ S!SetCycle(c, "failed") => S!Next
  BY <1>4 DEF S!FailUnstarted
<1>10. cyc[c].status \in {"queued", "running", "waiting_for_provider"} /\
         S!SetCycle(c, "interrupted") => S!Next
  BY <1>4 DEF S!Interrupt
<1>11. cyc[c].status \in {"queued", "running", "interrupted"} /\
         S!SetCycleAndRun(c, "interrupted", "interrupted") => S!Next
  BY <1>4 DEF S!InterruptAmbiguous
<1> HIDE DEF S!Next
<1> QED BY <1>1, <1>2, <1>3, <1>6, <1>7, <1>8, <1>9, <1>10, <1>11

-----------------------------------------------------------------------------
(* The same store: theorems about an instance of CycleStoreProofs speak of  *)
(* the instance that CycleDispatcher is built from.                        *)

LEMMA SameRequests == S!Requests => Stored!Requests
BY DEF S!Requests, Stored!Requests, S!ReqIds, Stored!ReqIds, S!EnqueueTriggered,
  Stored!EnqueueTriggered, S!Insert, Stored!Insert, S!NextRow, Stored!NextRow, S!ClaimNext,
  Stored!ClaimNext, S!NoneDispatching, Stored!NoneDispatching, S!OldestQueued,
  Stored!OldestQueued, S!RequeueClaim, Stored!RequeueClaim, S!CycleOf, Stored!CycleOf,
  S!CycIds, Stored!CycIds, S!SerIds, Stored!SerIds, S!CreateAutoSeries,
  Stored!CreateAutoSeries, S!StartSeries, Stored!StartSeries, S!NoActiveSeries,
  Stored!NoActiveSeries, S!ActiveSeries, Stored!ActiveSeries, S!RestartSeries,
  Stored!RestartSeries, S!LatestSeries, Stored!LatestSeries, S!RetryFailed,
  Stored!RetryFailed, S!Retriable, Stored!Retriable, S!EnqueueDue, Stored!EnqueueDue,
  S!HasInstruction, Stored!HasInstruction, S!LatestFinalCycle, Stored!LatestFinalCycle,
  S!TerminalCycle, Stored!TerminalCycle, S!FailedCycle, Stored!FailedCycle, S!SlotTaken,
  Stored!SlotTaken, S!CreateCycle, Stored!CreateCycle

LEMMA SameSeries == S!Series => Stored!Series
BY DEF S!Series, Stored!Series, S!SerIds, Stored!SerIds, S!ContinueFailed,
  Stored!ContinueFailed, S!SlotSettled, Stored!SlotSettled, S!EndDueSeries,
  Stored!EndDueSeries, S!LeadIsDone, Stored!LeadIsDone, S!CycIds, Stored!CycIds,
  S!LatestFinalCycle, Stored!LatestFinalCycle, S!TerminalCycle, Stored!TerminalCycle,
  S!FailedCycle, Stored!FailedCycle

LEMMA SameCycles == S!Cycles => Stored!Cycles
BY DEF S!Cycles, Stored!Cycles, S!CycIds, Stored!CycIds, S!SettleCycle, Stored!SettleCycle,
  S!TerminalCycle, Stored!TerminalCycle, S!SeriesAfter, Stored!SeriesAfter, S!SettledCycle,
  Stored!SettledCycle, S!SlotSettled, Stored!SlotSettled, S!FailedCycle, Stored!FailedCycle,
  S!PauseSeries, Stored!PauseSeries, S!Activate, Stored!Activate, S!Executable,
  Stored!Executable, S!SetCycleAndRun, Stored!SetCycleAndRun, S!FailUnstarted,
  Stored!FailUnstarted, S!SetCycle, Stored!SetCycle, S!PauseCycle, Stored!PauseCycle,
  S!Finish, Stored!Finish, S!Interrupt, Stored!Interrupt, S!InterruptAmbiguous,
  Stored!InterruptAmbiguous, S!WaitForProvider, Stored!WaitForProvider, S!RecoverProvider,
  Stored!RecoverProvider, S!DeferDecision, Stored!DeferDecision, S!PublishDecision,
  Stored!PublishDecision, S!CanPublish, Stored!CanPublish, S!SeriesOf, Stored!SeriesOf,
  S!AnswerDecision, Stored!AnswerDecision, S!RetryFailedTask, Stored!RetryFailedTask,
  S!NextRow, Stored!NextRow

LEMMA SameRuns == S!Runs => Stored!Runs
BY DEF S!Runs, Stored!Runs, S!CancelRun, Stored!CancelRun, S!ReqIds, Stored!ReqIds, S!Live,
  Stored!Live, S!CycIds, Stored!CycIds, S!CanceledWithRun, Stored!CanceledWithRun, S!SerIds,
  Stored!SerIds, S!ActiveSeries, Stored!ActiveSeries, S!ReopenRun, Stored!ReopenRun,
  S!PauseRun, Stored!PauseRun, S!SetRun, Stored!SetRun, S!InterruptRun, Stored!InterruptRun,
  S!InterruptedCycle, Stored!InterruptedCycle, S!ReconcileLifecycle,
  Stored!ReconcileLifecycle, S!OpenDecisions, Stored!OpenDecisions, S!TerminalRun,
  Stored!TerminalRun, S!TerminalCycle, Stored!TerminalCycle, S!LastOpenOf, Stored!LastOpenOf,
  S!SeriesOf, Stored!SeriesOf

LEMMA SameTypes == S!TypeOK <=> Stored!TypeOK
BY DEF S!TypeOK, Stored!TypeOK, S!RunStatus, Stored!RunStatus, S!ReqIds, Stored!ReqIds,
  S!ReqRow, Stored!ReqRow, S!ReqStatus, Stored!ReqStatus, S!SerIds, Stored!SerIds, S!CycIds,
  Stored!CycIds, S!CycRow, Stored!CycRow, S!CycleStatus, Stored!CycleStatus, S!TerminalCycle,
  Stored!TerminalCycle, S!SerRow, Stored!SerRow, S!SeriesStatus, Stored!SeriesStatus,
  S!ActiveSeries, Stored!ActiveSeries, S!DecisionStatus, Stored!DecisionStatus

LEMMA SameInit == S!Init => Stored!Init
BY DEF S!Init, Stored!Init, S!ReqIds, Stored!ReqIds, S!AbsentReq, Stored!AbsentReq, S!CycIds,
  Stored!CycIds, S!AbsentCyc, Stored!AbsentCyc, S!SerIds, Stored!SerIds, S!AbsentSer,
  Stored!AbsentSer

LEMMA StoreTypeStep == S!TypeOK /\ (S!Next \/ UNCHANGED store) => S!TypeOK'
<1> SUFFICES ASSUME S!TypeOK, S!Next \/ UNCHANGED store PROVE S!TypeOK'
  OBVIOUS
<1>1. Stored!TypeOK
  BY SameTypes
<1>2. S!Next => Stored!Next
  BY SameRequests, SameSeries, SameCycles, SameRuns DEF S!Next, Stored!Next
<1>3. UNCHANGED store => UNCHANGED Stored!store
  BY DEF store, Stored!store
<1>4. Stored!TypeOK'
  BY <1>1, <1>2, <1>3, Stored!TypeStep, StoreConstants
<1>5. S!TypeOK' <=> Stored!TypeOK'
  BY SameTypes, PTL
<1> QED BY <1>4, <1>5

-----------------------------------------------------------------------------
(* The inductive invariant.                                                *)

\* The events under which one cycle at a time runs.  Each of the others lets a
\* cycle run without a dispatching request, or outlive its request: a reopened run
\* keeps a paused cycle, a retried task's cycle has no request, a graceful stop
\* revives a canceled cycle, a failing cycle leaves its call open, and an answer
\* reaches a task whose run an emergency stop has canceled.
Ordinary ==
  Events \cap {"reopen", "retry_task", "shutdown", "leaves_call", "late_answers"} = {}

\* before the start-up has looked at the calls that were open
Unrepaired == {"down", "interrupt_active", "reconcile_ops"}
Repaired == {"reconcile_decisions", "interrupt_cycles", "reconcile_requests", "enqueue_due"}
AtRest == Unrepaired \cup Repaired
AfterCancel == {"canceled", "gathering", "halted"}

ServerFits == server \in AtRest \cup AfterCancel \cup {"up", "halting"}

\* A cycle that is not over owns the dispatching request, unless the run was
\* canceled while the cycle was paused.
RowsFit ==
  /\ S!OneDispatching
  /\ \A c, d \in CycIds : cyc[c].request # 0 /\ cyc[c].request = cyc[d].request => c = d
  /\ \A c \in CycIds : cyc[c].status = "absent" <=> cyc[c].request = 0
  /\ \A c \in CycIds : cyc[c].request # 0 =>
       \/ Over(c) \/ Dispatching(c)
       \/ cyc[c].status \in {"paused", "waiting_for_user"} /\ run = "canceled"

RegistryFits == \A c \in CycIds : task[c] # "unfrozen" /\ (task[c] # "none" <=> reg = c)

\* What the loop still has to do before anything is scheduled: no task yet or any more.
Section == {"claimed", "created", "settling"}
Between == marks # {} \/ \E w \in Workers : wk[w].news # "none" \/ wk[w].pc \in Section
BetweenFits == Between => reg = 0

SectionFits(w) ==
  /\ wk[w].pc \in Section =>
       /\ marks = {}
       /\ \A v \in Workers \ {w} : wk[v].news = "none" /\ wk[v].pc \notin Section
  /\ wk[w].pc \in {"claimed", "created"} =>
       server = "up" /\ waiter = 0 /\ run # "canceled" /\ wk[w].news = "none"
  /\ wk[w].pc \in {"created", "awaiting", "settling"} => wk[w].cycle # 0
  /\ wk[w].pc = "created" =>
       /\ cyc[wk[w].cycle].status = "queued" /\ Dispatching(wk[w].cycle)
       /\ op[wk[w].cycle].st = "none"
  /\ wk[w].pc = "settling" /\ server = "halting" => cyc[wk[w].cycle].status # "canceled"

\* a cycle that an ambiguous call is about to interrupt
IsAmbiguous(c) ==
  op[c].st = "ambiguous" /\ cyc[c].status \notin {"paused", "absent", "canceled"}

\* One worker awaits at most, and what it awaits is the registered task.
AwaitFits(w) ==
  /\ wk[w].news # "none" => wk[w].pc \in {"awaiting", "settling"}
  /\ wk[w].pc = "awaiting" =>
       /\ marks = {} /\ \A v \in Workers : wk[v].pc = "awaiting" => v = w
       /\ wk[w].news = "none" =>
            /\ reg = wk[w].cycle
            /\ task[reg] \in {"plan_due", "planning"} => cyc[reg].status = "queued"
       /\ wk[w].news = "error" =>
            cyc[wk[w].cycle].status = "queued" /\ op[wk[w].cycle].st = "none"
       /\ wk[w].news = "canceled" =>
            /\ Over(wk[w].cycle) \/ cyc[wk[w].cycle].status \in {"queued", "interrupted"}
            /\ claim # wk[w].cycle
       /\ wk[w].news = "ambiguous" => IsAmbiguous(wk[w].cycle)

WorkerFits(w) ==
  /\ SectionFits(w) /\ AwaitFits(w)
  /\ server \in AtRest \cup AfterCancel => wk[w].pc = "off"
  /\ server = "halting" => wk[w].pc \in {"off", "awaiting", "settling"}

MarksFit ==
  /\ server \in AtRest \cup AfterCancel => marks = {}
  /\ \A c \in marks : IsAmbiguous(c)

RestFits == server \in AtRest => reg = 0 /\ claim = 0 /\ waiter = 0 /\ doomed = {}

DoomedFits ==
  /\ \A c \in doomed : /\ reg = c /\ task[c] \in {"planning", "working"}
                       /\ server = "up" => waiter = c
  /\ CancelIsDue => reg = 0
  /\ server = "gathering" /\ reg # 0 => reg \in doomed

\* The claim of a recovery is alone, or its cycle was canceled meanwhile.
ClaimFits ==
  claim # 0 =>
    /\ server = "up"
    /\ \/ op[claim].st = "none" /\ Over(claim)
       \/ /\ op[claim].st = "prepared" /\ reg = 0 /\ Dispatching(claim)
          /\ cyc[claim].status \in {"queued", "running"}

\* A task, its call, its cycle and its run.
TaskFits(c) ==
  /\ Dispatching(c) /\ run # "canceled"
  /\ task[c] = "plan_due" =>
       /\ cyc[c].status \in {"queued", "interrupted"}
       /\ op[c].st \in {"none", "prepared", "completed"} /\ (op[c].st # "none" => op[c].planning)
  /\ task[c] = "planning" =>
       /\ cyc[c].status \in {"queued", "interrupted"}
       /\ op[c].st \in {"invoking", "prepared"} /\ op[c].planning
  /\ task[c] = "resume_due" =>
       /\ cyc[c].status \in {"running", "interrupted", "paused"} /\ op[c].st # "invoking"
       /\ op[c].st \in {"prepared", "completed"} => ~op[c].planning
       /\ op[c].st = "ambiguous" => cyc[c].status = "running"
  /\ task[c] = "working" =>
       /\ cyc[c].status = "running" /\ run = "running"
       /\ op[c].st \in {"invoking", "prepared"} /\ ~op[c].planning
  /\ task[c] = "ended" => (Over(c) \/ cyc[c].status = "waiting_for_user") /\ op[c].st = "none"
  /\ server = "halting" => task[c] \in {"planning", "working", "ended"}

\* a task that an emergency stop has still to cancel
CanceledTaskFits(c) ==
  /\ task[c] \in {"planning", "working"} /\ cyc[c].status = "canceled"
  /\ task[c] = "working" => run = "canceled"

RegisteredFits ==
  reg # 0 => /\ server \notin {"canceled", "gathering"} => TaskFits(reg)
             /\ server \in {"canceled", "gathering"} => CanceledTaskFits(reg)
             /\ server # "halted"

CallOfCanceled(c) ==
  /\ cyc[c].status = "canceled"
  /\ \/ server = "up" /\ waiter = c /\ c \notin doomed
     \/ server = "halting" /\ Dispatching(c)
     \/ server \in Unrepaired

CallOfLive(c) ==
  /\ Dispatching(c) /\ ~Over(c)
  /\ run = "canceled" => server \in Unrepaired
  /\ op[c].st \in {"invoking", "prepared", "completed"} =>
       cyc[c].status \in IF op[c].planning THEN {"queued", "interrupted"} ELSE {"running"}
  /\ op[c].st = "waiting" => run # "interrupted"

Held(c) == reg = c \/ claim = c \/ (waiter = c /\ c \notin doomed)

OpFits(c) ==
  op[c].st # "none" =>
    /\ CallOfCanceled(c) \/ CallOfLive(c)
    /\ server = "up" /\ op[c].st \in {"invoking", "prepared", "completed"} => Held(c)
    /\ server \in Repaired => op[c].st # "invoking"

RunFits ==
  /\ run = "running" => \E c \in CycIds : Dispatching(c) /\ cyc[c].status # "queued" /\ ~Over(c)
  /\ \A c \in CycIds : Dispatching(c) /\ cyc[c].status = "paused" =>
        run \notin {"completed", "completed_with_failures", "failed"}

StoppedFits ==
  server \in AfterCancel =>
    /\ tokens = 0 /\ claim = 0 /\ run # "running" /\ ~HasActiveWork
    /\ \A c \in CycIds : op[c].st = "none"

DispatcherInv ==
  /\ TypeOK /\ Stored!CycleInv /\ ServerFits /\ RowsFit /\ RegistryFits /\ BetweenFits
  /\ \A w \in Workers : WorkerFits(w)
  /\ MarksFit /\ RestFits /\ DoomedFits /\ ClaimFits /\ RegisteredFits
  /\ \A c \in CycIds : OpFits(c)
  /\ RunFits /\ StoppedFits

-----------------------------------------------------------------------------
(* Every step of the process is a step of the store, or none of its own.   *)

StoreStep == S!Next \/ UNCHANGED store

LEMMA WhatMayHappen ==
  ASSUME Ordinary
  PROVE  \A e \in {"reopen", "retry_task", "shutdown", "leaves_call", "late_answers"} : ~May(e)
BY DEF Ordinary, May

LEMMA StoreUnchanged == UNCHANGED store <=> UNCHANGED <<run, req, cyc, ser, dec>>
BY DEF store

\* SetCycle to what a settlement finds; on_team_run_settled
LEMMA SettlementRefines ==
  ASSUME NEW c \in CycIds, OnSettled(c)
  PROVE  StoreStep
BY CycleSteps DEF OnSettled, StoreStep

LEMMA WorkerRefines ==
  ASSUME DispatcherInv, NEW w \in Workers, Worker(w)
  PROVE  StoreStep
<1> USE DEF StoreStep
<1>0. /\ wk[w].cycle \in CycIds \cup {0} /\ WorkerFits(w)
      /\ \A c \in CycIds : cyc[c].status \in S!CycleStatus \cup {"absent"}
  BY DEF DispatcherInv, TypeOK, S!TypeOK, CycIds, S!CycRow
<1>1. CASE Take(w)
  BY <1>1, RequestSteps DEF Take
<1>2. CASE Create(w)
  BY <1>2, RequestSteps DEF Create
<1>3. CASE CreateFails(w)
  BY <1>3, RequestSteps DEF CreateFails
<1>4. CASE FreezeFails(w)
  BY <1>4, <1>0, CycleSteps DEF FreezeFails, WorkerFits, SectionFits
<1>5. CASE Launch(w)
  BY <1>5 DEF Launch
<1>6. CASE WakeDone(w)
  BY <1>6 DEF WakeDone
<1>7. CASE WakeError(w)
  <2>1. wk[w].pc = "awaiting" /\ wk[w].news = "error"
    BY <1>7 DEF WakeError, Wakes
  <2>2. wk[w].cycle \in CycIds /\ cyc[wk[w].cycle].status = "queued"
    BY <2>1, <1>0 DEF WorkerFits, AwaitFits, SectionFits
  <2> QED BY <1>7, <2>2, CycleSteps DEF WakeError
<1>8. CASE WakeInterrupted(w)
  <2>1. wk[w].pc = "awaiting" /\ wk[w].news \in {"ambiguous", "canceled"}
    BY <1>8 DEF WakeInterrupted, Wakes
  <2>2. wk[w].cycle \in CycIds /\ cyc[wk[w].cycle].status \notin {"paused", "absent"}
    BY <2>1, <1>0 DEF WorkerFits, AwaitFits, SectionFits, IsAmbiguous, Over, S!TerminalCycle
  <2>3. \/ Over(wk[w].cycle) \/ Parked(wk[w].cycle)
        \/ cyc[wk[w].cycle].status \in {"queued", "running", "waiting_for_provider"}
    BY <2>2, <1>0 DEF Over, Parked, S!CycleStatus
  <2> QED BY <1>8, <2>2, <2>3, CycleSteps DEF WakeInterrupted
<1>9. CASE WorkerSettles(w)
  <2>1. wk[w].cycle \in CycIds
    BY <1>9, <1>0 DEF WorkerSettles, WorkerFits, SectionFits
  <2> QED BY <1>9, <2>1, SettlementRefines DEF WorkerSettles
<1> QED BY <1>1, <1>2, <1>3, <1>4, <1>5, <1>6, <1>7, <1>8, <1>9 DEF Worker
\* A task that takes a step is the registered one and fits its cycle.
LEMMA RunsFits ==
  ASSUME DispatcherInv, Ordinary, NEW c \in CycIds,
         NEW statuses \in SUBSET (TaskStatus \ {"none"}), Runs(c, statuses)
  PROVE  /\ server \in {"up", "halting"} /\ Quiet
         /\ reg = c /\ TaskFits(c) /\ OpFits(c) /\ c \notin doomed /\ task[c] \in statuses
<1>1. task[c] \in statuses /\ task[c] # "none" /\ c \notin doomed /\ Alive /\ Quiet
  BY DEF Runs, Alive
<1>2. reg = c /\ c # 0
  BY <1>1 DEF DispatcherInv, RegistryFits, CycIds, S!CycIds
<1>3. server \in {"up", "halting"}
  BY <1>1, <1>2, WhatMayHappen
    DEF Alive, Running, EmergencyPhases, DispatcherInv, ServerFits, AtRest, Unrepaired, Repaired,
        AfterCancel, DoomedFits, RegisteredFits
<1>4. TaskFits(c)
  BY <1>2, <1>3 DEF DispatcherInv, RegisteredFits
<1> QED BY <1>1, <1>2, <1>3, <1>4 DEF DispatcherInv

LEMMA TaskRefines ==
  ASSUME DispatcherInv, Ordinary, NEW c \in CycIds, Task(c)
  PROVE  StoreStep
<1> USE DEF StoreStep
<1>1. ASSUME Runs(c, {"working"})
      PROVE  cyc[c].status = "running" /\ run = "running" /\ ~op[c].planning
  BY <1>1, RunsFits DEF TaskStatus, TaskFits
<1>2. ASSUME Runs(c, {"planning"})
      PROVE  cyc[c].status \in {"queued", "interrupted"} /\ op[c].planning
  BY <1>2, RunsFits DEF TaskStatus, TaskFits
<1>3. ASSUME Runs(c, {"planning", "working"})
      PROVE  cyc[c].status \in {"queued", "running", "interrupted"}
  BY <1>3, RunsFits DEF TaskStatus, TaskFits
<1>4. ASSUME Runs(c, {"plan_due"}) \/ Runs(c, {"resume_due"})
      PROVE  cyc[c].status \in S!Executable
  BY <1>4, RunsFits DEF TaskStatus, TaskFits, S!Executable
<1>5. ASSUME cyc[c].status \in S!Executable, Works(c)
      PROVE  S!Next
  BY <1>5, CycleSteps DEF Works
<1>6. CASE StartPlan(c) \/ BackOff(c) \/ TryAgain(c) \/ PlanFails(c) \/ ResumeRefused(c)
  BY <1>6 DEF StartPlan, BackOff, TryAgain, PlanFails, ResumeRefused
<1>7. CASE ReplayPlan(c) \/ PlanDone(c) \/ StartResume(c)
  BY <1>7, <1>2, <1>4, <1>5 DEF ReplayPlan, PlanDone, StartResume, S!Executable
<1>8. CASE ProviderWaits(c)
  <2>1. S!WaitForProvider(c)
    BY <1>8 DEF ProviderWaits, Dispatching, S!WaitForProvider
  <2> QED BY <2>1, CycleSteps
<1>9. CASE ProviderAmbiguous(c)
  BY <1>9, <1>3, CycleSteps DEF ProviderAmbiguous
<1>10. CASE WorkDefers(c) \/ WorkAsks(c) \/ WorkPauses(c) \/ WorkEnds(c) \/ WorkFails(c)
  BY <1>10, <1>1, CycleSteps
    DEF WorkDefers, WorkAsks, WorkPauses, WorkEnds, WorkFails, S!TerminalCycle
<1>11. CASE TaskSettles(c)
  BY <1>11, SettlementRefines DEF TaskSettles
<1>12. CASE CancelDelivered(c)
  <2>1. CASE task[c] # "working"
    BY <1>12, <2>1 DEF CancelDelivered
  <2>2. CASE task[c] = "working" /\ server \in {"canceled", "gathering"}
    <3>1. reg = c /\ CanceledTaskFits(c)
      BY <2>2 DEF DispatcherInv, RegistryFits, RegisteredFits, CycIds, S!CycIds
    <3>2. cyc[c].status = "canceled" /\ run = "canceled"
      BY <2>2, <3>1 DEF CanceledTaskFits
    <3>3. S!SetCycleAndRun(c, "canceled", "canceled")
      BY <1>12, <2>2 DEF CancelDelivered
    <3>4. cyc \in [CycIds -> S!CycRow]
      BY DEF DispatcherInv, TypeOK, S!TypeOK, CycIds
    <3> QED BY <3>2, <3>3, <3>4 DEF S!SetCycleAndRun, store, S!CycRow
  <2>3. CASE task[c] = "working" /\ server \notin {"canceled", "gathering"}
    <3>1. reg = c /\ TaskFits(c)
      BY <2>3 DEF DispatcherInv, RegistryFits, RegisteredFits, CycIds, S!CycIds
    <3> QED BY <1>12, <2>3, <3>1, CycleSteps DEF CancelDelivered, TaskFits, S!TerminalCycle
  <2> QED BY <2>1, <2>2, <2>3
<1> QED BY <1>6, <1>7, <1>8, <1>9, <1>10, <1>11, <1>12 DEF Task

LEMMA MarkerRefines ==
  ASSUME DispatcherInv, NEW c \in CycIds, MarkerInterrupts(c)
  PROVE  StoreStep
<1>1. c \in marks /\ cyc[c].status \notin {"paused", "absent"}
  BY DEF MarkerInterrupts, DispatcherInv, MarksFit, IsAmbiguous
<1>2. cyc[c].status \in S!CycleStatus \cup {"absent"}
  BY DEF DispatcherInv, TypeOK, S!TypeOK, CycIds, S!CycRow
<1>3. \/ Over(c) \/ Parked(c)
      \/ cyc[c].status \in {"queued", "running", "waiting_for_provider"}
  BY <1>1, <1>2 DEF Over, Parked, S!CycleStatus
<1>4. CASE Over(c) \/ Parked(c)
  BY <1>4, SettlementRefines DEF MarkerInterrupts
<1>5. CASE ~(Over(c) \/ Parked(c))
  BY <1>3, <1>5, CycleSteps DEF MarkerInterrupts, StoreStep
<1> QED BY <1>4, <1>5

LEMMA TickRefines ==
  ASSUME Tick
  PROVE  StoreStep
<1>1. CASE RecoverDue
  <2>1. PICK c \in CycIds : S!RecoverProvider(c, IF op[c].planning THEN "add_work" ELSE "later")
    BY <1>1 DEF RecoverDue
  <2> QED BY <2>1, CycleSteps DEF StoreStep
<1>2. CASE ResumeClaim
  BY <1>2 DEF ResumeClaim, StoreStep
<1>3. CASE TickEnqueues
  BY <1>3, RequestSteps DEF TickEnqueues, EnqueueDue, StoreStep
<1> QED BY <1>1, <1>2, <1>3 DEF Tick

LEMMA HandlersRefine ==
  ASSUME DispatcherInv, Ordinary, Handlers
  PROVE  StoreStep
<1> USE DEF StoreStep
<1>1. CASE Enqueue
  BY <1>1, RequestSteps DEF Enqueue, TriggerCycle, RetryAutoCycle, RestartAutoSeries
<1>2. CASE Continue
  BY <1>2, RequestSteps DEF Continue
<1>3. CASE Answer
  BY <1>3, CycleSteps DEF Answer
<1>4. CASE Resume
  <2>1. CASE ResumePlain
    BY <2>1 DEF ResumePlain
  <2>2. CASE ResumeAmbiguous
    <3>1. PICK c \in CycIds :
            S!RecoverProvider(c, IF op[c].planning THEN "add_work" ELSE "later")
      BY <2>2 DEF ResumeAmbiguous
    <3> QED BY <3>1, CycleSteps
  <2> QED BY <1>4, <2>1, <2>2 DEF Resume
<1>5. CASE Pause
  BY <1>5, RunSteps DEF Pause
<1>6. CASE Cancel \/ CancelReturns
  BY <1>6, RunSteps DEF Cancel, CancelReturns, CancelNow, CancelWithCalls
<1>7. ~Reopen /\ ~RetryTask
  BY WhatMayHappen DEF Reopen, RetryTask
<1>8. \A c \in CycIds : ~RetryFreezes(c)
  BY DEF RetryFreezes, DispatcherInv, RegistryFits
<1> QED BY <1>1, <1>2, <1>3, <1>4, <1>5, <1>6, <1>7, <1>8 DEF Handlers

\* What a crash cuts short is a task that would have gone on.
LEMMA CutShortRefines ==
  ASSUME DispatcherInv, Ordinary, NEW c \in CycIds, CutShort(c)
  PROVE  StoreStep
<1> USE DEF StoreStep
<1>1. c # 0 /\ (task[c] # "none" => reg = c)
  BY DEF DispatcherInv, RegistryFits, CycIds, S!CycIds
<1>2. cyc \in [CycIds -> S!CycRow]
  BY DEF DispatcherInv, TypeOK, S!TypeOK, CycIds
<1>3. CASE UNCHANGED store
  BY <1>3
<1>4. CASE server \in {"canceled", "gathering"} /\ task[c] # "none" /\ ~UNCHANGED store
  <2>1. CanceledTaskFits(c) /\ op[c].st = "none"
    BY <1>1, <1>4 DEF DispatcherInv, RegisteredFits, StoppedFits, AfterCancel
  <2>2. run = "canceled" /\ S!SetRun("canceled")
    BY <2>1, <1>4 DEF CutShort, CanceledTaskFits
  <2> QED BY <2>2 DEF S!SetRun, store
<1>5. CASE server \notin {"canceled", "gathering"} /\ task[c] # "none"
  <2>1. TaskFits(c)
    BY <1>1, <1>5 DEF DispatcherInv, RegisteredFits
  <2>2. ASSUME task[c] = "working", NEW status \in S!TerminalCycle, S!SetRun(status)
        PROVE  S!Next
    <3>1. S!SetCycleAndRun(c, "running", status)
      BY <2>1, <2>2, <1>2 DEF TaskFits, S!SetRun, S!SetCycleAndRun, S!CycRow
    <3> QED BY <2>1, <2>2, <3>1, CycleSteps DEF TaskFits
  <2>3. CASE task[c] = "planning" /\ S!SetCycle(c, "running")
    BY <2>1, <2>3, CycleSteps DEF TaskFits, S!Executable
  <2>4. CASE task[c] = "resume_due" /\ S!SetCycle(c, "running")
    BY <2>1, <2>4, CycleSteps DEF TaskFits, S!Executable
  <2>5. CASE task[c] = "working" /\ (S!SetRun("failed") \/ S!SetRun("blocked") \/ S!SetRun("canceled"))
    BY <2>2, <2>5 DEF S!TerminalCycle
  <2>6. CASE task[c] = "working" /\ S!SetRun("paused")
    BY <2>1, <2>6, RunSteps DEF TaskFits
  <2> QED BY <1>5, <1>3, <2>3, <2>4, <2>5, <2>6 DEF CutShort
<1> QED BY <1>3, <1>4, <1>5 DEF CutShort

LEMMA StopsRefine ==
  ASSUME DispatcherInv, Ordinary, Stops \/ Emergency
  PROVE  StoreStep
<1> USE DEF StoreStep
<1>1. CASE Crash
  BY <1>1, CutShortRefines DEF Crash, store
<1>2. CASE Shutdown \/ CancelRegistered \/ EmergencyStop
  BY <1>2 DEF Shutdown, CancelRegistered, EmergencyStop, StopWorkers
<1>3. CASE Exit
  BY <1>3, RunSteps DEF Exit
<1>4. CASE CancelActive \/ StopAnswers
  BY <1>4, RunSteps DEF CancelActive, StopAnswers, CancelWithCalls
<1>5. CASE CancelTasks \/ ResumeIntake
  BY <1>5 DEF CancelTasks, ResumeIntake
<1> QED BY <1>1, <1>2, <1>3, <1>4, <1>5 DEF Stops, Emergency

LEMMA StartsRefine ==
  ASSUME DispatcherInv, Ordinary, Starts
  PROVE  StoreStep
<1> USE DEF StoreStep
<1>1. CASE Boot \/ OpsReconciled \/ Serve
  BY <1>1 DEF Boot, OpsReconciled, Serve
<1>2. CASE InterruptActive
  BY <1>2, RunSteps DEF InterruptActive
<1>3. ASSUME NEW c \in CycIds, ReconcileOp(c) PROVE StoreStep
  <2>1. CASE SourceCanceled(c)
    BY <1>3, <2>1 DEF ReconcileOp
  <2>2. CASE ~SourceCanceled(c)
    <3>1. op[c].st = "invoking" /\ cyc[c].status # "canceled"
      BY <1>3, <2>2 DEF ReconcileOp, Unreconciled, SourceCanceled
    <3>2. cyc[c].status \in {"queued", "running", "interrupted"}
      BY <3>1 DEF DispatcherInv, OpFits, CallOfCanceled, CallOfLive
    <3> QED BY <1>3, <2>2, <3>2, CycleSteps DEF ReconcileOp
  <2> QED BY <2>1, <2>2
<1>4. CASE ReconcileDecisions
  <2>1. Resumable \in SUBSET CycIds
    BY DEF Resumable
  <2> QED BY <1>4, <2>1, RunSteps DEF ReconcileDecisions
<1>5. CASE InterruptCycles
  BY <1>5, CycleSteps DEF InterruptCycles, NotResumed
<1>6. CASE ReconcileRequests
  BY <1>6, RequestSteps, CycleSteps DEF ReconcileRequests
<1>7. CASE BootEnqueues
  BY <1>7, RequestSteps DEF BootEnqueues, EnqueueDue
<1> QED BY <1>1, <1>2, <1>3, <1>4, <1>5, <1>6, <1>7 DEF Starts, StoreStep

LEMMA NextRefines == DispatcherInv /\ Ordinary /\ [Next]_vars => StoreStep
<1>1. UNCHANGED vars => StoreStep
  BY DEF vars, StoreStep
<1> QED BY <1>1, WorkerRefines, TaskRefines, MarkerRefines, TickRefines, HandlersRefine,
           StopsRefine, StartsRefine DEF Next

-----------------------------------------------------------------------------
(* Type correctness.                                                       *)

\* what a process keeps beside the tables
ProcessTypes ==
  /\ op \in [CycIds -> [st: OpStatus, planning: BOOLEAN]]
  /\ pause \in BOOLEAN /\ server \in Phases /\ tokens \in Nat
  /\ wk \in [Workers -> [pc: WorkerPc, cycle: CycIds \cup {0}, news: News]]
  /\ marks \subseteq CycIds
  /\ task \in [CycIds -> TaskStatus]
  /\ doomed \subseteq CycIds
  /\ {reg, claim, waiter} \subseteq CycIds \cup {0}
  /\ stops \in 0..MaxStops

LEMMA TypeParts == TypeOK <=> S!TypeOK /\ ProcessTypes
BY DEF TypeOK, ProcessTypes

LEMMA NewRows ==
  /\ \A st \in OpStatus, planning \in BOOLEAN :
       Call(st, planning) \in [st: OpStatus, planning: BOOLEAN]
  /\ NoCall \in [st: OpStatus, planning: BOOLEAN]
  /\ \A pc \in WorkerPc, c \in CycIds \cup {0} :
       WorkerAt(pc, c) \in [pc: WorkerPc, cycle: CycIds \cup {0}, news: News]
  /\ Off \in [pc: WorkerPc, cycle: CycIds \cup {0}, news: News]
  /\ IdleWorker \in [pc: WorkerPc, cycle: CycIds \cup {0}, news: News]
  /\ AfterRun \in [pc: WorkerPc, cycle: CycIds \cup {0}, news: News]
BY DEF Call, NoCall, WorkerAt, Off, IdleWorker, AfterRun, OpStatus, WorkerPc, News

LEMMA SettlementTypes ==
  ASSUME ProcessTypes, NEW c, OnSettled(c)
  PROVE  op' = op /\ pause' \in BOOLEAN /\ tokens' \in Nat
BY DEF OnSettled, TokensAfterSettlement, ProcessTypes

LEMMA WorkerTypes ==
  ASSUME ProcessTypes, NEW w \in Workers, Worker(w)
  PROVE  ProcessTypes'
<1> USE NewRows DEF ProcessTypes, WorkerMoves, ledger, tasks, consumers, store
<1>0. \A pc \in WorkerPc : [wk[w] EXCEPT !.pc = pc]
                              \in [pc: WorkerPc, cycle: CycIds \cup {0}, news: News]
  OBVIOUS
<1>1. CASE Take(w)
  BY <1>1 DEF Take, WorkerPc
<1>2. CASE Create(w)
  BY <1>2 DEF Create, WorkerPc
<1>3. CASE CreateFails(w)
  BY <1>3 DEF CreateFails
<1>4. CASE FreezeFails(w)
  BY <1>0, <1>4 DEF FreezeFails, ToSettle, WorkerPc
<1>5. CASE Launch(w)
  <2>1. [wk[w] EXCEPT !.pc = "awaiting"] \in [pc: WorkerPc, cycle: CycIds \cup {0}, news: News]
    BY <1>0 DEF WorkerPc
  <2> QED BY <1>5, <2>1 DEF Launch, Schedule, TaskStatus
<1>6. CASE WakeDone(w)
  BY <1>6 DEF WakeDone, Wakes
<1>7. CASE WakeError(w)
  BY <1>0, <1>7 DEF WakeError, Wakes, ToSettle, WorkerPc
<1>8. CASE WakeInterrupted(w)
  <2>1. \/ WorkerMoves(w, AfterRun) \/ ToSettle(w)
    BY <1>8 DEF WakeInterrupted
  <2>2. UNCHANGED <<op, pause, server, tokens, task, doomed, reg, claim, waiter, stops>>
    BY <1>8 DEF WakeInterrupted, Wakes
  <2>3. wk' \in [Workers -> [pc: WorkerPc, cycle: CycIds \cup {0}, news: News]] /\ marks' = marks
    <3>1. CASE WorkerMoves(w, AfterRun)
      BY <3>1
    <3>2. CASE ToSettle(w)
      BY <1>0, <3>2 DEF ToSettle, WorkerPc
    <3> QED BY <2>1, <3>1, <3>2
  <2> QED BY <2>2, <2>3
<1>9. CASE WorkerSettles(w)
  BY <1>9, SettlementTypes DEF WorkerSettles
<1> QED BY <1>1, <1>2, <1>3, <1>4, <1>5, <1>6, <1>7, <1>8, <1>9 DEF Worker

LEMMA TaskEndTypes ==
  ASSUME ProcessTypes, NEW c \in CycIds, NEW news \in News, TaskEnds(c, news)
  PROVE  /\ wk' \in [Workers -> [pc: WorkerPc, cycle: CycIds \cup {0}, news: News]]
         /\ marks' \subseteq CycIds /\ task' \in [CycIds -> TaskStatus]
         /\ doomed' \subseteq CycIds /\ reg' = 0
BY DEF TaskEnds, Deliver, ProcessTypes, TaskStatus

LEMMA TaskTypes ==
  ASSUME ProcessTypes, NEW c \in CycIds, Task(c)
  PROVE  ProcessTypes'
<1> USE DEF ProcessTypes, SetOp, TaskMoves, Runs, Works, ledger, tasks, consumers, store
<1>0. ASSUME Works(c), UNCHANGED <<server, claim, waiter, stops>> PROVE ProcessTypes'
  BY <1>0, NewRows DEF OpStatus, TaskStatus
<1>1. CASE StartPlan(c)
  BY <1>1, NewRows DEF StartPlan, OpStatus, TaskStatus
<1>1a. CASE ReplayPlan(c) \/ PlanDone(c) \/ StartResume(c)
  BY <1>0, <1>1a DEF ReplayPlan, PlanDone, StartResume
<1>1b. CASE BackOff(c) \/ TryAgain(c)
  BY <1>1b, NewRows DEF BackOff, TryAgain, OpStatus
<1>2. CASE PlanFails(c)
  BY <1>2, NewRows, TaskEndTypes DEF PlanFails, LeftOpen, OpStatus, News
<1>3. CASE ResumeRefused(c)
  BY <1>3, TaskEndTypes DEF ResumeRefused, News
<1>4. CASE ProviderWaits(c) \/ ProviderAmbiguous(c)
  BY <1>4, NewRows, TaskEndTypes DEF ProviderWaits, ProviderAmbiguous, OpStatus, News
<1>5. CASE WorkDefers(c)
  BY <1>5 DEF WorkDefers
<1>5a. CASE WorkAsks(c)
  BY <1>5a, NewRows DEF WorkAsks, TaskStatus
<1>5b. CASE WorkEnds(c)
  BY <1>5b, NewRows DEF WorkEnds, TaskStatus
<1>6. CASE WorkPauses(c)
  BY <1>6, NewRows, TaskEndTypes DEF WorkPauses, News
<1>7. CASE WorkFails(c)
  <2>1. LeftOpen(c) \subseteq [st: OpStatus, planning: BOOLEAN]
    BY NewRows DEF LeftOpen, OpStatus
  <2> QED BY <1>7, <2>1 DEF WorkFails, TaskStatus
<1>8. CASE TaskSettles(c)
  BY <1>8, TaskEndTypes, SettlementTypes DEF TaskSettles, News
<1>9. CASE CancelDelivered(c)
  BY <1>9, TaskEndTypes DEF CancelDelivered, News
<1> QED BY <1>1, <1>1a, <1>1b, <1>2, <1>3, <1>4, <1>5, <1>5a, <1>5b, <1>6, <1>7, <1>8, <1>9 DEF Task

LEMMA HandlerTypes ==
  ASSUME ProcessTypes, Tick \/ Handlers \/ \E c \in CycIds : MarkerInterrupts(c)
  PROVE  ProcessTypes'
<1> USE DEF ProcessTypes, ledger, tasks, consumers, store
<1>1. ASSUME NEW c \in CycIds, MarkerInterrupts(c) PROVE ProcessTypes'
  BY <1>1, SettlementTypes DEF MarkerInterrupts
<1>2. CASE RecoverDue
  BY <1>2, NewRows DEF RecoverDue, SetOp, OpStatus
<1>3. CASE ResumeClaim
  BY <1>3 DEF ResumeClaim, Schedule, TaskStatus
<1>4. CASE TickEnqueues \/ Enqueue
  BY <1>4 DEF TickEnqueues, Enqueue
<1>4a. CASE Continue \/ Pause \/ Reopen
  BY <1>4a DEF Continue, Pause, Reopen
<1>5. CASE Answer
  BY <1>5 DEF Answer, Schedule, TaskStatus
<1>6. CASE Resume
  BY <1>6, NewRows DEF Resume, ResumePlain, ResumeAmbiguous, Schedule, SetOp, OpStatus, TaskStatus
<1>7. CASE Cancel
  <2>1. CASE reg # 0
    BY <1>7, <2>1 DEF Cancel
  <2>2. CASE reg = 0
    <3>1. /\ op' = [c \in CycIds |-> IF op[c].st = "none" THEN op[c] ELSE NoCall] /\ pause' = FALSE
          /\ UNCHANGED <<server, tokens, wk, marks, task, doomed, reg, claim, waiter, stops>>
      BY <1>7, <2>2 DEF Cancel, CancelNow, CancelWithCalls
    <3> QED BY <3>1, NewRows
  <2> QED BY <2>1, <2>2
<1>7a. CASE CancelReturns
  BY <1>7a, NewRows DEF CancelReturns, CancelNow, CancelWithCalls
<1>8. CASE RetryTask
  BY <1>8 DEF RetryTask, TaskMoves, TaskStatus
<1>9. ASSUME NEW c \in CycIds, RetryFreezes(c) PROVE ProcessTypes'
  BY <1>9 DEF RetryFreezes, TaskMoves, TaskStatus
<1> QED BY <1>1, <1>2, <1>3, <1>4, <1>4a, <1>5, <1>6, <1>7, <1>7a, <1>8, <1>9
  DEF Tick, Handlers

LEMMA EndTypes ==
  ASSUME ProcessTypes, ProcessEnds, op' \in [CycIds -> [st: OpStatus, planning: BOOLEAN]],
         pause' = pause, stops' \in 0..MaxStops
  PROVE  ProcessTypes'
BY NewRows DEF ProcessTypes, ProcessEnds, Phases, TaskStatus

LEMMA StopTypes ==
  ASSUME ProcessTypes, Stops \/ Emergency
  PROVE  ProcessTypes'
<1> USE DEF ledger, tasks, consumers, store
<1>1. CASE Crash
  <2>1. op' \in [CycIds -> [st: OpStatus, planning: BOOLEAN]]
    BY <1>1, NewRows DEF Crash, CutShort, SetOp, ProcessTypes, OpStatus
  <2>2. stops' \in 0..MaxStops
    BY <1>1, EventsAreKnown DEF Crash, ProcessTypes
  <2> QED BY <1>1, <2>1, <2>2, EndTypes DEF Crash
<1>2. CASE CancelRegistered
  <2>1. CASE reg = 0
    BY <1>2, <2>1, EndTypes DEF CancelRegistered, ProcessTypes
  <2>2. CASE reg # 0
    BY <1>2, <2>2 DEF CancelRegistered, ProcessTypes, Phases
  <2> QED BY <2>1, <2>2
<1>3. CASE Exit
  BY <1>3, EndTypes DEF Exit, ProcessTypes
<1>4. CASE Shutdown
  BY <1>4, NewRows, EventsAreKnown
    DEF Shutdown, StopWorkers, Stopped, Awaits, ProcessTypes, Phases, EmergencyPhases
<1>5. CASE EmergencyStop
  BY <1>5, NewRows DEF EmergencyStop, StopWorkers, Stopped, Awaits, ProcessTypes, Phases, EmergencyPhases
<1>6. CASE CancelActive \/ CancelTasks \/ StopAnswers \/ ResumeIntake
  BY <1>6, NewRows DEF CancelActive, CancelTasks, StopAnswers, ResumeIntake, CancelWithCalls,
                       ProcessTypes, Phases, EmergencyPhases
<1> QED BY <1>1, <1>2, <1>3, <1>4, <1>5, <1>6 DEF Stops, Emergency

LEMMA StartTypes ==
  ASSUME ProcessTypes, Starts
  PROVE  ProcessTypes'
<1> USE DEF ProcessTypes, Phase, ledger, tasks, consumers, store
<1>1. CASE Boot \/ InterruptActive \/ OpsReconciled \/ ReconcileDecisions \/ InterruptCycles
             \/ ReconcileRequests
  BY <1>1 DEF Boot, InterruptActive, OpsReconciled, ReconcileDecisions, InterruptCycles,
              ReconcileRequests, Phases
<1>2. ASSUME NEW c \in CycIds, ReconcileOp(c) PROVE ProcessTypes'
  BY <1>2, NewRows DEF ReconcileOp, SetOp, OpStatus
<1>3. CASE BootEnqueues
  BY <1>3 DEF BootEnqueues
<1>4. CASE Serve
  BY <1>4, NewRows DEF Serve, Resumable, TaskStatus, Phases
<1> QED BY <1>1, <1>2, <1>3, <1>4 DEF Starts

LEMMA NextTypes == DispatcherInv /\ Ordinary /\ [Next]_vars => TypeOK'
<1> SUFFICES ASSUME DispatcherInv, Ordinary, [Next]_vars PROVE TypeOK'
  OBVIOUS
<1>1. S!TypeOK /\ ProcessTypes
  BY TypeParts DEF DispatcherInv
<1>2. S!TypeOK'
  BY <1>1, NextRefines, StoreTypeStep DEF StoreStep
<1>3. UNCHANGED vars => ProcessTypes'
  BY <1>1 DEF vars, ProcessTypes, ledger, tasks, consumers
<1>4. ASSUME Next PROVE ProcessTypes'
  BY <1>1, <1>4, WorkerTypes, TaskTypes, HandlerTypes, StopTypes, StartTypes DEF Next
<1>5. ProcessTypes'
  BY <1>3, <1>4
<1> QED BY <1>2, <1>5 DEF TypeOK, ProcessTypes

-----------------------------------------------------------------------------
(* What the invariant sees of a step of the store.                         *)

LEMMA Fields ==
  ASSUME TypeOK
  PROVE  /\ 0 \notin CycIds /\ 0 \notin S!ReqIds
         /\ \A c \in CycIds : /\ cyc[c].request \in S!ReqIds \cup {0}
                              /\ cyc[c].status \in S!CycleStatus \cup {"absent"}
                              /\ op[c].st \in OpStatus /\ op[c].planning \in BOOLEAN
                              /\ task[c] \in TaskStatus
         /\ \A w \in Workers : /\ wk[w].pc \in WorkerPc /\ wk[w].cycle \in CycIds \cup {0}
                               /\ wk[w].news \in News
         /\ reg \in CycIds \cup {0} /\ claim \in CycIds \cup {0} /\ waiter \in CycIds \cup {0}
         /\ marks \subseteq CycIds /\ doomed \subseteq CycIds
BY DEF TypeOK, S!TypeOK, S!CycRow, CycIds, S!CycIds, S!ReqIds

\* The cycle of the dispatching request is the only live one.
LEMMA OneLive ==
  ASSUME TypeOK, RowsFit
  PROVE  /\ \A c, d \in CycIds : Dispatching(c) /\ Dispatching(d) => c = d
         /\ \A c \in CycIds : cyc[c].status \in {"queued", "running", "interrupted",
                                                 "waiting_for_provider"} => Dispatching(c)
         /\ run # "canceled" =>
              \A c \in CycIds : Over(c) \/ Dispatching(c) \/ cyc[c].status = "absent"
BY Fields DEF RowsFit, Dispatching, S!OneDispatching, Over, S!TerminalCycle, CycIds

\* run and cycles stay the same, and so do the cycles of dispatching requests
QuietStep ==
  /\ run' = run /\ cyc' = cyc /\ S!OneDispatching'
  /\ \A c \in CycIds : Dispatching(c)' <=> Dispatching(c)

LEMMA NothingIsQuiet == RowsFit /\ UNCHANGED <<run, req, cyc>> => QuietStep
BY DEF QuietStep, RowsFit, S!OneDispatching, Dispatching

LEMMA QuietSteps ==
  ASSUME TypeOK, RowsFit
  PROVE  /\ \A r \in S!ReqIds : S!EnqueueTriggered(r) \/ S!RequeueClaim(r) => QuietStep
         /\ \A s \in S!SerIds, r \in S!ReqIds :
              /\ S!RestartSeries(s, r) \/ S!RetryFailed(s, r) => QuietStep
              /\ \A t \in Targets : S!CreateAutoSeries(s, r, t) => QuietStep
              /\ \A proposed \in BOOLEAN : S!EnqueueDue(s, r, proposed) => QuietStep
         /\ \A s \in S!SerIds : S!ContinueFailed(s) \/ S!EndDueSeries(s) => QuietStep
         /\ \A c \in CycIds : S!PauseSeries(c) \/ S!DeferDecision(c) => QuietStep
<1>1. ASSUME NEW r \in S!ReqIds, NEW s, NEW n, NEW old, S!Insert(r, s, n, old)
      PROVE  \A q \in S!ReqIds : req'[q].status = "dispatching" <=> req[q].status = "dispatching"
  BY <1>1 DEF S!Insert, S!NextRow, TypeOK, S!TypeOK
<1>2. ASSUME run' = run, cyc' = cyc,
             \A q \in S!ReqIds : req'[q].status = "dispatching" <=> req[q].status = "dispatching"
      PROVE  QuietStep
  BY <1>2, Fields DEF QuietStep, RowsFit, S!OneDispatching, Dispatching
<1>3. ASSUME NEW r \in S!ReqIds, S!RequeueClaim(r) PROVE QuietStep
  <2>1. \A c \in CycIds : cyc[c].request # r
    BY <1>3, Fields DEF S!RequeueClaim, S!CycleOf, RowsFit, CycIds
  <2>2. \A q \in S!ReqIds : req'[q].status = "dispatching" <=> req[q].status = "dispatching" /\ q # r
    BY <1>3 DEF S!RequeueClaim, TypeOK, S!TypeOK, S!ReqRow
  <2>3. run' = run /\ cyc' = cyc
    BY <1>3 DEF S!RequeueClaim
  <2> QED BY <2>1, <2>2, <2>3, Fields DEF QuietStep, RowsFit, S!OneDispatching, Dispatching
<1>4. ASSUME NEW s \in S!SerIds, NEW r \in S!ReqIds
      PROVE  /\ S!RestartSeries(s, r) \/ S!RetryFailed(s, r) => QuietStep
             /\ \A t \in Targets : S!CreateAutoSeries(s, r, t) => QuietStep
             /\ \A proposed \in BOOLEAN : S!EnqueueDue(s, r, proposed) => QuietStep
  BY <1>1, <1>2 DEF S!RestartSeries, S!StartSeries, S!RetryFailed, S!CreateAutoSeries, S!EnqueueDue
<1>5. \A r \in S!ReqIds : S!EnqueueTriggered(r) => QuietStep
  BY <1>1, <1>2 DEF S!EnqueueTriggered
<1>6. /\ \A s \in S!SerIds : S!ContinueFailed(s) \/ S!EndDueSeries(s) => QuietStep
      /\ \A c \in CycIds : S!PauseSeries(c) \/ S!DeferDecision(c) => QuietStep
  BY NothingIsQuiet DEF S!ContinueFailed, S!EndDueSeries, S!PauseSeries, S!DeferDecision
<1> QED BY <1>3, <1>4, <1>5, <1>6

\* what every step of the store keeps of its tables
LEMMA NextTables == DispatcherInv /\ Ordinary /\ [Next]_vars => Stored!CycleInv'
<1> SUFFICES ASSUME DispatcherInv, StoreStep PROVE Stored!CycleInv'
  BY NextRefines
<1>1. S!Next => Stored!Next
  BY SameRequests, SameSeries, SameCycles, SameRuns DEF S!Next, Stored!Next
<1>2. UNCHANGED store => UNCHANGED Stored!store
  BY DEF store, Stored!store
<1> QED BY <1>1, <1>2, Stored!CycleInvStep, StoreConstants DEF StoreStep, DispatcherInv

\* A step disturbs the parts of the invariant whose variables it changes.
LEMMA Undisturbed ==
  ASSUME DispatcherInv
  PROVE  /\ QuietStep => RowsFit' /\ RunFits'
         /\ UNCHANGED <<task, reg>> => RegistryFits'
         /\ UNCHANGED <<wk, marks, reg>> => BetweenFits'
         /\ UNCHANGED <<wk, marks, server, waiter, op, reg, task, claim>> /\ QuietStep =>
              \A w \in Workers : WorkerFits(w)'
         /\ UNCHANGED <<server, marks, cyc, op>> => MarksFit'
         /\ UNCHANGED <<server, reg, claim, waiter, doomed>> => RestFits'
         /\ UNCHANGED <<server, reg, task, waiter, doomed>> => DoomedFits'
         /\ UNCHANGED <<server, claim, op, reg>> /\ QuietStep => ClaimFits'
         /\ UNCHANGED <<server, reg, task, op>> /\ QuietStep => RegisteredFits'
         /\ UNCHANGED <<server, op, waiter, doomed, reg, claim>> /\ QuietStep =>
              \A c \in CycIds : OpFits(c)'
         /\ server' = server => ServerFits'
         /\ server' \notin AfterCancel => StoppedFits'
<1> USE DEF DispatcherInv
<1>0. TypeOK
  OBVIOUS
<1>a. QuietStep => \A c \in CycIds : Over(c)' <=> Over(c)
  BY DEF QuietStep, Over
<1>1. QuietStep => RowsFit' /\ RunFits'
  BY <1>a DEF QuietStep, RowsFit, RunFits
<1>2. /\ UNCHANGED <<task, reg>> => RegistryFits'
      /\ UNCHANGED <<wk, marks, reg>> => BetweenFits'
      /\ UNCHANGED <<server, marks, cyc, op>> => MarksFit'
      /\ UNCHANGED <<server, reg, claim, waiter, doomed>> => RestFits'
      /\ server' = server => ServerFits'
      /\ server' \notin AfterCancel => StoppedFits'
  BY DEF RegistryFits, BetweenFits, Between, MarksFit, RestFits, ServerFits, StoppedFits, IsAmbiguous
<1>3. UNCHANGED <<wk, marks, server, waiter, op, reg, task, claim>> /\ QuietStep =>
        \A w \in Workers : WorkerFits(w)'
  BY <1>0, <1>a, Fields DEF QuietStep, WorkerFits, SectionFits, AwaitFits, IsAmbiguous
<1>4. UNCHANGED <<server, reg, task, waiter, doomed>> => DoomedFits'
  BY DEF DoomedFits, CancelIsDue
<1>5. UNCHANGED <<server, claim, op, reg>> /\ QuietStep => ClaimFits'
  BY <1>0, <1>a, Fields DEF ClaimFits, QuietStep
<1>6. UNCHANGED <<server, reg, task, op>> /\ QuietStep => RegisteredFits'
  BY <1>0, <1>a, Fields DEF RegisteredFits, TaskFits, CanceledTaskFits, QuietStep
<1>7. UNCHANGED <<server, op, waiter, doomed, reg, claim>> /\ QuietStep =>
        \A c \in CycIds : OpFits(c)'
  BY <1>a DEF OpFits, CallOfCanceled, CallOfLive, Held, QuietStep
<1> QED BY <1>1, <1>2, <1>3, <1>4, <1>5, <1>6, <1>7

\* A step that the invariant does not see, except in what a stop left.
LEMMA QuietKeeps ==
  ASSUME DispatcherInv, TypeOK', Stored!CycleInv', QuietStep, StoppedFits',
         UNCHANGED <<op, server, wk, marks, task, doomed, reg, claim, waiter>>
  PROVE  DispatcherInv'
<1>1. /\ RowsFit' /\ RunFits' /\ RegistryFits' /\ BetweenFits' /\ MarksFit' /\ RestFits'
      /\ DoomedFits' /\ ClaimFits' /\ RegisteredFits' /\ ServerFits'
  BY Undisturbed DEF QuietStep
<1>2. (\A w \in Workers : WorkerFits(w)') /\ \A c \in CycIds : OpFits(c)'
  BY Undisturbed
<1> QED BY <1>1, <1>2 DEF DispatcherInv

\* The run gets status rs, cycle c status cs, and nothing else of the two tables changes.
Writes(c, cs, rs) ==
  /\ run' = rs /\ req' = req /\ cyc'[c].status = cs
  /\ \A d \in CycIds : cyc'[d].request = cyc[d].request
  /\ \A d \in CycIds \ {c} : cyc'[d].status = cyc[d].status

LEMMA SetCycleWrites ==
  ASSUME TypeOK, NEW c \in CycIds, NEW cs, NEW rs, S!SetCycleAndRun(c, cs, rs)
  PROVE  Writes(c, cs, rs)
BY DEF TypeOK, S!TypeOK, S!CycRow, CycIds, S!SetCycleAndRun, Writes

\* A write of the dispatching cycle keeps the rows in order.
LEMMA WriteRows ==
  ASSUME TypeOK, RowsFit, RunFits, NEW c \in CycIds, NEW cs \in S!CycleStatus, NEW rs,
         Dispatching(c), Writes(c, cs, rs),
         run = "canceled" => rs = "canceled",
         rs = "running" => cs # "queued" /\ cs \notin S!TerminalCycle,
         cs = "paused" => rs \notin {"completed", "completed_with_failures", "failed"}
  PROVE  /\ RowsFit' /\ RunFits'
         /\ \A d \in CycIds : Dispatching(d)' <=> Dispatching(d)
         /\ \A d \in CycIds \ {c} : ~Dispatching(d) /\ (Over(d)' <=> Over(d))
<1>1. \A d \in CycIds : Dispatching(d)' <=> Dispatching(d)
  BY DEF Writes, Dispatching
<1>2. \A d \in CycIds \ {c} : ~Dispatching(d) /\ (Over(d)' <=> Over(d))
  BY OneLive DEF Writes, Over
<1>3. S!OneDispatching'
  BY DEF RowsFit, S!OneDispatching, Writes
<1>4. /\ \A a, b \in CycIds : cyc'[a].request # 0 /\ cyc'[a].request = cyc'[b].request => a = b
      /\ \A a \in CycIds : cyc'[a].status = "absent" <=> cyc'[a].request = 0
  <2>1. cs # "absent" /\ cyc[c].request # 0
    BY DEF S!CycleStatus, S!TerminalCycle, Dispatching
  <2> QED BY <2>1 DEF RowsFit, Writes
<1>5. \A a \in CycIds : cyc'[a].request # 0 =>
        \/ Over(a)' \/ Dispatching(a)'
        \/ cyc'[a].status \in {"paused", "waiting_for_user"} /\ run' = "canceled"
  BY <1>1, <1>2 DEF RowsFit, Writes
<1>6. RunFits'
  <2>1. run' = "running" => Dispatching(c)' /\ cyc'[c].status # "queued" /\ ~Over(c)'
    BY <1>1 DEF Writes, Over
  <2> QED BY <1>1, <1>2, <2>1 DEF RunFits, Writes
<1> QED BY <1>1, <1>2, <1>3, <1>4, <1>5, <1>6 DEF RowsFit

\* A request whose cycle is over stops dispatching.
LEMMA SettleCycleRows ==
  ASSUME TypeOK, RowsFit, RunFits, NEW c \in CycIds, S!SettleCycle(c)
  PROVE  /\ RowsFit' /\ RunFits' /\ UNCHANGED <<run, cyc>> /\ Over(c)
         /\ \A d \in CycIds : Dispatching(d)' <=> Dispatching(d) /\ d # c
<1>1. /\ UNCHANGED <<run, cyc>> /\ Over(c) /\ Dispatching(c) /\ cyc[c].request \in S!ReqIds
      /\ req' = [req EXCEPT ![cyc[c].request].status =
                  IF cyc[c].status = "canceled" THEN "canceled" ELSE "settled"]
  BY Fields DEF S!SettleCycle, Over, Dispatching
<1>2. /\ req'[cyc[c].request].status # "dispatching"
      /\ \A q \in S!ReqIds \ {cyc[c].request} : req'[q] = req[q]
  BY <1>1 DEF TypeOK, S!TypeOK, S!ReqRow
<1>3. \A d \in CycIds : Dispatching(d)' <=> Dispatching(d) /\ d # c
  BY <1>1, <1>2, Fields DEF Dispatching, RowsFit
<1>4. RowsFit'
  BY <1>1, <1>2, <1>3 DEF RowsFit, S!OneDispatching, Over
<1>5. RunFits'
  BY <1>1, <1>3 DEF RunFits, Over
<1> QED BY <1>1, <1>3, <1>4, <1>5

\* on_team_run_settled: a cycle that is over may stop dispatching
LEMMA SettlementRows ==
  ASSUME TypeOK, RowsFit, RunFits, NEW c \in CycIds, OnSettled(c)
  PROVE  /\ RowsFit' /\ RunFits' /\ UNCHANGED <<run, cyc, op>>
         /\ \A d \in CycIds : Dispatching(d)' => Dispatching(d)
         /\ \A d \in CycIds : Dispatching(d) /\ ~Over(c) => Dispatching(d)'
         /\ \A d \in CycIds \ {c} : Dispatching(d) => Dispatching(d)'
<1>1. CASE UNCHANGED store
  <2>1. QuietStep
    BY <1>1, NothingIsQuiet DEF store
  <2> QED BY <1>1, <2>1, Undisturbed DEF QuietStep, OnSettled, RowsFit, RunFits, store, Over
<1>2. CASE Dispatching(c) /\ S!PauseSeries(c)
  <2>1. QuietStep
    BY <1>2, QuietSteps
  <2> QED BY <2>1 DEF QuietStep, OnSettled, RowsFit, RunFits, Over
<1>3. CASE Dispatching(c) /\ S!SettleCycle(c)
  BY <1>3, SettleCycleRows DEF OnSettled
<1> QED BY <1>1, <1>2, <1>3 DEF OnSettled, store

-----------------------------------------------------------------------------
(* The workers keep the invariant.                                         *)

LEMMA TakeKeeps ==
  ASSUME DispatcherInv, TypeOK', Stored!CycleInv', NEW w \in Workers, Take(w)
  PROVE  DispatcherInv'
<1>t. TypeOK
  BY DEF DispatcherInv
<1>a. /\ server = "up" /\ wk[w].pc = "idle" /\ marks = {} /\ waiter \notin CycIds \ doomed
      /\ \A v \in Workers : wk[v].news = "none" /\ wk[v].pc \notin Section
      /\ UNCHANGED <<cyc, run, ser, dec, op, pause, server, marks, task, doomed, reg, claim, waiter>>
  BY Fields, <1>t DEF Take, Serving, Listening, Quiet, LoopFree, CancelIsDue, S!ClaimNext, consumers,
                      store, ledger, tasks, Section, WorkerMoves
<1>1. CASE UNCHANGED <<req, wk>>
  <2>1. QuietStep /\ StoppedFits'
    BY <1>1, <1>a, NothingIsQuiet DEF DispatcherInv, StoppedFits, AfterCancel
  <2> QED BY <1>1, <1>a, <2>1, QuietKeeps
<1>2. CASE /\ run # "canceled" /\ S!NoneDispatching /\ wk' = [wk EXCEPT ![w] = WorkerAt("claimed", 0)]
           /\ \E r \in S!ReqIds : S!ClaimNext(r)
  <2> USE DEF DispatcherInv
  <2>a. PICK r \in S!ReqIds : req' = [req EXCEPT ![r].status = "dispatching"] /\ req[r].status = "queued"
    BY <1>2 DEF S!ClaimNext, S!OldestQueued
  <2>b. reg = 0 /\ waiter = 0 /\ ~\E c \in CycIds : Dispatching(c)
    BY <1>2, <1>a, Fields, <1>t
      DEF S!NoneDispatching, Dispatching, RegisteredFits, TaskFits, DoomedFits, CycIds
  <2>w. /\ wk' \in [Workers -> [pc: WorkerPc, cycle: CycIds \cup {0}, news: News]]
        /\ wk'[w] = WorkerAt("claimed", 0) /\ \A v \in Workers \ {w} : wk'[v] = wk[v]
    BY <1>2, <1>t DEF TypeOK
  <2>q. /\ req'[r].status = "dispatching"
        /\ \A q \in S!ReqIds : req'[q].status = "dispatching" <=> q = r
    BY <1>2, <2>a, <1>t DEF TypeOK, S!TypeOK, S!ReqRow, S!NoneDispatching
  <2>1. RowsFit'
    BY <1>a, <2>b, <2>q, Fields, <1>t DEF RowsFit, Over, Dispatching, S!OneDispatching
  <2>1a. RunFits'
    <3>1. \A c \in CycIds : cyc[c].request = r => Over(c)
      BY <2>a, <2>b, <1>2, Fields, <1>t DEF RowsFit, Dispatching
    <3> QED BY <1>a, <2>b, <2>q, <3>1, Fields, <1>t DEF RunFits, Dispatching, Over, S!TerminalCycle
  <2>2. RegistryFits' /\ BetweenFits' /\ MarksFit' /\ RestFits' /\ DoomedFits' /\ ServerFits'
    BY <1>a, <2>b, Undisturbed DEF BetweenFits
  <2>3. \A v \in Workers : WorkerFits(v)'
    BY <1>2, <1>a, <2>b, <2>w, Fields, <1>t DEF WorkerFits, SectionFits, AwaitFits, Section, WorkerAt, AtRest, AfterCancel, Unrepaired, Repaired
  <2>4. ClaimFits' /\ RegisteredFits'
    BY <1>a, <2>b, Fields, <1>t DEF ClaimFits, RegisteredFits, Over
  <2>5. \A c \in CycIds : OpFits(c)'
    BY <1>a, <2>b DEF OpFits, CallOfCanceled, CallOfLive, Held
  <2>6. StoppedFits'
    BY <1>a, Undisturbed DEF AfterCancel
  <2> QED BY <2>1, <2>1a, <2>2, <2>3, <2>4, <2>5, <2>6
<1> QED BY <1>1, <1>2, <1>a DEF Take, store, consumers, WorkerMoves

\* While a request is claimed and has no cycle, nothing of the run is under way.
LEMMA ClaimedIsAlone ==
  ASSUME DispatcherInv, NEW w \in Workers, wk[w].pc = "claimed",
         NEW r \in S!ReqIds, req[r].status = "dispatching", S!CycleOf(r) = {}
  PROVE  /\ \A c \in CycIds : cyc[c].request # r /\ ~Dispatching(c) /\ op[c].st = "none"
         /\ reg = 0 /\ marks = {} /\ run # "running" /\ server = "up" /\ waiter = 0
         /\ \A v \in Workers \ {w} : wk[v].news = "none" /\ wk[v].pc \notin Section
<1> USE DEF DispatcherInv
<1>0. TypeOK /\ WorkerFits(w) /\ RowsFit
  OBVIOUS
<1>1. /\ server = "up" /\ waiter = 0 /\ marks = {}
      /\ \A v \in Workers \ {w} : wk[v].news = "none" /\ wk[v].pc \notin Section
  BY <1>0 DEF WorkerFits, SectionFits, Section
<1>2. reg = 0
  BY DEF BetweenFits, Between, Section
<1>3. \A c \in CycIds : cyc[c].request # r
  BY <1>0 DEF S!CycleOf, RowsFit, CycIds, S!ReqIds
<1>4. \A c \in CycIds : ~Dispatching(c)
  BY <1>0, <1>3, Fields DEF RowsFit, S!OneDispatching, Dispatching
<1>5. \A c \in CycIds : op[c].st = "none"
  BY <1>1, <1>4, Fields, <1>0 DEF OpFits, CallOfCanceled, CallOfLive, Unrepaired
<1>6. run # "running"
  BY <1>4 DEF RunFits
<1> QED BY <1>1, <1>2, <1>3, <1>4, <1>5, <1>6

LEMMA CreateKeeps ==
  ASSUME DispatcherInv, TypeOK', Stored!CycleInv', NEW w \in Workers, Create(w)
  PROVE  DispatcherInv'
<1>t. TypeOK /\ RowsFit /\ ClaimFits
  BY DEF DispatcherInv
<1>1. PICK c \in CycIds, r \in S!ReqIds : S!CreateCycle(c, r) /\ WorkerMoves(w, WorkerAt("created", c))
  BY DEF Create
<1>2. /\ wk[w].pc = "claimed" /\ req[r].status = "dispatching" /\ S!CycleOf(r) = {}
      /\ cyc[c].status = "absent"
      /\ UNCHANGED <<req, run, op, pause, server, tokens, marks, task, doomed, reg, claim, waiter>>
  BY <1>1 DEF Create, S!CreateCycle, S!NextRow, store, ledger, consumers, tasks, WorkerMoves
<1>3. /\ \A d \in CycIds : cyc[d].request # r /\ ~Dispatching(d) /\ op[d].st = "none"
      /\ reg = 0 /\ marks = {} /\ run # "running" /\ server = "up" /\ waiter = 0
      /\ \A v \in Workers \ {w} : wk[v].news = "none" /\ wk[v].pc \notin Section
  BY <1>2, ClaimedIsAlone
<1>4. /\ cyc'[c].status = "queued" /\ cyc'[c].request = r
      /\ \A d \in CycIds \ {c} : cyc'[d] = cyc[d]
  BY <1>1, <1>t DEF S!CreateCycle, TypeOK, S!TypeOK, CycIds
<1>5. wk'[w] = WorkerAt("created", c) /\ \A v \in Workers \ {w} : wk'[v] = wk[v]
  BY <1>1, <1>t DEF WorkerMoves, TypeOK
<1>6. \A d \in CycIds : Dispatching(d)' <=> d = c
  BY <1>2, <1>3, <1>4, Fields, <1>t DEF Dispatching
<1>7. RowsFit' /\ RunFits'
  <2>1. \A a, b \in CycIds : cyc'[a].request # 0 /\ cyc'[a].request = cyc'[b].request => a = b
    BY <1>3, <1>4, <1>t DEF RowsFit
  <2>2. \A a \in CycIds : cyc'[a].status = "absent" <=> cyc'[a].request = 0
    BY <1>4, <1>t, Fields DEF RowsFit
  <2>3. \A a \in CycIds : cyc'[a].request # 0 =>
          \/ Over(a)' \/ Dispatching(a)'
          \/ cyc'[a].status \in {"paused", "waiting_for_user"} /\ run' = "canceled"
    BY <1>2, <1>3, <1>4, <1>6, <1>t DEF RowsFit, Over
  <2>4. S!OneDispatching'
    BY <1>2, <1>t DEF RowsFit, S!OneDispatching
  <2> QED BY <1>2, <1>3, <1>4, <1>6, <2>1, <2>2, <2>3, <2>4 DEF RowsFit, RunFits
<1>8. RegistryFits' /\ BetweenFits' /\ RestFits' /\ DoomedFits' /\ ServerFits' /\ StoppedFits' /\ MarksFit'
  BY <1>2, <1>3, Undisturbed DEF BetweenFits, AfterCancel, MarksFit
<1>9. \A v \in Workers : WorkerFits(v)'
  <2>1. WorkerFits(w)'
    BY <1>2, <1>3, <1>4, <1>5, <1>6, Fields, <1>t
      DEF WorkerFits, SectionFits, AwaitFits, Section, WorkerAt, AtRest, AfterCancel, Unrepaired, Repaired, DispatcherInv
  <2>2. \A v \in Workers \ {w} : WorkerFits(v)'
    BY <1>2, <1>3, <1>4, <1>5, Fields, <1>t
      DEF WorkerFits, SectionFits, AwaitFits, Section, WorkerAt, AtRest, AfterCancel, Unrepaired, Repaired, DispatcherInv
  <2> QED BY <2>1, <2>2
<1>10. ClaimFits' /\ RegisteredFits' /\ \A d \in CycIds : OpFits(d)'
  <2>1. claim # 0 => claim # c
    BY <1>2, <1>3, <1>t, Fields DEF ClaimFits, Over, S!TerminalCycle
  <2> QED BY <2>1, <1>2, <1>3, <1>4, <1>t, Fields DEF ClaimFits, RegisteredFits, OpFits, Over
<1> QED BY <1>7, <1>8, <1>9, <1>10 DEF DispatcherInv

LEMMA CreateFailsKeeps ==
  ASSUME DispatcherInv, TypeOK', Stored!CycleInv', NEW w \in Workers, CreateFails(w)
  PROVE  DispatcherInv'
<1>t. TypeOK /\ RowsFit
  BY DEF DispatcherInv
<1>1. PICK r \in S!ReqIds : S!RequeueClaim(r)
  BY DEF CreateFails
<1>2. /\ wk[w].pc = "claimed" /\ req[r].status = "dispatching" /\ S!CycleOf(r) = {} /\ QuietStep
      /\ UNCHANGED <<op, pause, server, tokens, marks, task, doomed, reg, claim, waiter>>
  BY <1>1, <1>t, QuietSteps DEF CreateFails, S!RequeueClaim, ledger, consumers, tasks, WorkerMoves
<1>3. reg = 0 /\ marks = {} /\ server = "up" /\ \A v \in Workers \ {w} : wk[v].news = "none" /\ wk[v].pc \notin Section
  BY <1>2, ClaimedIsAlone
<1>5. wk'[w] = IdleWorker /\ \A v \in Workers \ {w} : wk'[v] = wk[v]
  BY <1>t DEF CreateFails, WorkerMoves, TypeOK
<1>8. /\ RegistryFits' /\ BetweenFits' /\ RestFits' /\ DoomedFits' /\ ServerFits' /\ StoppedFits' /\ MarksFit'
      /\ RowsFit' /\ RunFits' /\ ClaimFits' /\ RegisteredFits' /\ \A d \in CycIds : OpFits(d)'
  BY <1>2, <1>3, Undisturbed DEF BetweenFits, AfterCancel, QuietStep
<1>9. \A v \in Workers : WorkerFits(v)'
  BY <1>2, <1>3, <1>5, Fields, <1>t
    DEF WorkerFits, SectionFits, AwaitFits, Section, WorkerAt, IdleWorker, AtRest, AfterCancel, Unrepaired, Repaired, DispatcherInv, QuietStep
<1> QED BY <1>8, <1>9 DEF DispatcherInv

\* A worker alone writes the status of the dispatching cycle, whose call is not held.
LEMMA FreezeFailsKeeps ==
  ASSUME DispatcherInv, TypeOK', Stored!CycleInv', NEW w \in Workers, FreezeFails(w)
  PROVE  DispatcherInv'
<1> DEFINE c == wk[w].cycle
<1>t. TypeOK /\ RowsFit /\ RunFits /\ WorkerFits(w)
  BY DEF DispatcherInv
<1>1. /\ wk[w].pc = "created" /\ UNCHANGED <<op, server, marks, task, doomed, reg, claim, waiter>>
      /\ S!SetCycleAndRun(c, "failed", run) /\ wk' = [wk EXCEPT ![w] = [wk[w] EXCEPT !.pc = "settling"]]
  BY DEF FreezeFails, S!SetCycle, ToSettle, WorkerMoves, ledger, tasks
<1>2. /\ c \in CycIds /\ cyc[c].status = "queued" /\ Dispatching(c) /\ op[c].st = "none"
      /\ server = "up" /\ waiter = 0 /\ run # "canceled" /\ wk[w].news = "none" /\ marks = {}
      /\ \A v \in Workers \ {w} : wk[v].news = "none" /\ wk[v].pc \notin Section
  BY <1>1, <1>t, Fields DEF WorkerFits, SectionFits, Section
<1> HIDE DEF c
<1>3. reg = 0
  BY <1>1 DEF DispatcherInv, BetweenFits, Between, Section
<1>4. run # "running"
  BY <1>2, <1>t, OneLive DEF RunFits
<1>5. Writes(c, "failed", run)
  BY <1>1, <1>2, <1>t, SetCycleWrites
<1>6. /\ RowsFit' /\ RunFits' /\ \A d \in CycIds : Dispatching(d)' <=> Dispatching(d)
      /\ \A d \in CycIds \ {c} : ~Dispatching(d) /\ (Over(d)' <=> Over(d))
  BY <1>2, <1>4, <1>5, <1>t, WriteRows DEF S!CycleStatus, S!TerminalCycle
<1>7. wk'[w].pc = "settling" /\ wk'[w].news = "none" /\ wk'[w].cycle = c /\ \A v \in Workers \ {w} : wk'[v] = wk[v]
  BY <1>1, <1>2, <1>t, Fields DEF TypeOK, c
<1>8. RegistryFits' /\ BetweenFits' /\ RestFits' /\ DoomedFits' /\ ServerFits' /\ StoppedFits' /\ MarksFit'
  BY <1>1, <1>2, <1>3, Undisturbed DEF BetweenFits, AfterCancel, MarksFit
<1>9. \A v \in Workers : WorkerFits(v)'
  BY <1>1, <1>2, <1>3, <1>7, <1>t, Fields
    DEF WorkerFits, SectionFits, AwaitFits, Section, AtRest, AfterCancel, Unrepaired, Repaired, DispatcherInv
<1>10. ClaimFits' /\ RegisteredFits' /\ \A d \in CycIds : OpFits(d)'
  <2>1. claim # c
    BY <1>2, Fields, <1>t DEF DispatcherInv, ClaimFits, Over, S!TerminalCycle
  <2>2. \A d \in CycIds : op[d].st = "none"
    BY <1>2, <1>6, Fields, <1>t DEF DispatcherInv, OpFits, CallOfCanceled, CallOfLive, Unrepaired
  <2> QED BY <2>1, <2>2, <1>1, <1>2, <1>3, <1>5, <1>6, <1>t, Fields
          DEF DispatcherInv, ClaimFits, RegisteredFits, OpFits, Writes
<1> QED BY <1>6, <1>8, <1>9, <1>10 DEF DispatcherInv

LEMMA LaunchKeeps ==
  ASSUME DispatcherInv, TypeOK', Stored!CycleInv', NEW w \in Workers, Launch(w)
  PROVE  DispatcherInv'
<1> DEFINE c == wk[w].cycle
<1>t. TypeOK /\ RowsFit /\ RunFits /\ WorkerFits(w)
  BY DEF DispatcherInv
<1>1. /\ wk[w].pc = "created" /\ UNCHANGED <<run, req, cyc, op, server, marks, claim, waiter>>
      /\ task' = [task EXCEPT ![c] = "plan_due"] /\ doomed' = doomed \ {c} /\ reg' = c
      /\ wk' = [wk EXCEPT ![w] = [wk[w] EXCEPT !.pc = "awaiting"]]
  BY DEF Launch, Schedule, WorkerMoves, ledger, store
<1>2. /\ c \in CycIds /\ cyc[c].status = "queued" /\ Dispatching(c) /\ op[c].st = "none"
      /\ server = "up" /\ waiter = 0 /\ run # "canceled" /\ wk[w].news = "none" /\ marks = {}
      /\ \A v \in Workers \ {w} : wk[v].news = "none" /\ wk[v].pc \notin Section
  BY <1>1, <1>t, Fields DEF WorkerFits, SectionFits, Section
<1> HIDE DEF c
<1>3. reg = 0 /\ doomed = {} /\ \A d \in CycIds : task[d] = "none"
  BY <1>1, <1>t, Fields DEF DispatcherInv, BetweenFits, Between, Section, DoomedFits, RegistryFits
<1>4. \A v \in Workers \ {w} : wk[v].pc # "awaiting"
  BY <1>2, <1>3, <1>t, Fields DEF DispatcherInv, WorkerFits, SectionFits, AwaitFits
<1>5. /\ wk'[w].pc = "awaiting" /\ wk'[w].news = "none" /\ wk'[w].cycle = c
      /\ \A v \in Workers \ {w} : wk'[v] = wk[v]
  BY <1>1, <1>2, <1>t, Fields DEF TypeOK, c
<1>6. task'[c] = "plan_due" /\ \A d \in CycIds \ {c} : task'[d] = "none"
  BY <1>1, <1>2, <1>3, <1>t DEF TypeOK
<1>7. QuietStep
  BY <1>1, <1>t, NothingIsQuiet
<1>8. RegistryFits' /\ BetweenFits' /\ RestFits' /\ DoomedFits'
  BY <1>1, <1>2, <1>3, <1>4, <1>5, <1>6, Fields, <1>t
    DEF RegistryFits, BetweenFits, Between, RestFits, DoomedFits, CancelIsDue, Section, AtRest, Unrepaired, Repaired
<1>9. RowsFit' /\ RunFits' /\ ServerFits' /\ StoppedFits' /\ MarksFit'
  BY <1>1, <1>2, <1>7, Undisturbed DEF AfterCancel, QuietStep
<1>10. \A v \in Workers : WorkerFits(v)'
  BY <1>1, <1>2, <1>3, <1>4, <1>5, <1>6, <1>t, Fields
    DEF WorkerFits, SectionFits, AwaitFits, Section, AtRest, AfterCancel, Unrepaired, Repaired, DispatcherInv
<1>11. ClaimFits'
  BY <1>1, <1>2, <1>t, OneLive, Fields DEF DispatcherInv, ClaimFits, Over, Dispatching, S!TerminalCycle
<1>12. RegisteredFits'
  BY <1>1, <1>2, <1>6, <1>7 DEF RegisteredFits, TaskFits, QuietStep
<1>13. \A d \in CycIds : OpFits(d)'
  <2>1. \A d \in CycIds : op[d].st = "none"
    BY <1>2, <1>t, OneLive, Fields DEF DispatcherInv, OpFits, CallOfCanceled, CallOfLive, Unrepaired
  <2> QED BY <1>1, <2>1 DEF OpFits
<1> QED BY <1>8, <1>9, <1>10, <1>11, <1>12, <1>13 DEF DispatcherInv

\* Who awaits a task that is over: the task has left the registry.
LEMMA Awakened ==
  ASSUME DispatcherInv, NEW w \in Workers, wk[w].pc = "awaiting", wk[w].news # "none", LoopFree
  PROVE  /\ wk[w].cycle \in CycIds /\ reg = 0 /\ marks = {} /\ server \in {"up", "halting"}
         /\ \A v \in Workers \ {w} : /\ wk[v].pc \notin Section \cup {"awaiting"}
                                     /\ wk[v].news = "none"
<1>t. TypeOK /\ WorkerFits(w)
  BY DEF DispatcherInv
<1>1. wk[w].cycle \in CycIds /\ marks = {} /\ \A v \in Workers \ {w} : wk[v].pc # "awaiting"
  BY <1>t, Fields DEF WorkerFits, SectionFits, AwaitFits
<1>2. reg = 0
  BY DEF DispatcherInv, BetweenFits, Between
<1>3. server \in {"up", "halting"}
  BY <1>t DEF DispatcherInv, ServerFits, WorkerFits
<1>4. \A v \in Workers : wk[v].pc \notin Section
  BY DEF LoopFree, Section
<1>5. \A v \in Workers \ {w} : wk[v].news = "none"
  BY <1>1, <1>4 DEF DispatcherInv, WorkerFits, AwaitFits, Section
<1> QED BY <1>1, <1>2, <1>3, <1>4, <1>5

\* A worker goes back to its queue, or ends.
LEMMA AfterRunFits ==
  ASSUME DispatcherInv, TypeOK', NEW w \in Workers, server \in {"up", "halting"}, reg = 0, marks = {},
         \A v \in Workers \ {w} : wk[v].pc \notin Section \cup {"awaiting"} /\ wk[v].news = "none",
         wk' = [wk EXCEPT ![w] = AfterRun], UNCHANGED <<server, marks, reg, op, waiter, task>>
  PROVE  BetweenFits' /\ \A v \in Workers : WorkerFits(v)'
<1>1. wk'[w] = AfterRun /\ \A v \in Workers \ {w} : wk'[v] = wk[v]
  BY DEF DispatcherInv, TypeOK
<1>2. \A v \in Workers : wk'[v].news = "none" /\ wk'[v].pc \in {"off", "idle"}
  <2>1. \A v \in Workers \ {w} : wk[v].pc \in {"off", "idle"}
    BY Fields DEF DispatcherInv, Section, WorkerPc
  <2> QED BY <1>1, <2>1 DEF AfterRun, IdleWorker, Off, WorkerAt
<1>3. server = "halting" => \A v \in Workers : wk'[v].pc = "off"
  BY <1>1, <1>2 DEF AfterRun, IdleWorker, Off, WorkerAt, DispatcherInv, WorkerFits
<1> QED BY <1>2, <1>3
    DEF BetweenFits, Between, WorkerFits, SectionFits, AwaitFits, Section, AtRest, AfterCancel, Unrepaired, Repaired

LEMMA WakeDoneKeeps ==
  ASSUME DispatcherInv, TypeOK', Stored!CycleInv', NEW w \in Workers,
         LoopFree, wk[w].pc = "awaiting", wk[w].news # "none", WorkerMoves(w, AfterRun),
         UNCHANGED <<run, req, cyc, op, server, task, doomed, reg, claim, waiter>>
  PROVE  DispatcherInv'
<1>1. BetweenFits' /\ \A v \in Workers : WorkerFits(v)'
  BY Awakened, AfterRunFits DEF WorkerMoves
<1>2. marks' = marks /\ server \notin AfterCancel /\ QuietStep
  BY Awakened, NothingIsQuiet DEF WorkerMoves, AfterCancel, DispatcherInv
<1> QED BY <1>1, <1>2, Undisturbed DEF DispatcherInv, QuietStep

\* A worker goes on to settle what it awaited.
LEMMA ToSettleFits ==
  ASSUME DispatcherInv, TypeOK', NEW w \in Workers, wk[w].pc = "awaiting", wk[w].news # "none",
         LoopFree, ToSettle(w), UNCHANGED <<server, reg, op, waiter, task>>,
         server = "halting" => cyc'[wk[w].cycle].status # "canceled"
  PROVE  BetweenFits' /\ \A v \in Workers : WorkerFits(v)'
<1>t. TypeOK
  BY DEF DispatcherInv
<1>1. /\ wk[w].cycle \in CycIds /\ reg = 0 /\ marks = {} /\ server \in {"up", "halting"}
      /\ \A v \in Workers \ {w} : wk[v].pc \notin Section \cup {"awaiting"} /\ wk[v].news = "none"
  BY Awakened
<1>2. /\ wk'[w].pc = "settling" /\ wk'[w].cycle = wk[w].cycle /\ wk'[w].news = wk[w].news
      /\ \A v \in Workers \ {w} : wk'[v] = wk[v]
      /\ marks' = marks
  BY <1>t DEF ToSettle, WorkerMoves, TypeOK
<1>3. WorkerFits(w)'
  BY <1>1, <1>2, <1>t, Fields
    DEF WorkerFits, SectionFits, AwaitFits, Section, AtRest, AfterCancel, Unrepaired, Repaired
<1>4. \A v \in Workers \ {w} : wk[v].pc \in {"off", "idle"} /\ (server = "halting" => wk[v].pc = "off")
  BY <1>1, <1>t, Fields DEF Section, WorkerPc, DispatcherInv, WorkerFits
<1>5. \A v \in Workers \ {w} : WorkerFits(v)'
  BY <1>1, <1>2, <1>4
    DEF WorkerFits, SectionFits, AwaitFits, Section, AtRest, AfterCancel, Unrepaired, Repaired
<1> QED BY <1>1, <1>3, <1>5 DEF BetweenFits

\* A worker or a marker writes the status of a cycle whose task is over.
LEMMA WriteKeeps ==
  ASSUME DispatcherInv, TypeOK', Stored!CycleInv', NEW c \in CycIds, NEW cs \in {"failed", "interrupted"},
         S!SetCycle(c, cs), Dispatching(c), ~Over(c),
         UNCHANGED <<op, server, marks, task, doomed, reg, claim, waiter>>,
         cs = "failed" => run # "running" /\ op[c].st = "none",
         op[c].st \in {"invoking", "prepared", "completed"} => op[c].planning,
         server \in {"up", "halting"}, reg = 0, claim # c, c \notin marks \/ cs = "interrupted",
         BetweenFits', \A v \in Workers : WorkerFits(v)'
  PROVE  DispatcherInv'
<1>t. TypeOK /\ RowsFit /\ RunFits
  BY DEF DispatcherInv
<1>1. Writes(c, cs, run)
  BY <1>t, SetCycleWrites DEF S!SetCycle
<1>2. /\ RowsFit' /\ RunFits' /\ \A d \in CycIds : Dispatching(d)' <=> Dispatching(d)
      /\ \A d \in CycIds \ {c} : ~Dispatching(d) /\ (Over(d)' <=> Over(d))
  BY <1>1, <1>t, WriteRows DEF S!CycleStatus, S!TerminalCycle
<1>3. RegistryFits' /\ RestFits' /\ DoomedFits' /\ ServerFits' /\ StoppedFits'
  BY Undisturbed DEF AfterCancel
<1>4. MarksFit' /\ ClaimFits' /\ RegisteredFits'
  BY <1>1, <1>2, <1>t, Fields DEF DispatcherInv, MarksFit, IsAmbiguous, ClaimFits, RegisteredFits, Writes, Over
<1>5. ASSUME NEW d \in CycIds, op[d].st # "none" PROVE OpFits(d)'
  <2>1. CASE d = c
    <3>1. CallOfLive(c)
      BY <1>5, <2>1 DEF DispatcherInv, OpFits, CallOfCanceled, Over, S!TerminalCycle
    <3>2. CallOfLive(c)'
      BY <1>1, <1>2, <1>5, <2>1, <3>1 DEF CallOfLive, Writes, Over, S!TerminalCycle
    <3> QED BY <2>1, <3>2, <1>5 DEF DispatcherInv, OpFits, Held
  <2>2. CASE d # c
    BY <1>1, <1>2, <1>5, <2>2 DEF DispatcherInv, OpFits, CallOfCanceled, CallOfLive, Held, Writes
  <2> QED BY <2>1, <2>2
<1>6. \A d \in CycIds : OpFits(d)'
  BY <1>5 DEF OpFits
<1> QED BY <1>2, <1>3, <1>4, <1>6 DEF DispatcherInv

LEMMA WakeErrorKeeps ==
  ASSUME DispatcherInv, TypeOK', Stored!CycleInv', NEW w \in Workers, WakeError(w)
  PROVE  DispatcherInv'
<1> DEFINE c == wk[w].cycle
<1>t. TypeOK /\ RowsFit /\ RunFits /\ WorkerFits(w)
  BY DEF DispatcherInv
<1>1. /\ wk[w].pc = "awaiting" /\ wk[w].news = "error" /\ LoopFree
      /\ UNCHANGED <<op, server, task, doomed, reg, claim, waiter>>
  BY DEF WakeError, Wakes, ledger, tasks
<1>2. /\ c \in CycIds /\ reg = 0 /\ marks = {} /\ server \in {"up", "halting"}
      /\ cyc[c].status = "queued" /\ op[c].st = "none"
  BY <1>1, <1>t, Awakened DEF WorkerFits, AwaitFits
<1>3. ~Over(c) /\ Dispatching(c) /\ run # "running"
  BY <1>2, <1>t, OneLive DEF Over, S!TerminalCycle, RunFits
<1>4. ToSettle(w) /\ S!SetCycle(c, "failed")
  BY <1>3 DEF WakeError
<1>5. cyc'[c].status = "failed" /\ marks' = marks
  BY <1>2, <1>4, <1>t, SetCycleWrites DEF S!SetCycle, Writes, ToSettle, WorkerMoves
<1>6. BetweenFits' /\ \A v \in Workers : WorkerFits(v)'
  BY <1>1, <1>4, <1>5, ToSettleFits
<1>7. claim # c
  BY <1>2, <1>3 DEF DispatcherInv, ClaimFits, CycIds, S!CycIds
<1> QED BY <1>1, <1>2, <1>3, <1>4, <1>5, <1>6, <1>7, WriteKeeps

LEMMA WakeInterruptedKeeps ==
  ASSUME DispatcherInv, TypeOK', Stored!CycleInv', NEW w \in Workers, WakeInterrupted(w)
  PROVE  DispatcherInv'
<1> DEFINE c == wk[w].cycle
<1>t. TypeOK /\ RowsFit /\ RunFits /\ WorkerFits(w)
  BY DEF DispatcherInv
<1>1. /\ wk[w].pc = "awaiting" /\ wk[w].news \in {"ambiguous", "canceled"} /\ LoopFree
      /\ server = "halting" => wk[w].news = "ambiguous"
      /\ UNCHANGED <<op, server, task, doomed, reg, claim, waiter>>
  BY DEF WakeInterrupted, Wakes, ledger, tasks
<1>2. /\ c \in CycIds /\ reg = 0 /\ marks = {} /\ server \in {"up", "halting"}
      /\ wk[w].news = "canceled" =>
            (Over(c) \/ cyc[c].status \in {"queued", "interrupted"}) /\ claim # c
      /\ wk[w].news = "ambiguous" => IsAmbiguous(c)
  BY <1>1, <1>t, Awakened DEF WorkerFits, AwaitFits
<1>3. CASE WorkerMoves(w, AfterRun) /\ UNCHANGED store
  BY <1>1, <1>3, WakeDoneKeeps DEF store
<1>4. CASE ToSettle(w) /\ UNCHANGED store
  <2>1. cyc' = cyc /\ marks' = marks /\ QuietStep
    BY <1>4, <1>t, NothingIsQuiet DEF store, ToSettle, WorkerMoves
  <2>2. BetweenFits' /\ \A v \in Workers : WorkerFits(v)'
    BY <1>1, <1>2, <1>4, <2>1, ToSettleFits DEF IsAmbiguous
  <2> QED BY <1>1, <1>2, <2>1, <2>2, Undisturbed DEF DispatcherInv, QuietStep, AfterCancel
<1>5. CASE ~Over(c) /\ ~Parked(c) /\ ToSettle(w) /\ S!SetCycle(c, "interrupted")
  <2>1. /\ cyc[c].status \in {"queued", "running", "waiting_for_provider"} /\ Dispatching(c)
        /\ wk[w].news = "canceled" => cyc[c].status = "queued"
    <3>1. cyc[c].status \in {"queued", "running", "waiting_for_provider"}
      BY <1>1, <1>2, <1>5, <1>t, Fields DEF Over, Parked, IsAmbiguous, S!CycleStatus
    <3> QED BY <3>1, <1>2, <1>5, <1>t, OneLive DEF Parked
  <2>2. cyc'[c].status = "interrupted" /\ marks' = marks
    BY <1>2, <1>5, <1>t, SetCycleWrites DEF S!SetCycle, Writes, ToSettle, WorkerMoves
  <2>3. BetweenFits' /\ \A v \in Workers : WorkerFits(v)'
    BY <1>1, <1>5, <2>2, ToSettleFits
  <2>4. op[c].st \in {"invoking", "prepared", "completed"} => op[c].planning
    BY <1>1, <1>2, <2>1 DEF DispatcherInv, OpFits, CallOfCanceled, CallOfLive, IsAmbiguous
  <2>5. claim # c
    BY <1>1, <1>2, <1>5 DEF IsAmbiguous, DispatcherInv, ClaimFits, CycIds, S!CycIds
  <2> QED BY <1>1, <1>2, <1>5, <2>1, <2>2, <2>3, <2>4, <2>5, WriteKeeps
<1> QED BY <1>3, <1>4, <1>5 DEF WakeInterrupted

\* on_team_run_settled, for a cycle without a task
LEMMA SettlementKeeps ==
  ASSUME DispatcherInv, TypeOK', Stored!CycleInv', NEW c \in CycIds, OnSettled(c),
         reg = 0, server \in {"up", "halting"},
         server = "halting" => cyc[c].status # "canceled",
         UNCHANGED <<server, task, doomed, reg, claim, waiter>>,
         MarksFit', BetweenFits', \A v \in Workers : WorkerFits(v)'
  PROVE  DispatcherInv'
<1>t. TypeOK /\ RowsFit /\ RunFits
  BY DEF DispatcherInv
<1>1. /\ RowsFit' /\ RunFits' /\ UNCHANGED <<run, cyc, op>>
      /\ \A d \in CycIds : Dispatching(d)' => Dispatching(d)
      /\ \A d \in CycIds : Dispatching(d) /\ ~Over(c) => Dispatching(d)'
      /\ \A d \in CycIds \ {c} : Dispatching(d) => Dispatching(d)'
  BY <1>t, SettlementRows
<1>2. RegistryFits' /\ RestFits' /\ DoomedFits' /\ ServerFits' /\ StoppedFits'
  BY Undisturbed DEF AfterCancel
<1>3. ClaimFits' /\ RegisteredFits'
  BY <1>1, <1>t, Fields DEF DispatcherInv, ClaimFits, RegisteredFits, Over, S!TerminalCycle
<1>4. ASSUME NEW d \in CycIds PROVE OpFits(d)'
  BY <1>1 DEF DispatcherInv, OpFits, CallOfCanceled, CallOfLive, Held, Over
<1> QED BY <1>1, <1>2, <1>3, <1>4 DEF DispatcherInv

LEMMA WorkerSettlesKeeps ==
  ASSUME DispatcherInv, TypeOK', Stored!CycleInv', NEW w \in Workers, WorkerSettles(w)
  PROVE  DispatcherInv'
<1> DEFINE c == wk[w].cycle
<1>t. TypeOK /\ RowsFit /\ RunFits /\ WorkerFits(w)
  BY DEF DispatcherInv
<1>1. /\ wk[w].pc = "settling" /\ OnSettled(c) /\ marks' = marks /\ wk' = [wk EXCEPT ![w] = AfterRun]
      /\ UNCHANGED <<server, task, doomed, reg, claim, waiter>> /\ op' = op
  BY DEF WorkerSettles, WorkerMoves, tasks, OnSettled
<1>2. /\ c \in CycIds /\ marks = {} /\ reg = 0 /\ server \in {"up", "halting"}
      /\ server = "halting" => cyc[c].status # "canceled"
      /\ \A v \in Workers \ {w} : wk[v].news = "none" /\ wk[v].pc \notin Section
  BY <1>1, <1>t, Fields DEF WorkerFits, SectionFits, Section, DispatcherInv, ServerFits, BetweenFits, Between
<1>3. \A v \in Workers \ {w} : wk[v].pc # "awaiting"
  BY <1>2, <1>t, Fields DEF DispatcherInv, WorkerFits, SectionFits, AwaitFits
<1>4. BetweenFits' /\ \A v \in Workers : WorkerFits(v)'
  BY <1>1, <1>2, <1>3, AfterRunFits
<1>5. MarksFit'
  BY <1>1, <1>2 DEF MarksFit
<1> QED BY <1>1, <1>2, <1>4, <1>5, SettlementKeeps

LEMMA WorkerKeeps ==
  ASSUME DispatcherInv, TypeOK', Stored!CycleInv', NEW w \in Workers, Worker(w)
  PROVE  DispatcherInv'
<1>1. CASE WakeDone(w)
  BY <1>1, WakeDoneKeeps DEF WakeDone, Wakes, store, ledger, tasks
<1> QED BY <1>1, TakeKeeps, CreateKeeps, CreateFailsKeeps, FreezeFailsKeeps, LaunchKeeps,
           WakeErrorKeeps, WakeInterruptedKeeps, WorkerSettlesKeeps DEF Worker

\* No worker is at work on anything while markers are due.
LEMMA MarkerKeeps ==
  ASSUME DispatcherInv, TypeOK', Stored!CycleInv', NEW c \in CycIds, MarkerInterrupts(c)
  PROVE  DispatcherInv'
<1>t. TypeOK /\ RowsFit /\ RunFits
  BY DEF DispatcherInv
<1>1. /\ c \in marks /\ LoopFree /\ IsAmbiguous(c) /\ reg = 0 /\ server \in {"up", "halting"}
      /\ UNCHANGED <<wk, server, task, doomed, reg, claim, waiter>>
  BY DEF MarkerInterrupts, tasks, DispatcherInv, MarksFit, BetweenFits, Between, ServerFits
<1>2. \A v \in Workers : wk[v].pc \in {"off", "idle"} /\ wk[v].news = "none"
  <2>1. \A v \in Workers : wk[v].pc \notin Section
    BY <1>1 DEF LoopFree, Section
  <2>2. \A v \in Workers : wk[v].pc # "awaiting"
    BY <1>1 DEF DispatcherInv, WorkerFits, AwaitFits
  <2> QED BY <2>1, <2>2, <1>t, Fields DEF DispatcherInv, WorkerFits, AwaitFits, WorkerPc, Section
<1>3. \A v \in Workers : WorkerFits(v)'
  BY <1>1, <1>2 DEF DispatcherInv, WorkerFits, SectionFits, AwaitFits, Section, AtRest, AfterCancel, Unrepaired, Repaired
<1>4. BetweenFits'
  BY <1>1 DEF BetweenFits
<1>5. CASE OnSettled(c) /\ marks' = marks \ {c}
  <2>1. UNCHANGED <<cyc, op>>
    BY <1>5, <1>t, SettlementRows
  <2>2. MarksFit'
    BY <1>1, <1>5, <2>1 DEF DispatcherInv, MarksFit, IsAmbiguous, AtRest, AfterCancel, Unrepaired, Repaired
  <2> QED BY <1>1, <1>3, <1>4, <1>5, <2>2, SettlementKeeps DEF IsAmbiguous
<1>6. CASE ~Over(c) /\ ~Parked(c) /\ S!SetCycle(c, "interrupted") /\ UNCHANGED <<op, marks>>
  <2>1. Dispatching(c)
    <3>1. cyc[c].status \in {"queued", "running", "waiting_for_provider"}
      BY <1>1, <1>6, <1>t, Fields DEF Over, Parked, IsAmbiguous, S!CycleStatus
    <3> QED BY <3>1, <1>t, OneLive
  <2>2. claim # c /\ op[c].st \notin {"invoking", "prepared", "completed"}
    BY <1>1 DEF IsAmbiguous, DispatcherInv, ClaimFits, CycIds, S!CycIds
  <2> QED BY <1>1, <1>3, <1>4, <1>6, <2>1, <2>2, WriteKeeps
<1> QED BY <1>5, <1>6 DEF MarkerInterrupts, ledger

-----------------------------------------------------------------------------
(* The tasks keep the invariant.                                           *)

\* What surrounds the registered task: no section of the loop is in its middle, no
\* recovery of another call is claimed, and its cycle is the live one.
Surroundings(c) ==
  /\ server \in {"up", "halting"} /\ marks = {} /\ reg = c /\ TaskFits(c) /\ OpFits(c)
  /\ \A w \in Workers : /\ wk[w].news = "none" /\ wk[w].pc \notin Section
                        /\ wk[w].pc = "awaiting" => wk[w].cycle = c
  /\ \A d \in CycIds \ {c} : task[d] = "none" /\ ~Dispatching(d)
  /\ \A d \in CycIds \ {c} : op[d].st = "none" \/ CallOfCanceled(d)
  /\ claim # 0 => op[claim].st = "none" /\ Over(claim)
  /\ doomed \subseteq {c}

LEMMA RegisteredIsAlone ==
  ASSUME DispatcherInv, NEW c \in CycIds, task[c] # "none", server \in {"up", "halting"}
  PROVE  Surroundings(c)
<1>t. TypeOK /\ RowsFit
  BY DEF DispatcherInv
<1>1. reg = c /\ c # 0 /\ \A d \in CycIds \ {c} : task[d] = "none"
  BY <1>t, Fields DEF DispatcherInv, RegistryFits
<1>2. TaskFits(c) /\ OpFits(c)
  BY <1>1 DEF DispatcherInv, RegisteredFits
<1>3. marks = {} /\ \A w \in Workers : wk[w].news = "none" /\ wk[w].pc \notin Section
  BY <1>1 DEF DispatcherInv, BetweenFits, Between
<1>4. \A w \in Workers : wk[w].pc = "awaiting" => wk[w].cycle = c
  BY <1>1, <1>3 DEF DispatcherInv, WorkerFits, AwaitFits
<1>5. \A d \in CycIds \ {c} : ~Dispatching(d)
  BY <1>2, <1>t, OneLive DEF TaskFits
<1>6. \A d \in CycIds \ {c} : op[d].st = "none" \/ CallOfCanceled(d)
  BY <1>5 DEF DispatcherInv, OpFits, CallOfLive
<1>7. claim # 0 => op[claim].st = "none" /\ Over(claim)
  BY <1>1 DEF DispatcherInv, ClaimFits
<1>8. doomed \subseteq {c}
  BY <1>1, <1>t, Fields DEF DispatcherInv, DoomedFits
<1> QED BY <1>1, <1>2, <1>3, <1>4, <1>5, <1>6, <1>7, <1>8 DEF Surroundings

\* A step of the task that leaves it registered.
LEMMA TaskStays ==
  ASSUME DispatcherInv, TypeOK', Stored!CycleInv', NEW c \in CycIds, Surroundings(c), c \notin doomed,
         task[c] \notin {"none", "ended"},
         task'[c] # "none", task'[c] # "unfrozen", \A d \in CycIds \ {c} : task'[d] = task[d],
         UNCHANGED <<server, wk, marks, doomed, reg, claim, waiter>>,
         RowsFit', RunFits', \A d \in CycIds : Dispatching(d)' <=> Dispatching(d),
         \A d \in CycIds \ {c} : cyc'[d] = cyc[d] /\ op'[d] = op[d],
         task'[c] \in {"plan_due", "planning"} =>
           task[c] \in {"plan_due", "planning"} /\ cyc'[c].status = cyc[c].status,
         TaskFits(c)', op'[c].st # "none" => CallOfLive(c)'
  PROVE  DispatcherInv'
<1> USE DEF Surroundings
<1>t. TypeOK
  BY DEF DispatcherInv
<1>1. BetweenFits' /\ RestFits' /\ ServerFits' /\ StoppedFits' /\ RegistryFits'
  <2>1. RegistryFits'
    BY DEF DispatcherInv, RegistryFits
  <2> QED BY <2>1, Undisturbed DEF AfterCancel
<1>2. DoomedFits'
  BY <1>t, Fields DEF DispatcherInv, DoomedFits, CancelIsDue
<1>3. MarksFit' /\ RegisteredFits'
  BY DEF MarksFit, RegisteredFits
<1>4. claim # c
  BY <1>t, Fields DEF DispatcherInv, RegistryFits, TaskFits, TaskStatus, Over, S!TerminalCycle
<1>5. ClaimFits'
  BY <1>4, <1>t, Fields DEF DispatcherInv, ClaimFits, Over
<1>6. \A w \in Workers : WorkerFits(w)'
  BY <1>t, Fields DEF DispatcherInv, WorkerFits, SectionFits, AwaitFits, Section
<1>7. \A d \in CycIds : OpFits(d)'
  <2>1. OpFits(c)'
    BY DEF OpFits, Held, AtRest, Repaired
  <2>2. \A d \in CycIds \ {c} : OpFits(d)'
    BY DEF DispatcherInv, OpFits, CallOfCanceled, CallOfLive, Held
  <2> QED BY <2>1, <2>2
<1> QED BY <1>1, <1>2, <1>3, <1>5, <1>6, <1>7 DEF DispatcherInv

\* A step that ends the task and tells who awaits it.
LEMMA TaskGoes ==
  ASSUME DispatcherInv, TypeOK', Stored!CycleInv', NEW c \in CycIds, Surroundings(c),
         task[c] # "none", NEW news \in News \ {"none"}, TaskEnds(c, news),
         UNCHANGED <<server, claim, waiter>>, RowsFit', RunFits',
         \A d \in CycIds \ {c} : cyc'[d] = cyc[d] /\ op'[d] = op[d],
         task[c] = "ended" => UNCHANGED <<cyc, op>>,
         news = "error" => task[c] = "planning" /\ op'[c].st = "none" /\ cyc'[c] = cyc[c],
         news = "canceled" => Over(c)' \/ cyc'[c].status \in {"queued", "interrupted"},
         news = "canceled" => task[c] # "ended",
         news = "ambiguous" => IsAmbiguous(c)',
         op'[c].st # "none" => CallOfCanceled(c)' \/ CallOfLive(c)',
         server = "up" /\ op'[c].st \in {"invoking", "prepared", "completed"} => waiter = c
  PROVE  DispatcherInv'
<1>t. TypeOK
  BY DEF DispatcherInv
<1>1. /\ task' = [task EXCEPT ![c] = "none"] /\ doomed' = {} /\ reg' = 0
      /\ wk' = [w \in Workers |-> IF Awaits(w, c) THEN [wk[w] EXCEPT !.news = news] ELSE wk[w]]
      /\ marks' = IF news = "ambiguous" /\ \A w \in Workers : ~Awaits(w, c) THEN {c} ELSE {}
  BY DEF TaskEnds, Deliver, Surroundings
<1>2. \A d \in CycIds : task'[d] = "none"
  BY <1>1, <1>t DEF Surroundings, TypeOK
<1>3. \A w \in Workers :
        /\ wk'[w].pc = wk[w].pc /\ wk'[w].cycle = wk[w].cycle
        /\ wk'[w].news = IF wk[w].pc = "awaiting" THEN news ELSE "none"
  BY <1>1, <1>t, Fields DEF Surroundings, Awaits, TypeOK
<1>4. server \in {"up", "halting"} /\ server' = server /\ claim' = claim /\ waiter' = waiter
  BY DEF Surroundings
<1>5. ServerFits' /\ StoppedFits'
  BY <1>4, Undisturbed DEF AfterCancel
<1>6. RegistryFits' /\ BetweenFits' /\ RestFits' /\ DoomedFits' /\ RegisteredFits'
  BY <1>1, <1>2, <1>4, Fields, <1>t
    DEF RegistryFits, BetweenFits, RestFits, DoomedFits, RegisteredFits, AtRest, Unrepaired, Repaired
<1>7. MarksFit'
  BY <1>1, <1>4 DEF MarksFit, AtRest, AfterCancel, Unrepaired, Repaired
<1>8. task[c] # "ended" => claim # c
  BY <1>t, Fields DEF Surroundings, DispatcherInv, RegistryFits, TaskFits, TaskStatus, Over, S!TerminalCycle
<1>9. ClaimFits'
  <2>1. claim # 0 => claim \in CycIds /\ op[claim].st = "none" /\ Over(claim) /\ server = "up"
    BY <1>t, Fields DEF Surroundings, DispatcherInv, ClaimFits
  <2> QED BY <2>1, <1>4, <1>8 DEF ClaimFits, Over
<1>10. ASSUME NEW w \in Workers PROVE WorkerFits(w)'
  <2>1. wk[w].pc \notin Section /\ wk[w].news = "none"
    BY DEF Surroundings
  <2>2. SectionFits(w)'
    BY <2>1, <1>3, <1>t DEF SectionFits, Section, DispatcherInv, WorkerFits
  <2>3. CASE wk[w].pc = "awaiting"
    <3>1. /\ wk[w].cycle = c /\ reg = c /\ \A v \in Workers : wk[v].pc = "awaiting" => v = w
          /\ task[c] \in {"plan_due", "planning"} => cyc[c].status = "queued"
      BY <2>1, <2>3 DEF DispatcherInv, WorkerFits, AwaitFits, Surroundings
    <3>2. marks' = {}
      BY <3>1, <2>1, <2>3, <1>1 DEF Awaits
    <3> QED BY <2>2, <2>3, <3>1, <3>2, <1>3, <1>4, <1>8
            DEF WorkerFits, AwaitFits, AtRest, AfterCancel, Unrepaired, Repaired
  <2>4. CASE wk[w].pc # "awaiting"
    BY <2>2, <2>4, <1>3, <1>4 DEF DispatcherInv, WorkerFits, AwaitFits
  <2> QED BY <2>3, <2>4
<1>11. ASSUME NEW d \in CycIds, op'[d].st # "none" PROVE OpFits(d)'
  <2>1. CASE d = c
    BY <1>1, <1>4, <1>11, <2>1 DEF OpFits, Held, Repaired
  <2>2. CASE d # c
    <3>1. CallOfCanceled(d) /\ op[d].st # "none" /\ d \notin doomed /\ ~Dispatching(d)
      BY <2>2, <1>11 DEF Surroundings
    <3>2. server = "up" /\ waiter = d
      BY <3>1, <1>4 DEF CallOfCanceled, Unrepaired
    <3> QED BY <2>2, <3>1, <3>2, <1>1, <1>4 DEF OpFits, CallOfCanceled, Held, Repaired
  <2> QED BY <2>1, <2>2
<1>12. \A d \in CycIds : OpFits(d)'
  BY <1>11 DEF OpFits
<1> QED BY <1>5, <1>6, <1>7, <1>9, <1>10, <1>12 DEF DispatcherInv

\* The task of a run or of a cancellation that is being executed.
LEMMA RunsAlone ==
  ASSUME DispatcherInv, Ordinary, NEW c \in CycIds,
         NEW statuses \in SUBSET (TaskStatus \ {"none"}), Runs(c, statuses)
  PROVE  /\ Surroundings(c) /\ c \notin doomed /\ task[c] \in statuses
         /\ UNCHANGED <<server, claim, waiter>>
<1>1. task[c] \in statuses /\ task[c] # "none" /\ server \in {"up", "halting"} /\ c \notin doomed
  BY RunsFits
<1> QED BY <1>1, RegisteredIsAlone DEF Runs

LEMMA WorksKeeps ==
  ASSUME DispatcherInv, TypeOK', Stored!CycleInv', NEW c \in CycIds, Surroundings(c), c \notin doomed,
         task[c] \in {"plan_due", "planning", "resume_due"}, Works(c),
         UNCHANGED <<server, claim, waiter>>
  PROVE  DispatcherInv'
<1>t. TypeOK /\ RowsFit /\ RunFits
  BY DEF DispatcherInv
<1>1. Writes(c, "running", "running") /\ Dispatching(c) /\ run # "canceled"
  BY <1>t, SetCycleWrites DEF Works, Surroundings, TaskFits
<1>2. /\ RowsFit' /\ RunFits' /\ \A d \in CycIds : Dispatching(d)' <=> Dispatching(d)
  BY <1>1, <1>t, WriteRows DEF S!CycleStatus, S!TerminalCycle
<1>3. /\ task'[c] = "working" /\ \A d \in CycIds \ {c} : task'[d] = task[d]
      /\ op'[c] = Call("invoking", FALSE) /\ \A d \in CycIds \ {c} : op'[d] = op[d]
      /\ \A d \in CycIds \ {c} : cyc'[d] = cyc[d]
      /\ UNCHANGED <<wk, marks, doomed, reg>>
  BY <1>t DEF Works, SetOp, TaskMoves, TypeOK, S!TypeOK, S!SetCycleAndRun, CycIds, consumers
<1>4. TaskFits(c)'
  BY <1>1, <1>2, <1>3 DEF TaskFits, Writes, Call
<1>5. CallOfLive(c)'
  BY <1>1, <1>2, <1>3 DEF CallOfLive, Writes, Call, Over, S!TerminalCycle
<1> QED BY <1>2, <1>3, <1>4, <1>5, TaskStays DEF TaskStatus

\* The steps at a model call that leave the tables alone.
LEMMA CallStepsKeep ==
  ASSUME DispatcherInv, Ordinary, TypeOK', Stored!CycleInv', NEW c \in CycIds,
         StartPlan(c) \/ BackOff(c) \/ TryAgain(c)
  PROVE  DispatcherInv'
<1>t. TypeOK /\ RowsFit
  BY DEF DispatcherInv
<1>1. /\ task[c] \in {"plan_due", "planning", "working"} /\ UNCHANGED <<run, req, cyc, wk, marks, doomed, reg>>
      /\ Surroundings(c) /\ c \notin doomed /\ UNCHANGED <<server, claim, waiter>>
  <2>1. CASE StartPlan(c)
    BY <2>1, RunsAlone DEF StartPlan, TaskStatus, TaskMoves, store, consumers
  <2>2. CASE BackOff(c) \/ TryAgain(c)
    BY <2>2, RunsAlone DEF BackOff, TryAgain, TaskStatus, store, consumers, tasks
  <2> QED BY <2>1, <2>2
<1>2. QuietStep /\ RowsFit' /\ RunFits'
  BY <1>1, <1>t, NothingIsQuiet, Undisturbed
<1>3. /\ \A d \in CycIds \ {c} : task'[d] = task[d] /\ op'[d] = op[d]
      /\ task'[c] = IF task[c] = "plan_due" THEN "planning" ELSE task[c]
      /\ op'[c].st \in {"invoking", "prepared"} /\ op'[c].planning = (task'[c] = "planning")
  <2>1. CASE StartPlan(c)
    BY <2>1, <1>t DEF StartPlan, Runs, SetOp, TaskMoves, TypeOK, Call
  <2>2. CASE BackOff(c) \/ TryAgain(c)
    BY <2>2, <1>1, <1>t, Fields DEF BackOff, TryAgain, Runs, SetOp, tasks, TypeOK, Call, Surroundings, TaskFits
  <2> QED BY <2>1, <2>2
<1>4. TaskFits(c)'
  BY <1>1, <1>2, <1>3 DEF Surroundings, TaskFits, QuietStep
<1>5. CallOfLive(c)'
  BY <1>1, <1>2, <1>3 DEF Surroundings, TaskFits, CallOfLive, QuietStep, Over, S!TerminalCycle
<1>6. task'[c] \in {"planning", "working"} /\ (task'[c] = "planning" => task[c] \in {"plan_due", "planning"})
  BY <1>1, <1>3
<1> QED BY <1>1, <1>2, <1>3, <1>4, <1>5, <1>6, TaskStays DEF QuietStep

LEMMA WorkDefersKeeps ==
  ASSUME DispatcherInv, Ordinary, TypeOK', Stored!CycleInv', NEW c \in CycIds, WorkDefers(c)
  PROVE  DispatcherInv'
<1>1. QuietStep
  BY QuietSteps DEF WorkDefers, DispatcherInv
<1>2. server \in {"up", "halting"} /\ UNCHANGED <<op, server, wk, marks, task, doomed, reg, claim, waiter>>
  BY RunsAlone DEF WorkDefers, TaskStatus, Surroundings, Runs, ledger, consumers, tasks
<1> QED BY <1>1, <1>2, Undisturbed, QuietKeeps DEF AfterCancel

\* The task stays, its cycle has asked or is over.
LEMMA WorkStopsKeeps ==
  ASSUME DispatcherInv, Ordinary, TypeOK', Stored!CycleInv', NEW c \in CycIds,
         WorkAsks(c) \/ WorkEnds(c) \/ WorkFails(c)
  PROVE  DispatcherInv'
<1>t. TypeOK /\ RowsFit /\ RunFits
  BY DEF DispatcherInv
<1>1. Runs(c, {"working"})
  BY DEF WorkAsks, WorkEnds, WorkFails
<1>2. /\ Surroundings(c) /\ c \notin doomed /\ task[c] = "working" /\ UNCHANGED <<server, claim, waiter>>
      /\ Dispatching(c) /\ run # "canceled" /\ cyc[c].status = "running"
  BY <1>1, RunsAlone DEF TaskStatus, Surroundings, TaskFits
<1>3. PICK cs \in {"waiting_for_user"} \cup (S!TerminalCycle \ {"canceled"}) : Writes(c, cs, cs)
  <2>1. CASE WorkAsks(c)
    BY <2>1, <1>t DEF WorkAsks, S!PublishDecision, Writes, TypeOK, S!TypeOK, S!CycRow, CycIds
  <2>2. CASE WorkEnds(c) \/ WorkFails(c)
    BY <2>2, <1>t, SetCycleWrites DEF WorkEnds, WorkFails, S!TerminalCycle
  <2> QED BY <2>1, <2>2
<1>4. /\ RowsFit' /\ RunFits' /\ \A d \in CycIds : Dispatching(d)' <=> Dispatching(d)
  BY <1>2, <1>3, <1>t, WriteRows DEF S!CycleStatus, S!TerminalCycle
<1>5. /\ task'[c] = "ended" /\ \A d \in CycIds \ {c} : task'[d] = task[d]
      /\ UNCHANGED <<wk, marks, doomed, reg>>
  BY <1>t DEF WorkAsks, WorkEnds, WorkFails, TaskMoves, TypeOK, consumers
<1>6. op'[c].st = "none" /\ \A d \in CycIds \ {c} : op'[d] = op[d]
  BY <1>t, WhatMayHappen DEF WorkAsks, WorkEnds, WorkFails, SetOp, NoCall, LeftOpen, TypeOK
<1>7. \A d \in CycIds \ {c} : cyc'[d] = cyc[d]
  BY <1>t DEF WorkAsks, WorkEnds, WorkFails, S!PublishDecision, S!SetCycleAndRun, TypeOK, S!TypeOK, CycIds
<1>8. TaskFits(c)'
  BY <1>2, <1>3, <1>4, <1>5, <1>6 DEF TaskFits, Writes, Over, S!TerminalCycle
<1> QED BY <1>2, <1>4, <1>5, <1>6, <1>7, <1>8, TaskStays

\* The task ends at its call: the provider is waited for, the call is ambiguous, or
\* the run is paused.
LEMMA WorkLeavesKeeps ==
  ASSUME DispatcherInv, Ordinary, TypeOK', Stored!CycleInv', NEW c \in CycIds,
         ProviderWaits(c) \/ ProviderAmbiguous(c) \/ WorkPauses(c)
  PROVE  DispatcherInv'
<1>t. TypeOK /\ RowsFit /\ RunFits
  BY DEF DispatcherInv
<1>1. /\ Surroundings(c) /\ task[c] \in {"planning", "working"} /\ UNCHANGED <<server, claim, waiter>>
      /\ Dispatching(c) /\ run # "canceled"
  <2>1. Runs(c, {"planning", "working"}) \/ Runs(c, {"working"})
    BY DEF ProviderWaits, ProviderAmbiguous, WorkPauses
  <2>2. /\ Surroundings(c) /\ task[c] \in {"planning", "working"} /\ UNCHANGED <<server, claim, waiter>>
    BY <2>1, RunsAlone DEF TaskStatus
  <2> QED BY <2>2 DEF Surroundings, TaskFits
<1>2. PICK news \in {"waiting", "ambiguous", "paused"}, cs \in {"waiting_for_provider", "interrupted", "paused"} :
        /\ S!SetCycleAndRun(c, cs, cs) /\ TaskEnds(c, news)
        /\ \A d \in CycIds \ {c} : op'[d] = op[d]
        /\ \/ news = "waiting" /\ cs = "waiting_for_provider" /\ op'[c].st = "waiting"
           \/ news = "ambiguous" /\ cs = "interrupted" /\ op'[c].st = "ambiguous"
           \/ news = "paused" /\ op'[c].st = "none"
  BY <1>t DEF ProviderWaits, ProviderAmbiguous, WorkPauses, SetOp, Call, NoCall, TypeOK
<1>3. Writes(c, cs, cs)
  BY <1>2, <1>t, SetCycleWrites
<1>4. /\ RowsFit' /\ RunFits' /\ \A d \in CycIds : Dispatching(d)' <=> Dispatching(d)
  BY <1>1, <1>3, <1>t, WriteRows DEF S!CycleStatus, S!TerminalCycle
<1>5. \A d \in CycIds \ {c} : cyc'[d] = cyc[d]
  BY <1>2, <1>t DEF S!SetCycleAndRun, TypeOK, S!TypeOK, CycIds
<1>6. op'[c].st # "none" => CallOfLive(c)'
  BY <1>1, <1>2, <1>3, <1>4 DEF CallOfLive, Writes, Over, S!TerminalCycle
<1>7. news = "ambiguous" => IsAmbiguous(c)'
  BY <1>2, <1>3 DEF IsAmbiguous, Writes
<1> QED BY <1>1, <1>2, <1>4, <1>5, <1>6, <1>7, TaskGoes DEF News

\* The task ends and the tables stay as they are.
LEMMA TaskRefusedKeeps ==
  ASSUME DispatcherInv, Ordinary, TypeOK', Stored!CycleInv', NEW c \in CycIds,
         PlanFails(c) \/ ResumeRefused(c)
  PROVE  DispatcherInv'
<1>t. TypeOK /\ RowsFit
  BY DEF DispatcherInv
<1>1. /\ Surroundings(c) /\ UNCHANGED <<server, claim, waiter>>
      /\ task[c] = IF PlanFails(c) THEN "planning" ELSE "resume_due"
  <2>1. CASE PlanFails(c)
    BY <2>1, RunsAlone DEF PlanFails, TaskStatus
  <2>2. CASE ResumeRefused(c) /\ ~PlanFails(c)
    BY <2>2, RunsAlone DEF ResumeRefused, TaskStatus
  <2> QED BY <2>1, <2>2
<1>2. UNCHANGED <<run, req, cyc>>
  BY DEF PlanFails, ResumeRefused, store
<1>3. QuietStep /\ RowsFit' /\ RunFits'
  BY <1>2, <1>t, NothingIsQuiet, Undisturbed
<1>4. CASE PlanFails(c)
  <2>1. op'[c].st = "none" /\ \A d \in CycIds \ {c} : op'[d] = op[d]
    BY <1>4, <1>t, WhatMayHappen DEF PlanFails, SetOp, NoCall, LeftOpen, TypeOK
  <2>2. TaskEnds(c, "error")
    BY <1>4 DEF PlanFails
  <2> QED BY <1>1, <1>2, <1>3, <1>4, <2>1, <2>2, TaskGoes DEF News
<1>5. CASE ResumeRefused(c) /\ ~PlanFails(c)
  <2>1. PICK news \in {"waiting", "ambiguous"} : op[c].st = news /\ TaskEnds(c, news) /\ op' = op
    BY <1>5 DEF ResumeRefused, ledger
  <2>2. CallOfLive(c)'
    BY <1>1, <1>2, <1>3, <1>5, <2>1
      DEF Surroundings, OpFits, CallOfCanceled, CallOfLive, TaskFits, QuietStep, Over
  <2>3. news = "ambiguous" => IsAmbiguous(c)'
    BY <1>1, <1>2, <1>5, <2>1 DEF Surroundings, TaskFits, IsAmbiguous
  <2> QED BY <1>1, <1>2, <1>3, <1>5, <2>1, <2>2, <2>3, TaskGoes DEF News
<1> QED BY <1>4, <1>5

LEMMA TaskSettlesKeeps ==
  ASSUME DispatcherInv, Ordinary, TypeOK', Stored!CycleInv', NEW c \in CycIds, TaskSettles(c)
  PROVE  DispatcherInv'
<1>t. TypeOK /\ RowsFit /\ RunFits
  BY DEF DispatcherInv
<1>1. task[c] = "ended" /\ UNCHANGED <<server, claim, waiter>>
  BY DEF TaskSettles
<1>2. reg = c /\ c # 0 /\ server \in {"up", "halting"}
  <2>1. reg = c /\ c # 0
    BY <1>1, <1>t, Fields DEF DispatcherInv, RegistryFits
  <2> QED BY <1>1, <2>1 DEF DispatcherInv, ServerFits, RestFits, RegisteredFits, CanceledTaskFits, AfterCancel
<1>3. Surroundings(c)
  BY <1>1, <1>2, RegisteredIsAlone
<1>4. Dispatching(c) /\ op[c].st = "none"
  BY <1>1, <1>3 DEF Surroundings, TaskFits
<1>5. TaskEnds(c, "ok") /\ OnSettled(c)
  BY <1>4 DEF TaskSettles, Dispatching
<1>6. RowsFit' /\ RunFits' /\ UNCHANGED <<cyc, op>>
  BY <1>5, <1>t, SettlementRows
<1> QED BY <1>1, <1>3, <1>4, <1>5, <1>6, TaskGoes DEF News

\* CancelledError reaches the task that POST /cancel waits for, or that lost its worker.
LEMMA CancelReachesTask ==
  ASSUME DispatcherInv, TypeOK', Stored!CycleInv', NEW c \in CycIds, CancelDelivered(c),
         server \in {"up", "halting"}
  PROVE  DispatcherInv'
<1>t. TypeOK /\ RowsFit /\ RunFits
  BY DEF DispatcherInv
<1>1. /\ task[c] \in {"planning", "working"} /\ c \in doomed /\ (server = "up" => waiter = c)
      /\ TaskEnds(c, "canceled") /\ UNCHANGED <<op, server, claim, waiter>>
  BY DEF CancelDelivered, DispatcherInv, DoomedFits
<1>2. Surroundings(c) /\ TaskFits(c)
  BY <1>1, RegisteredIsAlone DEF Surroundings
<1>3. doomed' = doomed \ {c}
  BY <1>1 DEF TaskEnds
<1>4. CASE task[c] = "working"
  <2>1. Writes(c, "canceled", "canceled") /\ \A d \in CycIds \ {c} : cyc'[d] = cyc[d]
    <3>1. S!SetCycleAndRun(c, "canceled", "canceled")
      BY <1>4 DEF CancelDelivered
    <3> QED BY <3>1, <1>t, SetCycleWrites DEF S!SetCycleAndRun, TypeOK, S!TypeOK, CycIds
  <2>2. RowsFit' /\ RunFits' /\ \A d \in CycIds : Dispatching(d)' <=> Dispatching(d)
    BY <1>2, <2>1, <1>t, WriteRows DEF S!CycleStatus, S!TerminalCycle, TaskFits
  <2>3. CallOfCanceled(c)'
    BY <1>1, <1>2, <1>3, <2>1, <2>2 DEF CallOfCanceled, Writes, TaskFits
  <2>4. Over(c)'
    BY <2>1 DEF Over, Writes, S!TerminalCycle
  <2> QED BY <1>1, <1>2, <1>4, <2>1, <2>2, <2>3, <2>4, TaskGoes DEF News
<1>5. CASE task[c] = "planning"
  <2>1. UNCHANGED <<run, req, cyc>>
    BY <1>5 DEF CancelDelivered, store
  <2>2. QuietStep /\ RowsFit' /\ RunFits'
    BY <2>1, <1>t, NothingIsQuiet, Undisturbed
  <2>3. op'[c].st # "none" => CallOfLive(c)'
    BY <1>1, <1>2, <1>5, <2>1, <2>2
      DEF Surroundings, OpFits, CallOfCanceled, CallOfLive, TaskFits, QuietStep, Over
  <2>4. cyc'[c].status \in {"queued", "interrupted"}
    BY <1>2, <1>5, <2>1 DEF TaskFits
  <2> QED BY <1>1, <1>2, <1>5, <2>1, <2>2, <2>3, <2>4, TaskGoes DEF News
<1> QED BY <1>1, <1>4, <1>5

\* An emergency stop waits for the tasks it canceled: their run is canceled already.
LEMMA StopReachesTask ==
  ASSUME DispatcherInv, TypeOK', Stored!CycleInv', NEW c \in CycIds, CancelDelivered(c),
         server = "gathering"
  PROVE  DispatcherInv'
<1>t. TypeOK /\ RowsFit /\ RunFits
  BY DEF DispatcherInv
<1>1. /\ reg = c /\ c # 0 /\ c \in doomed /\ CanceledTaskFits(c)
      /\ TaskEnds(c, "canceled") /\ UNCHANGED <<op, server, tokens, claim, waiter>>
  BY <1>t, Fields DEF CancelDelivered, DispatcherInv, DoomedFits, RegisteredFits
<1>2. UNCHANGED <<run, req, ser>> /\ cyc' = cyc
  <2>1. CASE task[c] = "working"
    <3>1. S!SetCycleAndRun(c, "canceled", "canceled") /\ cyc[c].status = "canceled" /\ run = "canceled"
      BY <1>1, <2>1 DEF CancelDelivered, CanceledTaskFits
    <3> QED BY <3>1, <1>t DEF S!SetCycleAndRun, TypeOK, S!TypeOK, S!CycRow, CycIds
  <2>2. CASE task[c] # "working"
    BY <2>2 DEF CancelDelivered, store
  <2> QED BY <2>1, <2>2
<1>3. \A w \in Workers : wk[w].pc = "off" /\ wk[w].news = "none"
  BY <1>1 DEF DispatcherInv, WorkerFits, AwaitFits, AfterCancel
<1>4. wk' = [w \in Workers |-> wk[w]] /\ marks' = {} /\ doomed' = {} /\ reg' = 0
  <2>1. marks = {} /\ doomed \subseteq {c}
    BY <1>1, <1>t, Fields DEF DispatcherInv, MarksFit, DoomedFits, AfterCancel
  <2> QED BY <1>1, <1>3, <2>1 DEF TaskEnds, Deliver, Awaits
<1>5. \A d \in CycIds : task'[d] = "none"
  BY <1>1, <1>t, Fields DEF TaskEnds, TypeOK, DispatcherInv, RegistryFits
<1>6. QuietStep
  BY <1>2, <1>t, NothingIsQuiet
<1>7. RowsFit' /\ RunFits' /\ ServerFits'
  BY <1>1, <1>6, Undisturbed
<1>8. RegistryFits' /\ BetweenFits' /\ MarksFit' /\ RestFits' /\ DoomedFits' /\ RegisteredFits'
  BY <1>1, <1>4, <1>5, Fields, <1>t
    DEF RegistryFits, BetweenFits, MarksFit, RestFits, DoomedFits, RegisteredFits, AtRest, Unrepaired, Repaired
<1>9. \A w \in Workers : WorkerFits(w)'
  BY <1>1, <1>3, <1>4 DEF WorkerFits, SectionFits, AwaitFits, Section
<1>10. StoppedFits' /\ ClaimFits' /\ \A d \in CycIds : OpFits(d)'
  <2>1. StoppedFits'
    BY <1>1, <1>2 DEF DispatcherInv, StoppedFits, AfterCancel, HasActiveWork
  <2> QED BY <1>1, <2>1 DEF StoppedFits, AfterCancel, ClaimFits, OpFits
<1> QED BY <1>7, <1>8, <1>9, <1>10 DEF DispatcherInv

LEMMA TaskKeeps ==
  ASSUME DispatcherInv, Ordinary, TypeOK', Stored!CycleInv', NEW c \in CycIds, Task(c)
  PROVE  DispatcherInv'
<1>1. ASSUME ReplayPlan(c) \/ PlanDone(c) \/ StartResume(c)
      PROVE  DispatcherInv'
  <2>1. Works(c) /\ (Runs(c, {"plan_due"}) \/ Runs(c, {"planning"}) \/ Runs(c, {"resume_due"}))
    BY <1>1 DEF ReplayPlan, PlanDone, StartResume
  <2>2. Surroundings(c) /\ c \notin doomed /\ task[c] \in {"plan_due", "planning", "resume_due"}
        /\ UNCHANGED <<server, claim, waiter>>
    BY <2>1, RunsAlone DEF TaskStatus
  <2> QED BY <2>1, <2>2, WorksKeeps
<1>2. ASSUME CancelDelivered(c) PROVE DispatcherInv'
  <2>1. server \in {"up", "halting", "gathering"}
    <3>1. c \in doomed /\ reg = c /\ c # 0 /\ Alive
      BY <1>2, Fields DEF CancelDelivered, DispatcherInv, DoomedFits
    <3> QED BY <3>1, WhatMayHappen
            DEF Alive, Running, EmergencyPhases, DispatcherInv, ServerFits, AtRest, Unrepaired, Repaired,
                AfterCancel, RegisteredFits
  <2> QED BY <1>2, <2>1, CancelReachesTask, StopReachesTask
<1> QED BY <1>1, <1>2, CallStepsKeep, TaskRefusedKeeps, WorkLeavesKeeps, WorkDefersKeeps, WorkStopsKeeps,
           TaskSettlesKeeps DEF Task

-----------------------------------------------------------------------------
(* The tick and the handlers keep the invariant.                           *)

\* While nothing is registered and the loop serves, no worker is at work, nothing is
\* doomed, and only the live cycle has a call.
LEMMA IdleLoop ==
  ASSUME DispatcherInv, Serving, reg = 0
  PROVE  /\ server = "up" /\ marks = {} /\ doomed = {} /\ waiter = 0
         /\ \A c \in CycIds : task[c] = "none"
         /\ \A w \in Workers : wk[w].pc \in {"off", "idle"} /\ wk[w].news = "none"
         /\ \A c \in CycIds : op[c].st # "none" => CallOfLive(c) /\ OpFits(c)
<1>t. TypeOK
  BY DEF DispatcherInv
<1>1. server = "up" /\ marks = {} /\ ~CancelIsDue /\ LoopFree /\ \A w \in Workers : wk[w].news = "none"
  BY DEF Serving, Listening, Quiet
<1>2. doomed = {} /\ waiter = 0
  <2>1. doomed = {}
    BY <1>t, Fields DEF DispatcherInv, DoomedFits
  <2> QED BY <1>1, <2>1 DEF CancelIsDue
<1>3. \A c \in CycIds : task[c] = "none"
  BY <1>t, Fields DEF DispatcherInv, RegistryFits
<1>4. \A w \in Workers : wk[w].pc \in {"off", "idle"}
  BY <1>1, <1>t, Fields DEF LoopFree, DispatcherInv, WorkerFits, SectionFits, AwaitFits, WorkerPc
<1>5. \A c \in CycIds : op[c].st # "none" => CallOfLive(c) /\ OpFits(c)
  BY <1>1, <1>2, <1>t, Fields DEF DispatcherInv, OpFits, CallOfCanceled, Unrepaired
<1> QED BY <1>1, <1>2, <1>3, <1>4, <1>5

\* A task is scheduled for the live cycle.
LEMMA ScheduleKeeps ==
  ASSUME DispatcherInv, TypeOK', Stored!CycleInv', Serving, reg = 0, NEW c \in CycIds, Dispatching(c),
         NEW kind \in {"plan_due", "resume_due"}, Schedule(c, kind),
         UNCHANGED <<server, wk, marks, waiter>>, RowsFit', RunFits',
         \A d \in CycIds \ {c} : op'[d] = op[d], ClaimFits',
         TaskFits(c)', op'[c].st # "none" => CallOfLive(c)'
  PROVE  DispatcherInv'
<1>t. TypeOK /\ RowsFit
  BY DEF DispatcherInv
<1>1. /\ server = "up" /\ marks = {} /\ doomed = {} /\ waiter = 0
      /\ \A d \in CycIds : task[d] = "none"
      /\ \A w \in Workers : wk[w].pc \in {"off", "idle"} /\ wk[w].news = "none"
      /\ \A d \in CycIds : op[d].st # "none" => CallOfLive(d)
  BY IdleLoop
<1>2. /\ task'[c] = kind /\ \A d \in CycIds \ {c} : task'[d] = "none"
      /\ doomed' = {} /\ reg' = c /\ c # 0
  BY <1>1, <1>t, Fields DEF Schedule, TypeOK
<1>3. \A d \in CycIds \ {c} : op'[d].st = "none"
  BY <1>1, <1>t, OneLive DEF CallOfLive
<1>4. RegistryFits' /\ BetweenFits' /\ MarksFit' /\ RestFits' /\ DoomedFits' /\ RegisteredFits'
  BY <1>1, <1>2, Fields, <1>t
    DEF RegistryFits, BetweenFits, Between, Section, MarksFit, RestFits, DoomedFits, CancelIsDue, RegisteredFits, AtRest, AfterCancel, Unrepaired, Repaired
<1>5. \A w \in Workers : WorkerFits(w)'
  BY <1>1 DEF WorkerFits, SectionFits, AwaitFits, Section, AtRest, AfterCancel, Unrepaired, Repaired
<1>6. \A d \in CycIds : OpFits(d)'
  BY <1>1, <1>2, <1>3 DEF OpFits, Held, Repaired
<1>7. ServerFits' /\ StoppedFits'
  BY <1>1, Undisturbed DEF AfterCancel
<1> QED BY <1>4, <1>5, <1>6, <1>7 DEF DispatcherInv

LEMMA RecoveryWrites ==
  ASSUME TypeOK, NEW c \in CycIds, NEW planning \in BOOLEAN,
         S!RecoverProvider(c, IF planning THEN "add_work" ELSE "later")
  PROVE  /\ Dispatching(c) /\ run \in {"waiting_for_provider", "interrupted"} /\ cyc[c].status = run
         /\ IF planning THEN Writes(c, "queued", "draft") ELSE Writes(c, "running", "running")
         /\ \A d \in CycIds \ {c} : cyc'[d] = cyc[d]
<1>1. Dispatching(c) /\ run \in {"waiting_for_provider", "interrupted"} /\ cyc[c].status = run
  BY DEF S!RecoverProvider, Dispatching
<1>2. IF planning THEN S!SetCycleAndRun(c, "queued", "draft") ELSE S!SetCycleAndRun(c, "running", "running")
  BY DEF S!RecoverProvider
<1> QED BY <1>1, <1>2, SetCycleWrites DEF S!SetCycleAndRun, TypeOK, S!TypeOK, CycIds

\* recover_due runs in a thread: it finds the loop in any state.
LEMMA RecoverDueKeeps ==
  ASSUME DispatcherInv, TypeOK', Stored!CycleInv', RecoverDue
  PROVE  DispatcherInv'
<1>t. TypeOK /\ RowsFit /\ RunFits
  BY DEF DispatcherInv
<1>1. PICK c \in CycIds :
        /\ op[c].st = "waiting" /\ S!RecoverProvider(c, IF op[c].planning THEN "add_work" ELSE "later")
        /\ SetOp(c, Call("prepared", op[c].planning)) /\ claim' = IF server = "up" THEN c ELSE 0
  BY DEF RecoverDue
<1> DEFINE cs == IF op[c].planning THEN "queued" ELSE "running"
           rs == IF op[c].planning THEN "draft" ELSE "running"
<1>2. /\ server \in {"up", "halting"} /\ UNCHANGED <<server, wk, marks, task, doomed, reg, waiter>>
  BY DEF RecoverDue, consumers, tasks
<1>3. Dispatching(c) /\ run \in {"waiting_for_provider", "interrupted"} /\ cyc[c].status = run /\ Writes(c, cs, rs)
  BY <1>1, <1>t, Fields, RecoveryWrites
<1>4. run = "waiting_for_provider"
  BY <1>1, <1>3 DEF DispatcherInv, OpFits, CallOfCanceled, CallOfLive
<1>5. /\ RowsFit' /\ RunFits' /\ \A d \in CycIds : Dispatching(d)' <=> Dispatching(d)
      /\ \A d \in CycIds \ {c} : ~Dispatching(d) /\ (Over(d)' <=> Over(d))
  BY <1>3, <1>4, <1>t, WriteRows DEF S!CycleStatus, S!TerminalCycle
<1>6. op'[c] = Call("prepared", op[c].planning) /\ \A d \in CycIds \ {c} : op'[d] = op[d]
  BY <1>1, <1>t DEF SetOp, TypeOK
<1>7. reg = 0
  <2>1. reg # 0 => reg = c
    BY <1>2, <1>5, Fields, <1>t DEF DispatcherInv, RegisteredFits, TaskFits
  <2>2. TaskFits(c) => task[c] = "none"
    BY <1>3, <1>4, <1>t, Fields DEF TaskFits, TaskStatus, Over, S!TerminalCycle, DispatcherInv, RegistryFits
  <2> QED BY <2>1, <2>2, <1>2, <1>t, Fields DEF DispatcherInv, RegisteredFits, RegistryFits
<1>8. RegistryFits' /\ BetweenFits' /\ RestFits' /\ DoomedFits' /\ ServerFits' /\ StoppedFits'
  BY <1>2, Undisturbed DEF AfterCancel, RestFits, AtRest, Unrepaired, Repaired
<1>9. MarksFit' /\ RegisteredFits' /\ ClaimFits'
  BY <1>1, <1>2, <1>3, <1>4, <1>5, <1>6, <1>7, <1>t, Fields
    DEF DispatcherInv, MarksFit, IsAmbiguous, RegisteredFits, ClaimFits, Writes, Call, AtRest, AfterCancel, Unrepaired, Repaired
<1>10. \A w \in Workers : WorkerFits(w)'
  <2> SUFFICES ASSUME NEW w \in Workers PROVE WorkerFits(w)'
    OBVIOUS
  <2>1. SectionFits(w)'
    BY <1>1, <1>2, <1>3, <1>4, <1>5, <1>6, <1>t, Fields
      DEF DispatcherInv, WorkerFits, SectionFits, Section, Writes
  <2>2. AwaitFits(w)'
    <3>1. wk[w].pc = "awaiting" => wk[w].news # "none"
      BY <1>7, <1>t, Fields DEF DispatcherInv, WorkerFits, SectionFits, AwaitFits
    <3>2. wk[w].pc = "awaiting" /\ wk[w].news \in {"error", "canceled", "ambiguous"} => wk[w].cycle # c
      BY <1>1, <1>3, <1>4 DEF DispatcherInv, WorkerFits, AwaitFits, IsAmbiguous, Over, S!TerminalCycle
    <3> QED BY <3>1, <3>2, <1>1, <1>2, <1>3, <1>5, <1>6, <1>t, Fields
            DEF DispatcherInv, WorkerFits, SectionFits, AwaitFits, IsAmbiguous, Writes, Over
  <2> QED BY <2>1, <2>2, <1>2 DEF DispatcherInv, WorkerFits, AtRest, AfterCancel, Unrepaired, Repaired
<1>11. ASSUME NEW d \in CycIds, op'[d].st # "none" PROVE OpFits(d)'
  <2>1. CASE d = c
    <3>1. CallOfLive(c)'
      BY <1>3, <1>5, <1>6 DEF CallOfLive, Writes, Call, Over, S!TerminalCycle
    <3> QED BY <1>1, <1>2, <2>1, <3>1 DEF OpFits, Held, Repaired
  <2>2. CASE d # c
    <3>1. op[d].st # "none" /\ CallOfCanceled(d)
      BY <1>5, <1>6, <1>11, <2>2 DEF DispatcherInv, OpFits, CallOfLive
    <3> QED BY <1>2, <1>3, <1>5, <1>6, <2>2, <3>1 DEF OpFits, CallOfCanceled, Held, Writes, Repaired, Unrepaired
  <2> QED BY <2>1, <2>2
<1>12. \A d \in CycIds : OpFits(d)'
  BY <1>11 DEF OpFits
<1> QED BY <1>5, <1>8, <1>9, <1>10, <1>12 DEF DispatcherInv

LEMMA ResumeClaimKeeps ==
  ASSUME DispatcherInv, TypeOK', Stored!CycleInv', ResumeClaim
  PROVE  DispatcherInv'
<1>t. TypeOK /\ RowsFit /\ RunFits
  BY DEF DispatcherInv
<1>1. /\ Serving /\ claim # 0 /\ claim \in CycIds /\ claim' = 0 /\ server = "up"
      /\ UNCHANGED <<run, req, cyc, op, server, wk, marks, waiter>>
  BY <1>t, Fields DEF ResumeClaim, Serving, store, ledger, consumers
<1>2. QuietStep /\ RowsFit' /\ RunFits' /\ ClaimFits'
  BY <1>1, <1>t, NothingIsQuiet, Undisturbed DEF ClaimFits
<1>3. CASE op[claim].st = "none"
  <2>1. UNCHANGED <<task, doomed, reg>>
    BY <1>3 DEF ResumeClaim, tasks
  <2>2. \A w \in Workers : WorkerFits(w)'
    <3>1. \A w \in Workers : wk[w].news = "none"
      BY <1>1 DEF Serving, Listening, Quiet
    <3> QED BY <1>1, <2>1, <3>1 DEF DispatcherInv, WorkerFits, SectionFits, AwaitFits, Dispatching
  <2>3. \A d \in CycIds : OpFits(d)'
    BY <1>1, <1>2, <1>3, <2>1
      DEF DispatcherInv, OpFits, CallOfCanceled, CallOfLive, Held, QuietStep, Over
  <2>4. RegisteredFits' /\ RestFits'
    BY <1>1, <1>2, <2>1, Undisturbed DEF RestFits, AtRest, Unrepaired, Repaired
  <2> QED BY <1>1, <1>2, <2>1, <2>2, <2>3, <2>4, Undisturbed DEF DispatcherInv, AfterCancel, QuietStep
<1>4. CASE op[claim].st # "none"
  <2>1. /\ op[claim].st = "prepared" /\ reg = 0 /\ Dispatching(claim) /\ cyc[claim].status \in {"queued", "running"}
    BY <1>1, <1>4 DEF DispatcherInv, ClaimFits
  <2>2. CallOfLive(claim)
    BY <1>1, <1>4, <2>1, IdleLoop
  <2> DEFINE kind == IF op[claim].planning THEN "plan_due" ELSE "resume_due"
  <2>3. Schedule(claim, kind) /\ kind \in {"plan_due", "resume_due"}
    BY <1>4 DEF ResumeClaim
  <2>4. task'[claim] = kind
    BY <2>3, <1>1, <1>t DEF Schedule, TypeOK
  <2>5. \A c \in CycIds : c = claim => TaskFits(c)' /\ CallOfLive(c)'
    BY <1>1, <1>2, <2>1, <2>2, <2>4 DEF TaskFits, CallOfLive, QuietStep, Unrepaired, Over
  <2> HIDE DEF kind
  <2>6. PICK c \in CycIds : c = claim
    BY <1>1
  <2> QED BY <1>1, <1>2, <2>1, <2>3, <2>5, <2>6, ScheduleKeeps
<1> QED BY <1>3, <1>4

\* cancel_run and cancel_all_active leave nothing of the run at work.
LEMMA CancelRows ==
  ASSUME TypeOK, RowsFit, RunFits, S!CancelRun
  PROVE  /\ RowsFit' /\ RunFits' /\ run' # "running" /\ ~HasActiveWork'
         /\ \A c \in CycIds : /\ ~Dispatching(c)' /\ (Over(c) => Over(c)')
                              /\ Dispatching(c) /\ cyc[c].status # "paused" => Over(c)'
                              /\ cyc[c].status \in {"queued", "interrupted", "running"} =>
                                   cyc'[c].status = "canceled"
         /\ run = "running" => run' = "canceled"
<1>1. \A r \in S!ReqIds : /\ req'[r].status = "canceled" \/ req'[r] = req[r]
                          /\ req[r].status \in S!Live => req'[r].status = "canceled"
  BY DEF S!CancelRun, TypeOK, S!TypeOK, S!ReqRow
<1>2. \A s \in S!SerIds : ser'[s].status \notin S!ActiveSeries
  BY DEF S!CancelRun, TypeOK, S!TypeOK, S!SerRow, S!ActiveSeries
<1>3. \A c \in CycIds :
        /\ cyc'[c].request = cyc[c].request
        /\ cyc'[c].status = IF cyc[c].request # 0 /\ cyc[c].status \in S!CanceledWithRun
                            THEN "canceled" ELSE cyc[c].status
  BY DEF S!CancelRun, TypeOK, S!TypeOK, S!CycRow, CycIds
<1>4. \A r \in S!ReqIds : req'[r].status \notin S!Live
  BY <1>1 DEF S!Live
<1>5. \A c \in CycIds : ~Dispatching(c)'
  BY <1>3, <1>4, Fields DEF Dispatching, S!Live
<1>6. ~HasActiveWork'
  BY <1>2, <1>4 DEF HasActiveWork
<1>7. /\ run' # "running" /\ (run = "running" => run' = "canceled")
      /\ run' = "canceled" \/ run \in {"completed", "completed_with_failures", "failed"}
      /\ run = "canceled" => run' = "canceled"
  BY DEF S!CancelRun
<1>8. \A c \in CycIds : /\ Over(c) => Over(c)'
                        /\ Dispatching(c) /\ cyc[c].status # "paused" => Over(c)'
                        /\ cyc[c].status \in {"queued", "interrupted", "running"} =>
                             cyc'[c].status = "canceled"
  BY <1>3, Fields
    DEF Over, Dispatching, RowsFit, S!CanceledWithRun, S!TerminalCycle, S!CycleStatus
<1>9. S!OneDispatching'
  BY <1>4 DEF S!OneDispatching, S!Live
<1>10. \A c \in CycIds : cyc'[c].request # 0 =>
         \/ Over(c)' \/ Dispatching(c)'
         \/ cyc'[c].status \in {"paused", "waiting_for_user"} /\ run' = "canceled"
  BY <1>3, <1>7, <1>8 DEF RowsFit, RunFits, S!CanceledWithRun, Over, S!TerminalCycle
<1>11. /\ \A c, d \in CycIds : cyc'[c].request # 0 /\ cyc'[c].request = cyc'[d].request => c = d
       /\ \A c \in CycIds : cyc'[c].status = "absent" <=> cyc'[c].request = 0
  BY <1>3 DEF RowsFit, S!CanceledWithRun
<1> QED BY <1>5, <1>6, <1>7, <1>8, <1>9, <1>10, <1>11 DEF RowsFit, RunFits

\* The run is canceled when nothing is registered and the loop is at rest.
LEMMA CanceledKeeps ==
  ASSUME DispatcherInv, TypeOK', Stored!CycleInv', CancelWithCalls, reg = 0, marks = {},
         \A w \in Workers : wk[w].pc \in {"off", "idle"} /\ wk[w].news = "none",
         server \notin AtRest, server' = server \/ (server' = "halted" /\ server \in AfterCancel),
         server' \in AfterCancel => tokens' = 0,
         UNCHANGED <<wk, marks, task, doomed, reg, claim>>, waiter' \in {waiter, 0}
  PROVE  DispatcherInv'
<1>t. TypeOK /\ RowsFit /\ RunFits
  BY DEF DispatcherInv
<1>1. /\ RowsFit' /\ RunFits' /\ run' # "running" /\ ~HasActiveWork'
      /\ \A c \in CycIds : /\ ~Dispatching(c)' /\ (Over(c) => Over(c)')
                           /\ Dispatching(c) /\ cyc[c].status # "paused" => Over(c)'
  BY <1>t, CancelRows DEF CancelWithCalls
<1>2. \A c \in CycIds : op'[c].st = "none"
  BY DEF CancelWithCalls, NoCall
<1>3. server' \in AfterCancel \cup {"up", "halting"} /\ server \in AfterCancel \cup {"up", "halting"}
  BY DEF DispatcherInv, ServerFits, AfterCancel
<1>4. ServerFits' /\ StoppedFits'
  BY <1>1, <1>2, <1>3 DEF ServerFits, StoppedFits, DispatcherInv, ClaimFits, AfterCancel
<1>5. /\ RegistryFits' /\ BetweenFits' /\ MarksFit' /\ RestFits' /\ RegisteredFits'
  BY <1>3, Undisturbed DEF MarksFit, RestFits, RegisteredFits, AtRest, Unrepaired, Repaired, AfterCancel
<1>6. DoomedFits'
  <2>1. doomed = {}
    BY <1>t, Fields DEF DispatcherInv, DoomedFits
  <2> QED BY <2>1 DEF DoomedFits
<1>7. \A w \in Workers : WorkerFits(w)'
  BY <1>3 DEF DispatcherInv, WorkerFits, SectionFits, AwaitFits, Section, AtRest, Unrepaired, Repaired, AfterCancel
<1>8. ClaimFits'
  BY <1>1, <1>2, <1>3, Fields, <1>t DEF DispatcherInv, ClaimFits, AfterCancel
<1>9. \A c \in CycIds : OpFits(c)'
  BY <1>2 DEF OpFits
<1> QED BY <1>1, <1>4, <1>5, <1>6, <1>7, <1>8, <1>9 DEF DispatcherInv

\* The loop listens: no section, no news.
LEMMA ListeningLoop ==
  ASSUME DispatcherInv, server \in Running, Quiet, Ordinary
  PROVE  /\ server \in {"up", "halting", "gathering", "halted"} /\ marks = {}
         /\ \A w \in Workers : wk[w].pc \in {"off", "idle", "awaiting"} /\ wk[w].news = "none"
         /\ \A c \in CycIds : task[c] # "ended"
         /\ reg = 0 => doomed = {} /\ \A w \in Workers : wk[w].pc # "awaiting"
<1>t. TypeOK
  BY DEF DispatcherInv
<1>1. server \in {"up", "halting", "gathering", "halted"} /\ marks = {}
  BY WhatMayHappen DEF Running, EmergencyPhases, Quiet
<1>2. /\ \A w \in Workers : wk[w].pc \in {"off", "idle", "awaiting"} /\ wk[w].news = "none"
      /\ \A c \in CycIds : task[c] # "ended"
  BY <1>t, Fields DEF Quiet, LoopFree, WorkerPc
<1>3. reg = 0 => doomed = {}
  BY <1>t, Fields DEF DispatcherInv, DoomedFits
<1>4. reg = 0 => \A w \in Workers : wk[w].pc # "awaiting"
  BY <1>2, <1>t, Fields DEF DispatcherInv, WorkerFits, SectionFits, AwaitFits
<1> QED BY <1>1, <1>2, <1>3, <1>4

LEMMA CancelKeeps ==
  ASSUME DispatcherInv, Ordinary, TypeOK', Stored!CycleInv', Cancel
  PROVE  DispatcherInv'
<1>t. TypeOK /\ RowsFit
  BY DEF DispatcherInv
<1>1. /\ server \in {"up", "halting", "gathering", "halted"} /\ marks = {} /\ waiter = 0
      /\ \A w \in Workers : wk[w].pc \in {"off", "idle", "awaiting"} /\ wk[w].news = "none"
      /\ \A c \in CycIds : task[c] \notin {"plan_due", "resume_due", "ended"}
      /\ reg = 0 => doomed = {} /\ \A w \in Workers : wk[w].pc # "awaiting"
      /\ UNCHANGED <<server, tokens, wk, marks, task, reg, claim>>
  BY ListeningLoop DEF Cancel, Listening, consumers
<1>2. CASE reg = 0
  <2>1. CancelWithCalls /\ UNCHANGED <<doomed, waiter>>
    BY <1>2 DEF Cancel, CancelNow
  <2>2. server' \in AfterCancel => tokens' = 0
    BY <1>1 DEF DispatcherInv, StoppedFits
  <2> QED BY <1>1, <1>2, <2>1, <2>2, CanceledKeeps DEF AtRest, Unrepaired, Repaired
<1>3. CASE reg # 0
  <2>1. doomed' = doomed \cup {reg} /\ waiter' = reg /\ UNCHANGED <<run, req, cyc, ser, op>>
    BY <1>3 DEF Cancel, store, ledger
  <2>2. QuietStep
    BY <2>1, <1>t, NothingIsQuiet
  <2>3. reg \in CycIds /\ task[reg] \in {"planning", "working"}
    BY <1>1, <1>3, <1>t, Fields DEF DispatcherInv, RegistryFits, TaskStatus
  <2>4. RegistryFits' /\ BetweenFits' /\ ClaimFits' /\ RegisteredFits' /\ ServerFits' /\ RowsFit' /\ RunFits' /\ MarksFit'
    BY <1>1, <2>1, <2>2, Undisturbed DEF QuietStep
  <2>5. RestFits' /\ DoomedFits'
    BY <1>1, <2>1, <2>3 DEF DispatcherInv, RestFits, DoomedFits, CancelIsDue, AtRest, Unrepaired, Repaired
  <2>6. StoppedFits'
    BY <1>1, <2>1, <2>2 DEF DispatcherInv, StoppedFits, QuietStep, HasActiveWork, AfterCancel
  <2>7. \A w \in Workers : WorkerFits(w)'
    BY <1>1, <2>1, <2>2 DEF DispatcherInv, WorkerFits, SectionFits, AwaitFits, Section, QuietStep
  <2>8. \A c \in CycIds : OpFits(c)'
    BY <1>1, <2>1, <2>2, <1>t, Fields DEF DispatcherInv, OpFits, CallOfCanceled, CallOfLive, Held, QuietStep, Over
  <2> QED BY <2>4, <2>5, <2>6, <2>7, <2>8 DEF DispatcherInv
<1> QED BY <1>2, <1>3

LEMMA CancelReturnsKeeps ==
  ASSUME DispatcherInv, Ordinary, TypeOK', Stored!CycleInv', CancelReturns
  PROVE  DispatcherInv'
<1>1. /\ server \in Running /\ Quiet /\ reg = 0 /\ CancelWithCalls /\ waiter' = 0
      /\ UNCHANGED <<server, tokens, wk, marks, task, doomed, reg, claim>>
  BY DEF CancelReturns, CancelNow, consumers, tasks, DispatcherInv, DoomedFits
<1>2. /\ server \in {"up", "halting", "gathering", "halted"} /\ marks = {}
      /\ \A w \in Workers : wk[w].pc \in {"off", "idle"} /\ wk[w].news = "none"
  BY <1>1, ListeningLoop
<1>3. server' \in AfterCancel => tokens' = 0
  BY <1>1 DEF DispatcherInv, StoppedFits
<1> QED BY <1>1, <1>2, <1>3, CanceledKeeps DEF AtRest, Unrepaired, Repaired

\* New requests, continued series and a deferred question change nothing of what runs.
LEMMA EnqueueKeeps ==
  ASSUME DispatcherInv, TypeOK', Stored!CycleInv', Enqueue \/ TickEnqueues \/ Continue \/ BootEnqueues
  PROVE  DispatcherInv'
<1>t. TypeOK /\ RowsFit
  BY DEF DispatcherInv
<1>1. QuietStep
  <2>1. CASE Enqueue
    BY <2>1, <1>t, QuietSteps DEF Enqueue, TriggerCycle, RetryAutoCycle, RestartAutoSeries
  <2>2. CASE TickEnqueues \/ BootEnqueues
    BY <2>2, <1>t, QuietSteps DEF TickEnqueues, BootEnqueues, EnqueueDue
  <2>3. CASE Continue
    BY <2>3, <1>t, QuietSteps DEF Continue
  <2> QED BY <2>1, <2>2, <2>3
<1>2. /\ server \in {"up", "enqueue_due"}
      /\ UNCHANGED <<op, server, wk, marks, task, doomed, reg, claim, waiter>>
  BY DEF Enqueue, TickEnqueues, Continue, BootEnqueues, Serving, ledger, consumers, tasks
<1>3. StoppedFits'
  BY <1>2, Undisturbed DEF AfterCancel
<1> QED BY <1>1, <1>2, <1>3, QuietKeeps

LEMMA AnswerKeeps ==
  ASSUME DispatcherInv, TypeOK', Stored!CycleInv', Answer
  PROVE  DispatcherInv'
<1>t. TypeOK /\ RowsFit /\ RunFits
  BY DEF DispatcherInv
<1>1. PICK c \in CycIds : S!AnswerDecision(c) /\ Schedule(c, "resume_due")
  BY DEF Answer
<1>2. /\ Serving /\ reg = 0 /\ UNCHANGED <<op, server, wk, marks, claim, waiter>>
  BY DEF Answer, ledger, consumers
<1>3. /\ server = "up" /\ waiter = 0 /\ \A d \in CycIds : op[d].st # "none" => CallOfLive(d) /\ OpFits(d)
  BY <1>2, IdleLoop
<1>4. cyc[c].status = "waiting_for_user" /\ run = "waiting_for_user" /\ Dispatching(c)
  BY <1>1, <1>t, OneLive DEF S!AnswerDecision, Over, S!TerminalCycle
<1>5. Writes(c, "running", "running") /\ \A d \in CycIds \ {c} : cyc'[d] = cyc[d]
  BY <1>1, <1>t DEF S!AnswerDecision, Writes, TypeOK, S!TypeOK, S!CycRow, CycIds
<1>6. /\ RowsFit' /\ RunFits' /\ \A d \in CycIds : Dispatching(d)' <=> Dispatching(d)
      /\ \A d \in CycIds \ {c} : ~Dispatching(d) /\ (Over(d)' <=> Over(d))
  BY <1>4, <1>5, <1>t, WriteRows DEF S!CycleStatus, S!TerminalCycle
<1>7. claim # c /\ ClaimFits'
  <2>1. claim # c
    BY <1>4, Fields, <1>t DEF DispatcherInv, ClaimFits, Over, S!TerminalCycle
  <2> QED BY <2>1, <1>2, <1>6, <1>t, Fields DEF DispatcherInv, ClaimFits
<1>8. op[c].st \notin {"invoking", "prepared", "completed"}
  BY <1>2, <1>3, <1>7, <1>t, Fields DEF OpFits, Held
<1>9. TaskFits(c)'
  <2>1. task'[c] = "resume_due"
    BY <1>1, <1>t DEF Schedule, TypeOK
  <2> QED BY <2>1, <1>2, <1>3, <1>4, <1>5, <1>6, <1>8 DEF TaskFits, Writes
<1>10. op'[c].st # "none" => CallOfLive(c)'
  BY <1>2, <1>4, <1>5, <1>6, <1>8 DEF CallOfLive, Writes, Over, S!TerminalCycle
<1> QED BY <1>1, <1>2, <1>4, <1>6, <1>7, <1>9, <1>10, ScheduleKeeps

LEMMA ResumePlainKeeps ==
  ASSUME DispatcherInv, TypeOK', Stored!CycleInv', Resume, ResumePlain
  PROVE  DispatcherInv'
<1>t. TypeOK /\ RowsFit /\ RunFits
  BY DEF DispatcherInv
<1>1. PICK c \in CycIds : cyc[c].status \in {"interrupted", "paused"} /\ Schedule(c, "resume_due")
  BY DEF ResumePlain, ResumeCandidate, S!InterruptedCycle
<1>2. /\ Serving /\ reg = 0 /\ run \in {"interrupted", "paused"}
      /\ UNCHANGED <<run, req, cyc, op, server, wk, marks, claim, waiter>>
  BY DEF Resume, ResumePlain, consumers, store
<1>3. /\ server = "up" /\ waiter = 0 /\ \A d \in CycIds : op[d].st # "none" => CallOfLive(d) /\ OpFits(d)
  BY <1>2, IdleLoop
<1>4. Dispatching(c)
  BY <1>1, <1>2, <1>t, OneLive DEF Over, S!TerminalCycle
<1>5. QuietStep /\ RowsFit' /\ RunFits' /\ (reg' = reg => ClaimFits')
  BY <1>2, <1>t, NothingIsQuiet, Undisturbed
<1>6. claim # c /\ ClaimFits'
  <2>1. claim # c
    BY <1>1, Fields, <1>t DEF DispatcherInv, ClaimFits, Over, S!TerminalCycle
  <2>2. claim # 0 => op[claim].st = "none" /\ Over(claim) /\ server = "up"
    BY <2>1, <1>4, <1>t, Fields, OneLive DEF DispatcherInv, ClaimFits
  <2> QED BY <2>1, <2>2, <1>2 DEF ClaimFits, Over
<1>7. op[c].st \notin {"invoking", "prepared", "completed", "ambiguous"}
  BY <1>2, <1>3, <1>6, <1>t, Fields DEF OpFits, Held, Resume, ResumePlain, Ambiguous
<1>8. TaskFits(c)'
  <2>1. task'[c] = "resume_due"
    BY <1>1, <1>t DEF Schedule, TypeOK
  <2> QED BY <2>1, <1>1, <1>2, <1>3, <1>4, <1>5, <1>7 DEF TaskFits, QuietStep
<1>9. op'[c].st # "none" => CallOfLive(c)'
  BY <1>2, <1>3, <1>5 DEF CallOfLive, QuietStep, Over
<1> QED BY <1>1, <1>2, <1>4, <1>5, <1>6, <1>8, <1>9, ScheduleKeeps

LEMMA ResumeAmbiguousKeeps ==
  ASSUME DispatcherInv, TypeOK', Stored!CycleInv', Resume, ResumeAmbiguous
  PROVE  DispatcherInv'
<1>t. TypeOK /\ RowsFit /\ RunFits
  BY DEF DispatcherInv
<1>1. PICK c \in CycIds :
        /\ Ambiguous = {c} /\ S!RecoverProvider(c, IF op[c].planning THEN "add_work" ELSE "later")
        /\ SetOp(c, Call("prepared", op[c].planning))
        /\ Schedule(c, IF op[c].planning THEN "plan_due" ELSE "resume_due")
  BY DEF ResumeAmbiguous
<1> DEFINE cs == IF op[c].planning THEN "queued" ELSE "running"
           rs == IF op[c].planning THEN "draft" ELSE "running"
<1>2. /\ Serving /\ reg = 0 /\ run \in {"interrupted", "paused"}
      /\ UNCHANGED <<server, wk, marks, claim, waiter>>
  BY DEF Resume, consumers
<1>3. server = "up" /\ waiter = 0
  BY <1>2, IdleLoop
<1>4. /\ Dispatching(c) /\ cyc[c].status = run /\ Writes(c, cs, rs) /\ run = "interrupted"
      /\ \A d \in CycIds \ {c} : cyc'[d] = cyc[d]
  BY <1>1, <1>2, <1>t, Fields, RecoveryWrites
<1>5. /\ RowsFit' /\ RunFits' /\ \A d \in CycIds : Dispatching(d)' <=> Dispatching(d)
      /\ \A d \in CycIds \ {c} : ~Dispatching(d) /\ (Over(d)' <=> Over(d))
  BY <1>4, <1>t, WriteRows DEF S!CycleStatus, S!TerminalCycle
<1>6. op'[c] = Call("prepared", op[c].planning) /\ \A d \in CycIds \ {c} : op'[d] = op[d]
  BY <1>1, <1>t DEF SetOp, TypeOK
<1>7. ClaimFits'
  <2>1. claim # c
    BY <1>4, Fields, <1>t DEF DispatcherInv, ClaimFits, Over, S!TerminalCycle
  <2>2. claim # 0 => op[claim].st = "none" /\ Over(claim) /\ server = "up"
    BY <2>1, <1>4, <1>t, Fields, OneLive DEF DispatcherInv, ClaimFits
  <2> QED BY <2>1, <2>2, <1>2, <1>5, <1>6, <1>t, Fields DEF ClaimFits
<1>8. TaskFits(c)'
  <2>1. task'[c] = IF op[c].planning THEN "plan_due" ELSE "resume_due"
    BY <1>1, <1>t DEF Schedule, TypeOK
  <2> QED BY <2>1, <1>2, <1>3, <1>4, <1>5, <1>6 DEF TaskFits, Writes, Call
<1>9. CallOfLive(c)'
  BY <1>4, <1>5, <1>6 DEF CallOfLive, Writes, Call, Over, S!TerminalCycle
<1> QED BY <1>1, <1>2, <1>4, <1>5, <1>6, <1>7, <1>8, <1>9, ScheduleKeeps

LEMMA PauseKeeps ==
  ASSUME DispatcherInv, Ordinary, TypeOK', Stored!CycleInv', Pause
  PROVE  DispatcherInv'
<1>t. TypeOK /\ RowsFit /\ RunFits
  BY DEF DispatcherInv
<1>1. /\ run = "running" /\ UNCHANGED <<op, server, tokens, wk, marks, task, doomed, reg, claim, waiter>>
  BY DEF Pause, consumers, tasks
<1>2. server \in {"up", "halting"}
  <2>1. server \in Running /\ Quiet
    BY DEF Pause, Listening
  <2> QED BY <1>1, <2>1, ListeningLoop DEF DispatcherInv, StoppedFits, AfterCancel
<1>3. StoppedFits'
  BY <1>1, <1>2, Undisturbed DEF AfterCancel
<1>4. CASE UNCHANGED store
  <2>1. QuietStep
    BY <1>4, <1>t, NothingIsQuiet DEF store
  <2> QED BY <1>1, <1>3, <2>1, QuietKeeps
<1>5. CASE reg = 0 /\ run' = "paused" /\ UNCHANGED <<req, cyc>>
  <2>1. \A d \in CycIds : (Dispatching(d)' <=> Dispatching(d)) /\ (Over(d)' <=> Over(d))
    BY <1>5 DEF Dispatching, Over
  <2>2. RowsFit' /\ RunFits'
    BY <1>1, <1>5, <2>1 DEF DispatcherInv, RowsFit, RunFits, S!OneDispatching
  <2>3. \A w \in Workers : WorkerFits(w)'
    BY <1>1, <1>5, <2>1, <1>t, Fields DEF DispatcherInv, WorkerFits, SectionFits, AwaitFits, IsAmbiguous
  <2>4. ClaimFits' /\ RegisteredFits' /\ \A d \in CycIds : OpFits(d)'
    BY <1>1, <1>5, <2>1, <1>t, Fields
      DEF DispatcherInv, ClaimFits, RegisteredFits, OpFits, CallOfCanceled, CallOfLive, Held
  <2> QED BY <1>1, <1>3, <1>5, <2>2, <2>3, <2>4, Undisturbed DEF DispatcherInv
<1> QED BY <1>4, <1>5 DEF Pause, S!SetRun, store

LEMMA HandlerKeeps ==
  ASSUME DispatcherInv, Ordinary, TypeOK', Stored!CycleInv', Tick \/ Handlers
  PROVE  DispatcherInv'
<1>1. ~Reopen /\ ~RetryTask
  BY WhatMayHappen DEF Reopen, RetryTask
<1>2. \A c \in CycIds : ~RetryFreezes(c)
  BY DEF RetryFreezes, DispatcherInv, RegistryFits
<1>3. Resume => DispatcherInv'
  BY ResumePlainKeeps, ResumeAmbiguousKeeps DEF Resume
<1> QED BY <1>1, <1>2, <1>3, RecoverDueKeeps, ResumeClaimKeeps, EnqueueKeeps, AnswerKeeps, PauseKeeps,
           CancelKeeps, CancelReturnsKeeps DEF Tick, Handlers

-----------------------------------------------------------------------------
(* Crashes keep the invariant.                                             *)

\* A process at rest has nothing but the tables and the ledger.
LEMMA RestKeeps ==
  ASSUME TypeOK', Stored!CycleInv', RowsFit', RunFits', server' \in AtRest,
         \A w \in Workers : wk'[w].pc = "off" /\ wk'[w].news = "none", marks' = {},
         \A c \in CycIds : task'[c] = "none",
         doomed' = {}, reg' = 0, claim' = 0, waiter' = 0,
         \A c \in CycIds : OpFits(c)'
  PROVE  DispatcherInv'
<1>1. 0 \notin CycIds
  BY DEF CycIds, S!CycIds
<1>2. ServerFits' /\ StoppedFits' /\ server' \notin AfterCancel \cup {"up", "halting"}
  BY DEF ServerFits, StoppedFits, AtRest, Unrepaired, Repaired, AfterCancel
<1>3. RegistryFits' /\ BetweenFits' /\ MarksFit' /\ RestFits' /\ DoomedFits' /\ ClaimFits' /\ RegisteredFits'
  BY <1>1, <1>2
    DEF RegistryFits, BetweenFits, MarksFit, RestFits, DoomedFits, CancelIsDue, ClaimFits, RegisteredFits
<1>4. \A w \in Workers : WorkerFits(w)'
  BY <1>2 DEF WorkerFits, SectionFits, AwaitFits, Section
<1> QED BY <1>2, <1>3, <1>4 DEF DispatcherInv

\* What a crash cuts short leaves the rows and the calls in order.
LEMMA CutShortFits ==
  ASSUME DispatcherInv, NEW c \in CycIds, CutShort(c), server' = "down"
  PROVE  RowsFit' /\ RunFits' /\ \A d \in CycIds : OpFits(d)'
<1>t. TypeOK /\ RowsFit /\ RunFits
  BY DEF DispatcherInv
<1>1. task[c] # "none" /\ reg = c /\ c # 0
  BY <1>t, Fields DEF CutShort, DispatcherInv, RegistryFits
<1>2. \A d \in CycIds \ {c} : op'[d] = op[d]
  BY <1>t DEF CutShort, SetOp, TypeOK
<1>3. server' \in Unrepaired /\ server' # "up" /\ server' \notin Repaired
  BY DEF Unrepaired, Repaired
<1>4. ASSUME UNCHANGED store, op'[c] = op[c] \/ op' = [op EXCEPT ![c] = Call("completed", op[c].planning)],
             op[c].st = "invoking" \/ op'[c] = op[c]
      PROVE  RowsFit' /\ RunFits' /\ \A d \in CycIds : OpFits(d)'
  <2>1. QuietStep
    BY <1>4, <1>t, NothingIsQuiet DEF store
  <2>2. op'[c] = op[c] \/ (op'[c].st = "completed" /\ op'[c].planning = op[c].planning /\ op[c].st = "invoking")
    BY <1>4, <1>t DEF TypeOK, Call
  <2>3. ASSUME NEW d \in CycIds, op'[d].st # "none"
        PROVE  CallOfCanceled(d)' \/ CallOfLive(d)'
    <3>1. CallOfCanceled(d) \/ CallOfLive(d)
      BY <1>2, <2>2, <2>3 DEF DispatcherInv, OpFits
    <3>2. CallOfCanceled(d) => CallOfCanceled(d)'
      BY <1>3, <2>1 DEF CallOfCanceled, QuietStep
    <3>3. CallOfLive(d) => CallOfLive(d)'
      BY <1>2, <1>3, <2>1, <2>2 DEF CallOfLive, QuietStep, Over
    <3> QED BY <3>1, <3>2, <3>3
  <2>4. \A d \in CycIds : OpFits(d)'
    BY <1>3, <2>3 DEF OpFits
  <2> QED BY <2>1, <2>4, Undisturbed
<1>5. CASE server \in AfterCancel
  <2>1. CanceledTaskFits(c) /\ op[c].st = "none"
    BY <1>1, <1>5 DEF DispatcherInv, RegisteredFits, StoppedFits, AfterCancel
  <2>2. UNCHANGED store /\ op' = op
    BY <2>1 DEF CutShort, CanceledTaskFits, S!SetRun, store
  <2> QED BY <1>4, <2>2
<1>6. ASSUME server \notin AfterCancel, NEW cs \in S!CycleStatus, NEW rs, Writes(c, cs, rs),
             rs = "running" => cs # "queued" /\ cs \notin S!TerminalCycle, cs # "paused",
             op'[c].st # "none" => CallOfLive(c)', TaskFits(c)
      PROVE  RowsFit' /\ RunFits' /\ \A d \in CycIds : OpFits(d)'
  <2>1. /\ RowsFit' /\ RunFits' /\ \A d \in CycIds : Dispatching(d)' <=> Dispatching(d)
        /\ \A d \in CycIds \ {c} : ~Dispatching(d) /\ (Over(d)' <=> Over(d))
    BY <1>6, <1>t, WriteRows DEF TaskFits
  <2>2. ASSUME NEW d \in CycIds \ {c}, op'[d].st # "none" PROVE CallOfCanceled(d)'
    <3>1. CallOfCanceled(d)
      BY <1>2, <2>1, <2>2 DEF DispatcherInv, OpFits, CallOfLive
    <3> QED BY <1>3, <1>6, <3>1 DEF CallOfCanceled, Writes
  <2> QED BY <1>3, <1>6, <2>1, <2>2 DEF OpFits
<1>7. server \notin AfterCancel => TaskFits(c) /\ cyc \in [CycIds -> S!CycRow]
  BY <1>1, <1>t DEF DispatcherInv, RegisteredFits, AfterCancel, TypeOK, S!TypeOK, CycIds
<1>8. CASE server \notin AfterCancel
  <2>1. CASE op[c].st = "invoking" /\ SetOp(c, Call("completed", op[c].planning)) /\ UNCHANGED store
    BY <1>4, <2>1 DEF SetOp
  <2>2. CASE task[c] = "planning" /\ SetOp(c, NoCall) /\ S!SetCycle(c, "running")
    <3>1. Writes(c, "running", run)
      BY <2>2, <1>t, SetCycleWrites DEF S!SetCycle
    <3>2. op'[c].st = "none"
      BY <2>2, <1>t DEF SetOp, TypeOK, NoCall
    <3> QED BY <1>6, <1>7, <1>8, <3>1, <3>2 DEF S!CycleStatus, S!TerminalCycle
  <2>3. CASE task[c] = "resume_due" /\ op[c].st \notin {"waiting", "ambiguous"} /\ S!SetCycle(c, "running") /\ op' = op
    <3>1. Writes(c, "running", run)
      BY <2>3, <1>t, SetCycleWrites DEF S!SetCycle
    <3>2. op'[c].st # "none" => CallOfLive(c)'
      BY <1>7, <1>8, <2>3, <3>1 DEF TaskFits, CallOfLive, Writes, Dispatching, Over, S!TerminalCycle
    <3> QED BY <1>6, <1>7, <1>8, <3>1, <3>2 DEF S!CycleStatus, S!TerminalCycle
  <2>4. ASSUME task[c] = "working", NEW rs \in {"failed", "blocked", "paused", "canceled"}, S!SetRun(rs),
               (op'[c].st = "none") \/ (rs = "canceled" /\ op' = op)
        PROVE  RowsFit' /\ RunFits' /\ \A d \in CycIds : OpFits(d)'
    <3>1. Writes(c, "running", rs)
      BY <1>7, <1>8, <2>4 DEF Writes, S!SetRun, TaskFits
    <3>2. op'[c].st # "none" => CallOfLive(c)'
      BY <1>3, <1>7, <1>8, <2>4, <3>1 DEF TaskFits, CallOfLive, Writes, Dispatching, Over, S!TerminalCycle
    <3> QED BY <1>6, <1>7, <1>8, <2>4, <3>1, <3>2 DEF S!CycleStatus, S!TerminalCycle
  <2>5. SetOp(c, NoCall) => op'[c].st = "none"
    BY <1>t DEF SetOp, TypeOK, NoCall
  <2> QED BY <2>1, <2>2, <2>3, <2>4, <2>5 DEF CutShort
<1> QED BY <1>5, <1>8

LEMMA CrashKeeps ==
  ASSUME DispatcherInv, TypeOK', Stored!CycleInv', Crash
  PROVE  DispatcherInv'
<1>t. TypeOK /\ RowsFit /\ RunFits
  BY DEF DispatcherInv
<1>1. ProcessEnds /\ server' = "down"
  BY DEF Crash, ProcessEnds
<1>2. RowsFit' /\ RunFits' /\ \A d \in CycIds : OpFits(d)'
  <2>1. CASE UNCHANGED <<store, op>>
    <3>1. QuietStep
      BY <2>1, <1>t, NothingIsQuiet DEF store
    <3>2. \A d \in CycIds : OpFits(d)'
      BY <1>1, <2>1, <3>1
        DEF DispatcherInv, OpFits, CallOfCanceled, CallOfLive, QuietStep, Over, Unrepaired, Repaired
    <3> QED BY <3>1, <3>2, Undisturbed
  <2> QED BY <1>1, <2>1, CutShortFits DEF Crash
<1>3. \A w \in Workers : wk'[w].pc = "off" /\ wk'[w].news = "none"
  BY <1>1 DEF ProcessEnds, Off, WorkerAt
<1> QED BY <1>1, <1>2, <1>3, RestKeeps DEF ProcessEnds, AtRest, Unrepaired

-----------------------------------------------------------------------------
(* An emergency stop keeps the invariant.                                  *)

LEMMA EmergencyStopKeeps ==
  ASSUME DispatcherInv, Ordinary, TypeOK', EmergencyStop, Stored!CycleInv'
  PROVE  DispatcherInv'
<1>t. TypeOK /\ RowsFit
  BY DEF DispatcherInv
<1>1. /\ Listening /\ server \in {"up", "halted"} /\ server' = "halting" /\ claim' = 0
      /\ wk' = [w \in Workers |-> Stopped(w)]
      /\ doomed' = doomed \cup {c \in CycIds : \E w \in Workers : Awaits(w, c)}
      /\ UNCHANGED <<run, req, cyc, op, marks, task, reg, waiter>>
  BY DEF EmergencyStop, StopWorkers, store, ledger
<1>2. /\ marks = {} /\ ~CancelIsDue
      /\ \A w \in Workers : wk[w].pc \in {"off", "idle", "awaiting"} /\ wk[w].news = "none"
      /\ \A c \in CycIds : task[c] \notin {"plan_due", "resume_due", "ended"}
  BY <1>1, ListeningLoop DEF Listening
<1>3. QuietStep
  BY <1>1, <1>t, NothingIsQuiet
<1>4. \A w \in Workers : \/ wk'[w] = wk[w] /\ wk[w].pc \in {"off", "awaiting"}
                         \/ wk'[w].pc = "off" /\ wk'[w].news = "none"
  BY <1>1, <1>2 DEF Stopped, Off, WorkerAt
<1>5. \A w \in Workers : WorkerFits(w)'
  <2> SUFFICES ASSUME NEW w \in Workers PROVE WorkerFits(w)'
    OBVIOUS
  <2>1. wk'[w].pc \in {"off", "awaiting"} /\ wk'[w].news = "none"
    BY <1>2, <1>4
  <2>2. wk'[w].pc = "awaiting" => wk'[w] = wk[w]
    BY <1>4
  <2>3. \A v \in Workers : wk'[v].pc = "awaiting" => wk[v].pc = "awaiting"
    BY <1>4
  <2>4. AwaitFits(w)'
    BY <1>1, <1>2, <1>t, Fields, <2>1, <2>2, <2>3 DEF DispatcherInv, WorkerFits, AwaitFits
  <2>5. SectionFits(w)'
    <3>1. wk'[w].pc = "awaiting" => wk'[w].cycle # 0
      BY <2>2 DEF DispatcherInv, WorkerFits, SectionFits
    <3> QED BY <2>1, <3>1 DEF SectionFits, Section
  <2> QED BY <1>1, <2>1, <2>4, <2>5 DEF WorkerFits, AtRest, Unrepaired, Repaired, AfterCancel
<1>6. RegistryFits' /\ MarksFit' /\ RestFits' /\ ClaimFits' /\ ServerFits' /\ StoppedFits' /\ RowsFit' /\ RunFits'
  <2>1. server' \notin AfterCancel \cup AtRest
    BY <1>1 DEF AtRest, Unrepaired, Repaired, AfterCancel
  <2> QED BY <1>1, <1>2, <1>3, <2>1, Undisturbed DEF MarksFit, RestFits, ClaimFits, ServerFits
<1>7. BetweenFits'
  BY <1>1, <1>2, <1>4 DEF BetweenFits, Between, Section
<1>8. DoomedFits'
  <2>1. \A c \in CycIds, w \in Workers : Awaits(w, c) => reg = c /\ task[c] \in {"planning", "working"}
    BY <1>2, <1>t, Fields
      DEF DispatcherInv, WorkerFits, SectionFits, AwaitFits, Awaits, RegistryFits, TaskStatus
  <2>2. ~CancelIsDue'
    BY <1>1, <1>2 DEF CancelIsDue
  <2> QED BY <1>1, <2>1, <2>2 DEF DispatcherInv, DoomedFits
<1>9. RegisteredFits'
  <2>1. ASSUME reg # 0 PROVE TaskFits(reg)'
    <3>1. TaskFits(reg) /\ task[reg] \in {"planning", "working"} /\ reg \in CycIds
      BY <1>1, <1>2, <1>t, <2>1, Fields DEF DispatcherInv, RegisteredFits, RegistryFits, TaskStatus
    <3> QED BY <1>1, <1>3, <3>1 DEF TaskFits, QuietStep
  <2> QED BY <1>1, <2>1 DEF RegisteredFits
<1>10. ASSUME NEW c \in CycIds, op'[c].st # "none" PROVE OpFits(c)'
  <2>1. OpFits(c) /\ server = "up"
    BY <1>1, <1>10 DEF DispatcherInv, StoppedFits, AfterCancel
  <2>2. CallOfLive(c)
    BY <1>1, <1>2, <1>10, <1>t, <2>1, Fields DEF OpFits, CallOfCanceled, CancelIsDue, Unrepaired
  <2>3. CallOfLive(c)'
    BY <1>1, <1>3, <2>1, <2>2 DEF CallOfLive, QuietStep, Over, Unrepaired
  <2> QED BY <1>1, <2>3 DEF OpFits, Repaired
<1>11. \A c \in CycIds : OpFits(c)'
  BY <1>10 DEF OpFits
<1> QED BY <1>5, <1>6, <1>7, <1>8, <1>9, <1>11 DEF DispatcherInv

\* What an emergency stop needs of a step to its own next phase.
LEMMA PhaseKeeps ==
  ASSUME DispatcherInv, TypeOK', Stored!CycleInv', server' \in AfterCancel, RowsFit', RunFits',
         \A w \in Workers : wk[w].pc = "off" /\ wk[w].news = "none",
         marks = {}, UNCHANGED <<wk, marks, task, reg>>,
         StoppedFits', RegisteredFits', DoomedFits'
  PROVE  DispatcherInv'
<1>1. server' \notin AtRest /\ server' \notin {"up", "halting"}
  BY DEF AtRest, Unrepaired, Repaired, AfterCancel
<1>2. ServerFits' /\ MarksFit' /\ RestFits' /\ ClaimFits' /\ \A c \in CycIds : OpFits(c)'
  BY <1>1 DEF ServerFits, MarksFit, RestFits, ClaimFits, StoppedFits, OpFits
<1>3. RegistryFits' /\ BetweenFits'
  BY Undisturbed
<1>4. \A w \in Workers : WorkerFits(w)'
  BY <1>1 DEF WorkerFits, SectionFits, AwaitFits, Section
<1> QED BY <1>2, <1>3, <1>4 DEF DispatcherInv

LEMMA CancelActiveKeeps ==
  ASSUME DispatcherInv, TypeOK', Stored!CycleInv', CancelActive
  PROVE  DispatcherInv'
<1>t. TypeOK /\ RowsFit /\ RunFits
  BY DEF DispatcherInv
<1>1. /\ server = "halting" /\ server' = "canceled" /\ tokens' = 0 /\ marks = {}
      /\ \A w \in Workers : wk[w].pc = "off" /\ wk[w].news = "none"
      /\ \A c \in CycIds : task[c] # "ended"
      /\ UNCHANGED <<wk, marks, task, doomed, reg, claim, waiter>>
  BY DEF CancelActive, Quiet, LoopFree, WorkersAreGone, consumers, tasks
<1>2. claim = 0
  BY <1>1 DEF DispatcherInv, ClaimFits
<1>3. reg # 0 => TaskFits(reg) /\ task[reg] \in {"planning", "working"} /\ reg \in CycIds
  BY <1>1, <1>t, Fields DEF DispatcherInv, RegisteredFits, TaskFits
<1>4. /\ RowsFit' /\ RunFits' /\ run' # "running" /\ ~HasActiveWork'
      /\ \A c \in CycIds : op'[c].st = "none"
      /\ reg # 0 => CanceledTaskFits(reg)'
  <2>1. CASE HasActiveWork
    <3>1. CancelWithCalls
      BY <2>1 DEF CancelActive
    <3>2. /\ RowsFit' /\ RunFits' /\ run' # "running" /\ ~HasActiveWork'
          /\ \A c \in CycIds : cyc[c].status \in {"queued", "interrupted", "running"} =>
                                 cyc'[c].status = "canceled"
          /\ run = "running" => run' = "canceled"
      BY <3>1, <1>t, CancelRows DEF CancelWithCalls
    <3>3. reg # 0 => CanceledTaskFits(reg)'
      BY <1>1, <1>3, <3>2 DEF CanceledTaskFits, TaskFits
    <3>4. \A c \in CycIds : op'[c].st = "none"
      BY <3>1 DEF CancelWithCalls, NoCall
    <3> QED BY <3>2, <3>3, <3>4
  <2>2. CASE ~HasActiveWork
    <3>1. UNCHANGED store /\ op' = op
      BY <2>2 DEF CancelActive
    <3>2. \A c \in CycIds : ~Dispatching(c)
      BY <2>2, <1>t, Fields DEF Dispatching, HasActiveWork, S!Live
    <3>3. reg = 0 /\ run # "running"
      BY <1>3, <1>t, <3>2 DEF TaskFits, RunFits
    <3>4. \A c \in CycIds : op[c].st = "none"
      BY <1>1, <3>2 DEF DispatcherInv, OpFits, CallOfCanceled, CallOfLive, Unrepaired
    <3>5. QuietStep
      BY <1>t, <3>1, NothingIsQuiet DEF store
    <3>6. ~HasActiveWork'
      BY <2>2, <3>1 DEF HasActiveWork, store
    <3> QED BY <3>1, <3>3, <3>4, <3>5, <3>6, Undisturbed DEF QuietStep
  <2> QED BY <2>1, <2>2
<1>5. StoppedFits' /\ RegisteredFits'
  BY <1>1, <1>2, <1>4 DEF StoppedFits, RegisteredFits
<1>6. DoomedFits'
  BY <1>1 DEF DispatcherInv, DoomedFits, CancelIsDue
<1> QED BY <1>1, <1>4, <1>5, <1>6, PhaseKeeps DEF AfterCancel

LEMMA CancelTasksKeeps ==
  ASSUME DispatcherInv, TypeOK', Stored!CycleInv', CancelTasks
  PROVE  DispatcherInv'
<1>t. TypeOK /\ RowsFit
  BY DEF DispatcherInv
<1>1. /\ server = "canceled" /\ UNCHANGED <<run, req, cyc, ser, op, tokens, wk, marks, task, reg, claim, waiter>>
      /\ \/ reg = 0 /\ server' = "halted" /\ doomed' = doomed
         \/ reg # 0 /\ server' = "gathering" /\ doomed' = doomed \cup {reg}
  BY DEF CancelTasks, store, ledger, consumers
<1>2. marks = {} /\ \A w \in Workers : wk[w].pc = "off" /\ wk[w].news = "none"
  BY <1>1 DEF DispatcherInv, MarksFit, WorkerFits, AwaitFits, AfterCancel
<1>3. QuietStep
  BY <1>1, <1>t, NothingIsQuiet
<1>4. StoppedFits'
  BY <1>1 DEF DispatcherInv, StoppedFits, HasActiveWork, AfterCancel
<1>5. reg # 0 => CanceledTaskFits(reg) /\ reg \in CycIds
  BY <1>1, <1>t, Fields DEF DispatcherInv, RegisteredFits
<1>6. RegisteredFits'
  BY <1>1, <1>5 DEF RegisteredFits, CanceledTaskFits
<1>7. DoomedFits'
  <2>1. \A c \in doomed' : reg = c /\ task[c] \in {"planning", "working"}
    BY <1>1, <1>5 DEF DispatcherInv, DoomedFits, CanceledTaskFits
  <2>2. CancelIsDue' => reg = 0
    BY <1>1 DEF DispatcherInv, DoomedFits, CancelIsDue
  <2> QED BY <1>1, <2>1, <2>2 DEF DoomedFits
<1>8. server' \in AfterCancel
  BY <1>1 DEF AfterCancel
<1> QED BY <1>1, <1>2, <1>3, <1>4, <1>6, <1>7, <1>8, PhaseKeeps, Undisturbed

LEMMA StopAnswersKeeps ==
  ASSUME DispatcherInv, TypeOK', Stored!CycleInv', StopAnswers
  PROVE  DispatcherInv'
<1>1. /\ server = "gathering" /\ server' = "halted" /\ doomed = {} /\ CancelWithCalls
      /\ UNCHANGED <<tokens, wk, marks, task, doomed, reg, claim, waiter>>
  BY DEF StopAnswers, consumers, tasks
<1>2. /\ reg = 0 /\ marks = {} /\ tokens = 0
      /\ \A w \in Workers : wk[w].pc = "off" /\ wk[w].news = "none"
  BY <1>1 DEF DispatcherInv, DoomedFits, MarksFit, StoppedFits, WorkerFits, AwaitFits, AfterCancel
<1> QED BY <1>1, <1>2, CanceledKeeps DEF AtRest, Unrepaired, Repaired, AfterCancel

LEMMA ResumeIntakeKeeps ==
  ASSUME DispatcherInv, Ordinary, TypeOK', Stored!CycleInv', ResumeIntake
  PROVE  DispatcherInv'
<1>t. TypeOK /\ RowsFit
  BY DEF DispatcherInv
<1>1. /\ Listening /\ server = "halted" /\ server' = "up" /\ wk' = [w \in Workers |-> IdleWorker]
      /\ UNCHANGED <<run, req, cyc, op, marks, task, doomed, reg, claim, waiter>>
  BY DEF ResumeIntake, store, ledger, tasks
<1>2. /\ reg = 0 /\ claim = 0 /\ marks = {} /\ doomed = {} /\ waiter = 0
      /\ \A c \in CycIds : op[c].st = "none"
  <2>1. reg = 0 /\ claim = 0 /\ marks = {} /\ \A c \in CycIds : op[c].st = "none"
    BY <1>1 DEF DispatcherInv, RegisteredFits, StoppedFits, MarksFit, AfterCancel
  <2>2. doomed = {}
    BY <2>1, <1>t, Fields DEF DispatcherInv, DoomedFits
  <2> QED BY <1>1, <2>1, <2>2 DEF Listening, CancelIsDue
<1>3. \A w \in Workers : wk'[w].pc = "idle" /\ wk'[w].news = "none"
  BY <1>1 DEF IdleWorker, WorkerAt
<1>4. QuietStep
  BY <1>1, <1>t, NothingIsQuiet
<1>5. ServerFits' /\ StoppedFits' /\ server' \notin AtRest \cup AfterCancel
  BY <1>1 DEF ServerFits, StoppedFits, AtRest, Unrepaired, Repaired, AfterCancel
<1>6. RowsFit' /\ RunFits' /\ RegistryFits' /\ MarksFit' /\ RestFits' /\ DoomedFits' /\ ClaimFits' /\ RegisteredFits'
  BY <1>1, <1>2, <1>4, <1>5, Undisturbed
    DEF MarksFit, RestFits, DoomedFits, CancelIsDue, ClaimFits, RegisteredFits
<1>7. BetweenFits' /\ \A w \in Workers : WorkerFits(w)'
  BY <1>1, <1>2, <1>3, <1>5 DEF BetweenFits, WorkerFits, SectionFits, AwaitFits, Section
<1>8. \A c \in CycIds : OpFits(c)'
  BY <1>1, <1>2 DEF OpFits
<1> QED BY <1>5, <1>6, <1>7, <1>8 DEF DispatcherInv

LEMMA StopKeeps ==
  ASSUME DispatcherInv, Ordinary, TypeOK', Stored!CycleInv', Stops \/ Emergency
  PROVE  DispatcherInv'
<1>1. ~Shutdown
  BY WhatMayHappen DEF Shutdown
<1>2. ~CancelRegistered /\ ~Exit
  BY DEF CancelRegistered, Exit, DispatcherInv, ServerFits, AtRest, Unrepaired, Repaired, AfterCancel
<1> QED BY <1>1, <1>2, CrashKeeps, EmergencyStopKeeps, CancelActiveKeeps, CancelTasksKeeps,
           StopAnswersKeeps, ResumeIntakeKeeps DEF Stops, Emergency

-----------------------------------------------------------------------------
(* Starting the process keeps the invariant.                               *)

LEMMA Resting ==
  ASSUME DispatcherInv, server \in AtRest
  PROVE  /\ \A w \in Workers : wk[w].pc = "off" /\ wk[w].news = "none"
         /\ marks = {} /\ doomed = {} /\ reg = 0 /\ claim = 0 /\ waiter = 0
         /\ \A c \in CycIds : task[c] = "none"
<1>1. /\ marks = {} /\ doomed = {} /\ reg = 0 /\ claim = 0 /\ waiter = 0
      /\ \A w \in Workers : wk[w].pc = "off" /\ wk[w].news = "none"
  BY DEF DispatcherInv, MarksFit, RestFits, WorkerFits, AwaitFits
<1>2. \A c \in CycIds : task[c] = "none"
  BY <1>1 DEF DispatcherInv, RegistryFits, CycIds, S!CycIds
<1> QED BY <1>1, <1>2

\* A step of the start-up changes rows, runs and calls only.
LEMMA StartKeeps ==
  ASSUME DispatcherInv, TypeOK', Stored!CycleInv', server \in AtRest, server' \in AtRest,
         UNCHANGED <<wk, marks, task, doomed, reg, claim, waiter>>,
         RowsFit', RunFits', \A c \in CycIds : OpFits(c)'
  PROVE  DispatcherInv'
<1>1. /\ \A w \in Workers : wk'[w].pc = "off" /\ wk'[w].news = "none"
      /\ marks' = {} /\ doomed' = {} /\ reg' = 0 /\ claim' = 0 /\ waiter' = 0
      /\ \A c \in CycIds : task'[c] = "none"
  BY Resting
<1> QED BY <1>1, RestKeeps

\* Before the calls are reconciled, a call is of the live cycle or of a canceled one.
LEMMA UnrepairedCalls ==
  ASSUME DispatcherInv, server \in Unrepaired
  PROVE  \A c \in CycIds : op[c].st # "none" => cyc[c].status = "canceled" \/ CallOfLive(c)
BY DEF DispatcherInv, OpFits, CallOfCanceled

\* Afterwards it is of the live cycle of a run that is not canceled.
LEMMA RepairedCalls ==
  ASSUME DispatcherInv, server \in Repaired
  PROVE  \A c \in CycIds : op[c].st # "none" =>
           /\ CallOfLive(c) /\ op[c].st # "invoking" /\ run # "canceled"
           /\ \A d \in CycIds : op[d].st # "none" => d = c
<1>1. server \notin Unrepaired /\ server \notin {"up", "halting"}
  BY DEF Repaired, Unrepaired
<1>2. \A c \in CycIds : op[c].st # "none" => CallOfLive(c) /\ op[c].st # "invoking"
  BY <1>1 DEF DispatcherInv, OpFits, CallOfCanceled
<1>3. \A c, d \in CycIds : op[c].st # "none" /\ op[d].st # "none" => c = d
  BY <1>2, OneLive DEF CallOfLive, DispatcherInv
<1> QED BY <1>1, <1>2, <1>3 DEF CallOfLive

LEMMA BootKeeps ==
  ASSUME DispatcherInv, TypeOK', Stored!CycleInv', Boot \/ InterruptActive \/ OpsReconciled
  PROVE  DispatcherInv'
<1>t. TypeOK /\ RowsFit /\ RunFits
  BY DEF DispatcherInv
<1>1. /\ server \in Unrepaired /\ server \in AtRest /\ server' \in AtRest
      /\ UNCHANGED <<op, wk, marks, task, doomed, reg, claim, waiter>>
  BY DEF Boot, InterruptActive, OpsReconciled, Phase, consumers, tasks, AtRest, Unrepaired, Repaired
<1>2. CASE UNCHANGED store
  <2>1. QuietStep
    BY <1>2, <1>t, NothingIsQuiet DEF store
  <2>2. CASE server' \in Unrepaired
    <3>1. server' # "up" /\ server' \notin Repaired
      BY <2>2 DEF Unrepaired, Repaired
    <3>2. \A c \in CycIds : OpFits(c)'
      BY <1>1, <2>1, <2>2, <3>1, UnrepairedCalls
        DEF OpFits, CallOfCanceled, CallOfLive, QuietStep, Over
    <3> QED BY <1>1, <2>1, <3>2, StartKeeps, Undisturbed
  <2>3. CASE server' \notin Unrepaired
    <3>1. /\ \A c \in CycIds : ~Unreconciled(c)
          /\ server' = "reconcile_decisions"
      BY <2>3 DEF Boot, InterruptActive, OpsReconciled, Phase, Unrepaired
    <3>2. \A c \in CycIds : op[c].st # "none" => CallOfLive(c) /\ op[c].st # "invoking" /\ run # "canceled"
      BY <1>1, <3>1, UnrepairedCalls DEF Unreconciled, SourceCanceled
    <3>3. \A c \in CycIds : OpFits(c)'
      BY <1>1, <2>1, <3>1, <3>2 DEF OpFits, CallOfLive, QuietStep, Over
    <3> QED BY <1>1, <2>1, <3>3, StartKeeps, Undisturbed
  <2> QED BY <2>2, <2>3
<1>3. CASE InterruptActive /\ ~UNCHANGED store
  <2>1. run = "running" /\ ~HasOpenCall /\ S!InterruptRun(FALSE)
    BY <1>3 DEF InterruptActive
  <2>2. /\ run' = "interrupted" /\ req' = req
        /\ \A c \in CycIds : /\ cyc'[c].request = cyc[c].request
                             /\ \/ cyc'[c].status = cyc[c].status
                                \/ cyc[c].status = "running" /\ cyc'[c].status = "interrupted"
    BY <2>1, <1>t DEF S!InterruptRun, S!InterruptedCycle, TypeOK, S!TypeOK, S!CycRow, CycIds
  <2>3. \A c \in CycIds : (Dispatching(c)' <=> Dispatching(c)) /\ (Over(c)' <=> Over(c))
    BY <2>2 DEF Dispatching, Over, S!TerminalCycle
  <2>4. RowsFit' /\ RunFits'
    <3>1. S!OneDispatching'
      BY <1>t, <2>2 DEF RowsFit, S!OneDispatching
    <3>2. /\ \A c, d \in CycIds : cyc'[c].request # 0 /\ cyc'[c].request = cyc'[d].request => c = d
          /\ \A c \in CycIds : cyc'[c].status = "absent" <=> cyc'[c].request = 0
      BY <1>t, <2>2 DEF RowsFit
    <3>3. \A c \in CycIds : cyc'[c].request # 0 => Over(c)' \/ Dispatching(c)'
      BY <1>t, <2>1, <2>2, <2>3 DEF RowsFit
    <3>4. RunFits'
      BY <2>2 DEF RunFits
    <3> QED BY <3>1, <3>2, <3>3, <3>4 DEF RowsFit
  <2>5. \A c \in CycIds : OpFits(c)'
    BY <1>1, <2>1 DEF OpFits, HasOpenCall
  <2> QED BY <1>1, <2>4, <2>5, StartKeeps
<1> QED BY <1>2, <1>3 DEF Boot, OpsReconciled

LEMMA ReconcileOpKeeps ==
  ASSUME DispatcherInv, TypeOK', Stored!CycleInv', NEW c \in CycIds, ReconcileOp(c)
  PROVE  DispatcherInv'
<1>t. TypeOK /\ RowsFit /\ RunFits
  BY DEF DispatcherInv
<1>1. /\ server = "reconcile_ops" /\ UNCHANGED <<server, wk, marks, task, doomed, reg, claim, waiter>>
      /\ server \in AtRest /\ server \in Unrepaired /\ server \notin Repaired
  BY DEF ReconcileOp, consumers, tasks, AtRest, Unrepaired, Repaired
<1>2. CASE SourceCanceled(c)
  <2>1. SetOp(c, NoCall) /\ UNCHANGED store
    BY <1>2 DEF ReconcileOp
  <2>2. QuietStep
    BY <2>1, <1>t, NothingIsQuiet DEF store
  <2>3. op'[c].st = "none" /\ \A d \in CycIds \ {c} : op'[d] = op[d]
    BY <2>1, <1>t DEF SetOp, NoCall, TypeOK
  <2>4. \A d \in CycIds : OpFits(d)'
    BY <1>1, <2>2, <2>3, UnrepairedCalls DEF OpFits, CallOfCanceled, CallOfLive, QuietStep, Over
  <2> QED BY <1>1, <2>2, <2>4, StartKeeps, Undisturbed
<1>3. CASE ~SourceCanceled(c)
  <2>1. SetOp(c, Call("ambiguous", op[c].planning)) /\ S!SetCycleAndRun(c, "interrupted", "interrupted")
    BY <1>3 DEF ReconcileOp
  <2>2. CallOfLive(c) /\ run # "canceled"
    BY <1>1, <1>3, UnrepairedCalls DEF ReconcileOp, Unreconciled, SourceCanceled
  <2>3. Writes(c, "interrupted", "interrupted")
    BY <2>1, <1>t, SetCycleWrites
  <2>4. /\ RowsFit' /\ RunFits' /\ \A d \in CycIds : Dispatching(d)' <=> Dispatching(d)
        /\ \A d \in CycIds \ {c} : ~Dispatching(d)
    BY <2>2, <2>3, <1>t, WriteRows DEF CallOfLive, S!CycleStatus
  <2>5. op'[c].st = "ambiguous" /\ \A d \in CycIds \ {c} : op'[d] = op[d]
    BY <2>1, <1>t DEF SetOp, Call, TypeOK
  <2>6. ASSUME NEW d \in CycIds, op'[d].st # "none" PROVE CallOfCanceled(d)' \/ CallOfLive(d)'
    <3>1. CASE d = c
      BY <2>2, <2>3, <2>4, <2>5, <3>1 DEF CallOfLive, Writes, Over, S!TerminalCycle
    <3>2. CASE d # c
      <4>1. cyc[d].status = "canceled"
        BY <1>1, <2>4, <2>5, <2>6, <3>2, UnrepairedCalls DEF CallOfLive
      <4> QED BY <1>1, <2>3, <3>2, <4>1 DEF CallOfCanceled, Writes
    <3> QED BY <3>1, <3>2
  <2>7. \A d \in CycIds : OpFits(d)'
    BY <1>1, <2>6 DEF OpFits
  <2> QED BY <1>1, <2>4, <2>7, StartKeeps
<1> QED BY <1>2, <1>3

\* reconcile_lifecycle puts the cycles of open questions back on the user.
LEMMA ReconcileDecisionsKeeps ==
  ASSUME DispatcherInv, TypeOK', Stored!CycleInv', ReconcileDecisions
  PROVE  DispatcherInv'
<1>t. TypeOK /\ RowsFit /\ RunFits /\ Stored!CycleInv
  BY DEF DispatcherInv
<1>1. /\ server \in Repaired /\ server \in AtRest /\ server' \in AtRest /\ server' \notin Unrepaired /\ server' # "up"
      /\ UNCHANGED <<op, wk, marks, task, doomed, reg, claim, waiter>>
  BY DEF ReconcileDecisions, Phase, consumers, tasks, AtRest, Unrepaired, Repaired
<1>2. CASE UNCHANGED store
  <2>1. QuietStep
    BY <1>2, <1>t, NothingIsQuiet DEF store
  <2>2. \A c \in CycIds : OpFits(c)'
    BY <1>1, <2>1, RepairedCalls DEF OpFits, CallOfLive, QuietStep, Over
  <2> QED BY <1>1, <2>1, <2>2, StartKeeps, Undisturbed
<1>3. CASE S!ReconcileLifecycle(Resumable)
  <2> DEFINE open == S!OpenDecisions(Resumable)
  <2>1. /\ req' = req /\ run' = IF run \in S!TerminalRun THEN run ELSE "waiting_for_user"
        /\ \A c \in CycIds :
             /\ cyc'[c].request = cyc[c].request
             /\ cyc'[c].status = IF c \in open /\ ~Over(c) THEN "waiting_for_user" ELSE cyc[c].status
    <3>1. /\ req' = req /\ run' = IF run \in S!TerminalRun THEN run ELSE "waiting_for_user"
          /\ cyc' = [c \in CycIds |-> IF c \in open /\ cyc[c].status \notin S!TerminalCycle
                                      THEN [cyc[c] EXCEPT !.status = "waiting_for_user"] ELSE cyc[c]]
      BY <1>3 DEF S!ReconcileLifecycle, CycIds
    <3> HIDE DEF open
    <3>2. \A c \in CycIds : cyc[c] \in S!CycRow
      BY <1>t DEF TypeOK, S!TypeOK, CycIds
    <3> QED BY <3>1, <3>2 DEF Over, S!CycRow
  <2>2. \A c \in open : cyc[c].status # "absent" /\ c \notin Resumable
    BY <1>t DEF S!OpenDecisions, Stored!CycleInv, Stored!AbsentRowsAreEmpty, Stored!CycIds, CycIds, S!CycIds
  <2> HIDE DEF open
  <2>3. \A c \in CycIds : (Dispatching(c)' <=> Dispatching(c)) /\ (Over(c)' <=> Over(c))
    BY <2>1 DEF Dispatching, Over, S!TerminalCycle
  <2>4. run' # "running" /\ (run = "canceled" <=> run' = "canceled") /\ run' # "interrupted"
    BY <2>1 DEF S!TerminalRun
  <2>5. RowsFit'
    <3>1. S!OneDispatching'
      BY <1>t, <2>1 DEF RowsFit, S!OneDispatching
    <3>2. /\ \A c, d \in CycIds : cyc'[c].request # 0 /\ cyc'[c].request = cyc'[d].request => c = d
          /\ \A c \in CycIds : cyc'[c].status = "absent" <=> cyc'[c].request = 0
      BY <1>t, <2>1, <2>2 DEF RowsFit
    <3>3. \A c \in CycIds : cyc'[c].request # 0 =>
            \/ Over(c)' \/ Dispatching(c)'
            \/ cyc'[c].status \in {"paused", "waiting_for_user"} /\ run' = "canceled"
      BY <1>t, <2>1, <2>3, <2>4 DEF RowsFit
    <3> QED BY <3>1, <3>2, <3>3 DEF RowsFit
  <2>6. RunFits'
    <3>1. \A c \in CycIds : cyc'[c].status = "paused" => cyc[c].status = "paused"
      BY <2>1
    <3> QED BY <1>t, <2>1, <2>3, <2>4, <3>1 DEF RunFits
  <2>7. ASSUME NEW c \in CycIds, op[c].st # "none" PROVE OpFits(c)'
    <3>1. CallOfLive(c) /\ op[c].st # "invoking" /\ run # "canceled"
      BY <1>1, <2>7, RepairedCalls
    <3>2. op[c].st \in {"prepared", "completed"} => cyc'[c].status = cyc[c].status
      BY <2>1, <2>2 DEF Resumable
    <3>3. CallOfLive(c)'
      BY <1>1, <2>3, <2>4, <3>1, <3>2 DEF CallOfLive
    <3> QED BY <1>1, <3>1, <3>3 DEF OpFits
  <2>8. \A c \in CycIds : OpFits(c)'
    BY <1>1, <2>7 DEF OpFits
  <2> QED BY <1>1, <2>5, <2>6, <2>8, StartKeeps
<1> QED BY <1>2, <1>3 DEF ReconcileDecisions

LEMMA InterruptCyclesKeeps ==
  ASSUME DispatcherInv, TypeOK', Stored!CycleInv', InterruptCycles
  PROVE  DispatcherInv'
<1>t. TypeOK /\ RowsFit /\ RunFits
  BY DEF DispatcherInv
<1>1. /\ server \in Repaired /\ server \in AtRest /\ server' \in AtRest /\ server' \notin Unrepaired /\ server' # "up"
      /\ UNCHANGED <<op, wk, marks, task, doomed, reg, claim, waiter>>
  BY DEF InterruptCycles, Phase, consumers, tasks, AtRest, Unrepaired, Repaired
<1>2. CASE UNCHANGED store
  <2>1. QuietStep
    BY <1>2, <1>t, NothingIsQuiet DEF store
  <2>2. \A c \in CycIds : OpFits(c)'
    BY <1>1, <2>1, RepairedCalls DEF OpFits, CallOfLive, QuietStep, Over
  <2> QED BY <1>1, <2>1, <2>2, StartKeeps, Undisturbed
<1>3. ASSUME NEW c \in CycIds, NotResumed(c), S!SetCycle(c, "interrupted") PROVE DispatcherInv'
  <2>1. Writes(c, "interrupted", run) /\ Dispatching(c) /\ cyc[c].status \in {"queued", "running"} /\ ~Over(c)
    BY <1>3, <1>t, SetCycleWrites DEF S!SetCycle, NotResumed, Over, S!TerminalCycle
  <2>3. /\ RowsFit' /\ RunFits' /\ \A d \in CycIds : Dispatching(d)' <=> Dispatching(d)
        /\ \A d \in CycIds \ {c} : ~Dispatching(d)
    BY <2>1, <1>t, WriteRows DEF S!CycleStatus, S!TerminalCycle
  <2>4. ASSUME NEW d \in CycIds, op[d].st # "none" PROVE OpFits(d)'
    <3>1. CallOfLive(d) /\ op[d].st # "invoking" /\ run # "canceled" /\ d = c
      BY <1>1, <2>3, <2>4, RepairedCalls DEF CallOfLive
    <3>2. op[d].st \notin {"prepared", "completed"}
      BY <1>3, <3>1 DEF NotResumed, Resumable
    <3>3. CallOfLive(d)'
      BY <1>1, <2>1, <2>3, <3>1, <3>2 DEF CallOfLive, Writes, Over, S!TerminalCycle
    <3> QED BY <1>1, <3>1, <3>3 DEF OpFits
  <2>5. \A d \in CycIds : OpFits(d)'
    BY <1>1, <2>4 DEF OpFits
  <2> QED BY <1>1, <2>3, <2>5, StartKeeps
<1> QED BY <1>2, <1>3 DEF InterruptCycles

LEMMA ReconcileRequestsKeeps ==
  ASSUME DispatcherInv, TypeOK', Stored!CycleInv', ReconcileRequests
  PROVE  DispatcherInv'
<1>t. TypeOK /\ RowsFit /\ RunFits
  BY DEF DispatcherInv
<1>1. /\ server \in Repaired /\ server \in AtRest /\ server' \in AtRest /\ server' \notin Unrepaired /\ server' # "up"
      /\ UNCHANGED <<op, wk, marks, task, doomed, reg, claim, waiter>>
  BY DEF ReconcileRequests, Phase, consumers, tasks, AtRest, Unrepaired, Repaired
<1>2. CASE QuietStep
  <2>1. \A c \in CycIds : OpFits(c)'
    BY <1>1, <1>2, RepairedCalls DEF OpFits, CallOfLive, QuietStep, Over
  <2> QED BY <1>1, <1>2, <2>1, StartKeeps, Undisturbed
<1>3. ASSUME NEW c \in CycIds, S!SettleCycle(c) PROVE DispatcherInv'
  <2>1. /\ RowsFit' /\ RunFits' /\ UNCHANGED <<run, cyc>> /\ Over(c)
        /\ \A d \in CycIds : Dispatching(d)' <=> Dispatching(d) /\ d # c
    BY <1>3, <1>t, SettleCycleRows
  <2>2. \A d \in CycIds : OpFits(d)'
    BY <1>1, <2>1, RepairedCalls DEF OpFits, CallOfLive, Over
  <2> QED BY <1>1, <2>1, <2>2, StartKeeps
<1>4. \/ \E r \in S!ReqIds : S!RequeueClaim(r)
      \/ \E c \in CycIds : S!SettleCycle(c) \/ S!PauseSeries(c)
      \/ UNCHANGED <<run, req, cyc>>
  BY DEF ReconcileRequests, store
<1> QED BY <1>2, <1>3, <1>4, <1>t, QuietSteps, NothingIsQuiet

\* The cycle whose call is applied or repeated is scheduled.
LEMMA ServeKeeps ==
  ASSUME DispatcherInv, TypeOK', Stored!CycleInv', Serve
  PROVE  DispatcherInv'
<1>t. TypeOK /\ RowsFit /\ RunFits
  BY DEF DispatcherInv
<1>1. /\ server \in Repaired /\ server \in AtRest /\ server' = "up"
      /\ wk' = [w \in Workers |-> IdleWorker]
      /\ task' = [c \in CycIds |-> IF c \notin Resumable THEN "none"
                                   ELSE IF op[c].planning THEN "plan_due" ELSE "resume_due"]
      /\ reg' \in (IF Resumable = {} THEN {0} ELSE Resumable)
      /\ UNCHANGED <<run, req, cyc, op, marks, doomed, claim, waiter>>
  BY DEF Serve, store, ledger, AtRest, Unrepaired, Repaired
<1>2. marks = {} /\ doomed = {} /\ claim = 0 /\ waiter = 0
  BY <1>1, Resting
<1>3. /\ \A c \in CycIds : op[c].st # "none" =>
           CallOfLive(c) /\ op[c].st # "invoking" /\ run # "canceled"
      /\ \A c, d \in CycIds : op[c].st # "none" /\ op[d].st # "none" => c = d
  BY <1>1, RepairedCalls
<1>4. QuietStep
  BY <1>1, <1>t, NothingIsQuiet
<1>5. \A c \in CycIds : c \in Resumable <=> reg' = c
  BY <1>1, <1>3, <1>t, Fields DEF Resumable
<1>6. RegistryFits'
  BY <1>1, <1>5 DEF RegistryFits
<1>7. \A w \in Workers : wk'[w].pc = "idle" /\ wk'[w].news = "none"
  BY <1>1 DEF IdleWorker, WorkerAt
<1>8. ServerFits' /\ StoppedFits' /\ server' \notin AtRest \cup AfterCancel /\ server' \notin Repaired
  BY <1>1 DEF ServerFits, StoppedFits, AtRest, Unrepaired, Repaired, AfterCancel
<1>9. BetweenFits' /\ \A w \in Workers : WorkerFits(w)'
  BY <1>1, <1>2, <1>7, <1>8 DEF BetweenFits, Between, WorkerFits, SectionFits, AwaitFits, Section
<1>10. MarksFit' /\ RestFits' /\ DoomedFits' /\ ClaimFits' /\ RowsFit' /\ RunFits'
  BY <1>1, <1>2, <1>4, <1>8, Undisturbed DEF MarksFit, RestFits, DoomedFits, CancelIsDue, ClaimFits
<1>11. RegisteredFits'
  <2>1. ASSUME NEW c \in CycIds, reg' = c PROVE TaskFits(c)'
    <3>1. /\ op[c].st \in {"prepared", "completed"} /\ CallOfLive(c) /\ run # "canceled"
          /\ task'[c] = IF op[c].planning THEN "plan_due" ELSE "resume_due"
      BY <1>1, <1>3, <1>5, <2>1 DEF Resumable
    <3> QED BY <1>1, <1>4, <3>1 DEF TaskFits, CallOfLive, QuietStep
  <2>2. reg' \in CycIds \cup {0}
    BY <1>1 DEF Resumable
  <2> QED BY <1>1, <2>1, <2>2 DEF RegisteredFits
<1>12. \A c \in CycIds : OpFits(c)'
  <2>1. \A c \in CycIds : op[c].st \in {"prepared", "completed"} => Held(c)'
    BY <1>5 DEF Held, Resumable
  <2>2. \A c \in CycIds : op[c].st # "none" => CallOfLive(c)'
    BY <1>1, <1>3, <1>4 DEF CallOfLive, QuietStep, Over
  <2> QED BY <1>1, <1>3, <1>8, <2>1, <2>2 DEF OpFits
<1> QED BY <1>6, <1>8, <1>9, <1>10, <1>11, <1>12 DEF DispatcherInv

LEMMA StartsKeep ==
  ASSUME DispatcherInv, TypeOK', Stored!CycleInv', Starts
  PROVE  DispatcherInv'
BY BootKeeps, ReconcileOpKeeps, ReconcileDecisionsKeeps, InterruptCyclesKeeps, ReconcileRequestsKeeps,
   EnqueueKeeps, ServeKeeps DEF Starts

-----------------------------------------------------------------------------
(* The invariant is inductive.                                             *)

LEMMA DispatcherInvInit == Init => DispatcherInv
<1> SUFFICES ASSUME Init PROVE DispatcherInv
  OBVIOUS
<1>1. /\ S!Init /\ op = [c \in CycIds |-> NoCall] /\ pause = FALSE /\ server = "down" /\ tokens = 0
      /\ wk = [w \in Workers |-> Off] /\ marks = {} /\ task = [c \in CycIds |-> "none"]
      /\ doomed = {} /\ reg = 0 /\ claim = 0 /\ waiter = 0 /\ stops = 0
  BY DEF Init
<1>2. Stored!CycleInv
  BY <1>1, SameInit, Stored!CycleInvInit, StoreConstants
<1>3. TypeOK
  <2>1. S!TypeOK
    BY <1>2, SameTypes DEF Stored!CycleInv
  <2>2. ProcessTypes
    <3>1. 0 \in Nat /\ 0 \in 0..MaxStops
      BY EventsAreKnown
    <3>2. server \in Phases /\ \A c \in CycIds : "none" \in TaskStatus
      BY <1>1 DEF Phases, TaskStatus
    <3> QED BY <1>1, <3>1, <3>2, NewRows DEF ProcessTypes
  <2> QED BY <2>1, <2>2, TypeParts
<1>4. \A c \in CycIds : /\ cyc[c].status = "absent" /\ cyc[c].request = 0 /\ op[c].st = "none"
                        /\ task[c] = "none" /\ ~Dispatching(c)
  BY <1>1 DEF S!Init, S!AbsentCyc, NoCall, Dispatching, CycIds
<1>5. RowsFit /\ RunFits
  <2>1. S!OneDispatching
    BY <1>1 DEF S!Init, S!AbsentReq, S!OneDispatching
  <2>2. run # "running"
    BY <1>1 DEF S!Init
  <2> QED BY <1>4, <2>1, <2>2 DEF RowsFit, RunFits
<1>6. ServerFits /\ StoppedFits /\ server \in AtRest /\ server \notin AfterCancel \cup {"up", "halting"}
  BY <1>1 DEF ServerFits, StoppedFits, AtRest, Unrepaired, AfterCancel
<1>7. \A w \in Workers : wk[w].pc = "off" /\ wk[w].news = "none"
  BY <1>1 DEF Off, WorkerAt
<1>8. BetweenFits /\ \A w \in Workers : WorkerFits(w)
  BY <1>1, <1>6, <1>7 DEF BetweenFits, WorkerFits, SectionFits, AwaitFits, Section
<1>9. RegistryFits /\ MarksFit /\ RestFits /\ DoomedFits /\ ClaimFits /\ RegisteredFits
  BY <1>1, <1>3, <1>4, Fields
    DEF RegistryFits, MarksFit, RestFits, DoomedFits, CancelIsDue, ClaimFits, RegisteredFits
<1>10. \A c \in CycIds : OpFits(c)
  BY <1>4 DEF OpFits
<1> QED BY <1>2, <1>3, <1>5, <1>6, <1>8, <1>9, <1>10 DEF DispatcherInv

LEMMA DispatcherInvStep == DispatcherInv /\ Ordinary /\ [Next]_vars => DispatcherInv'
<1> SUFFICES ASSUME DispatcherInv, Ordinary, [Next]_vars PROVE DispatcherInv'
  OBVIOUS
<1>1. TypeOK' /\ Stored!CycleInv'
  BY NextTypes, NextTables
<1>2. ASSUME UNCHANGED vars PROVE DispatcherInv'
  <2>1. /\ UNCHANGED <<run, req, cyc, ser, op, tokens, server, wk, marks, task, doomed, reg, claim, waiter>>
    BY <1>2 DEF vars, store, ledger, consumers, tasks
  <2>2. QuietStep
    BY <2>1, NothingIsQuiet DEF DispatcherInv
  <2>3. StoppedFits'
    BY <2>1 DEF DispatcherInv, StoppedFits, HasActiveWork
  <2> QED BY <1>1, <2>1, <2>2, <2>3, QuietKeeps
<1>3. ASSUME Next PROVE DispatcherInv'
  BY <1>1, <1>3, WorkerKeeps, TaskKeeps, MarkerKeeps, HandlerKeeps, StopKeeps, StartsKeep DEF Next
<1> QED BY <1>2, <1>3

LEMMA Invariance == Ordinary => (Spec => []DispatcherInv)
<1> SUFFICES ASSUME Ordinary PROVE Spec => []DispatcherInv
  OBVIOUS
<1>1. Init => DispatcherInv
  BY DispatcherInvInit
<1>2. DispatcherInv /\ [Next]_vars => DispatcherInv'
  BY DispatcherInvStep
<1> QED BY <1>1, <1>2, PTL DEF Spec

-----------------------------------------------------------------------------
(* Types, under all events: set_cycle_status and set_run_status check      *)
(* nothing, but what they write is a status.                               *)

FreeStep ==
  \/ StoreStep
  \/ \E c \in CycIds, cs \in S!CycleStatus, rs \in S!RunStatus : S!SetCycleAndRun(c, cs, rs)
  \/ \E rs \in S!RunStatus : S!SetRun(rs)
  \/ \E c \in CycIds : S!DeferDecision(c)

LEMMA FreeStepTypes == S!TypeOK /\ FreeStep => S!TypeOK'
<1> SUFFICES ASSUME S!TypeOK, FreeStep PROVE S!TypeOK'
  OBVIOUS
<1>1. CASE StoreStep
  BY <1>1, StoreTypeStep DEF StoreStep
<1>2. ASSUME NEW c \in CycIds, NEW cs \in S!CycleStatus, NEW rs \in S!RunStatus, S!SetCycleAndRun(c, cs, rs)
      PROVE  S!TypeOK'
  BY <1>2 DEF S!SetCycleAndRun, S!TypeOK, S!CycRow, CycIds
<1>3. ASSUME NEW rs \in S!RunStatus, S!SetRun(rs) PROVE S!TypeOK'
  BY <1>3 DEF S!SetRun, S!TypeOK
<1>4. ASSUME NEW c \in CycIds, S!DeferDecision(c) PROVE S!TypeOK'
  BY <1>4 DEF S!DeferDecision, S!TypeOK, S!DecisionStatus, CycIds
<1> QED BY <1>1, <1>2, <1>3, <1>4 DEF FreeStep

\* the writes the process makes
LEMMA FreeWrites ==
  ASSUME TypeOK, NEW c \in CycIds
  PROVE  /\ \A cs \in {"queued", "running", "interrupted", "failed"} : S!SetCycle(c, cs) => FreeStep
         /\ \A st \in {"running", "interrupted", "paused", "waiting_for_provider"} \cup S!TerminalCycle :
              S!SetCycleAndRun(c, st, st) => FreeStep
         /\ \A st \in {"paused"} \cup S!TerminalCycle : S!SetRun(st) => FreeStep
<1>1. run \in S!RunStatus
  BY DEF TypeOK, S!TypeOK
<1>2. {"queued", "running", "interrupted", "failed"} \subseteq S!CycleStatus
  BY DEF S!CycleStatus, S!TerminalCycle
<1>3. {"running", "interrupted", "paused", "waiting_for_provider"} \cup S!TerminalCycle
        \subseteq S!CycleStatus \cap S!RunStatus
  BY DEF S!CycleStatus, S!RunStatus, S!TerminalCycle
<1> QED BY <1>1, <1>2, <1>3 DEF S!SetCycle, FreeStep

\* a worker past its claim holds a cycle
WorkersHold ==
  \A w \in Workers : wk[w].pc \in {"created", "awaiting", "settling"} => wk[w].cycle # 0

LEMMA FreeWorker ==
  ASSUME TypeOK, WorkersHold, NEW w \in Workers, Worker(w)
  PROVE  FreeStep
<1>0. wk[w].pc \in {"created", "awaiting", "settling"} => wk[w].cycle \in CycIds
  BY DEF WorkersHold, TypeOK
<1>1. CASE Take(w) \/ Create(w) \/ CreateFails(w)
  BY <1>1, RequestSteps DEF Take, Create, CreateFails, FreeStep, StoreStep
<1>2. CASE FreezeFails(w)
  BY <1>0, <1>2, FreeWrites DEF FreezeFails
<1>3. CASE Launch(w) \/ WakeDone(w)
  BY <1>3 DEF Launch, WakeDone, FreeStep, StoreStep
<1>4. CASE WakeError(w) \/ WakeInterrupted(w)
  <2>1. wk[w].cycle \in CycIds
    BY <1>0, <1>4 DEF WakeError, WakeInterrupted, Wakes
  <2>2. CASE UNCHANGED store
    BY <2>2 DEF FreeStep, StoreStep
  <2>3. CASE S!SetCycle(wk[w].cycle, "failed") \/ S!SetCycle(wk[w].cycle, "interrupted")
    BY <2>1, <2>3, FreeWrites
  <2> QED BY <1>4, <2>2, <2>3 DEF WakeError, WakeInterrupted
<1>5. CASE WorkerSettles(w)
  BY <1>0, <1>5, SettlementRefines DEF WorkerSettles, FreeStep
<1> QED BY <1>1, <1>2, <1>3, <1>4, <1>5 DEF Worker

LEMMA FreeTask ==
  ASSUME TypeOK, NEW c \in CycIds, Task(c) \/ MarkerInterrupts(c)
  PROVE  FreeStep
<1>1. CASE StartPlan(c) \/ BackOff(c) \/ TryAgain(c) \/ PlanFails(c) \/ ResumeRefused(c)
  BY <1>1 DEF StartPlan, BackOff, TryAgain, PlanFails, ResumeRefused, FreeStep, StoreStep
<1>2. CASE ReplayPlan(c) \/ PlanDone(c) \/ StartResume(c)
  BY <1>2, FreeWrites DEF ReplayPlan, PlanDone, StartResume, Works
<1>3. CASE ProviderWaits(c) \/ ProviderAmbiguous(c) \/ WorkPauses(c)
  BY <1>3, FreeWrites DEF ProviderWaits, ProviderAmbiguous, WorkPauses
<1>4. CASE WorkDefers(c)
  BY <1>4 DEF WorkDefers, FreeStep
<1>5. CASE WorkAsks(c)
  BY <1>5, CycleSteps DEF WorkAsks, FreeStep, StoreStep
<1>6. CASE WorkEnds(c) \/ WorkFails(c)
  BY <1>6, FreeWrites DEF WorkEnds, WorkFails, S!TerminalCycle
<1>7. CASE TaskSettles(c)
  BY <1>7, SettlementRefines DEF TaskSettles, FreeStep, StoreStep
<1>8. CASE CancelDelivered(c)
  BY <1>8, FreeWrites DEF CancelDelivered, S!TerminalCycle, FreeStep, StoreStep
<1>9. CASE MarkerInterrupts(c)
  BY <1>9, FreeWrites, SettlementRefines DEF MarkerInterrupts, FreeStep
<1> QED BY <1>1, <1>2, <1>3, <1>4, <1>5, <1>6, <1>7, <1>8, <1>9 DEF Task

LEMMA FreeHandlers ==
  ASSUME TypeOK, Tick \/ Handlers
  PROVE  FreeStep
<1>1. CASE Tick
  BY <1>1, TickRefines DEF FreeStep
<1>2. CASE Enqueue \/ Continue
  BY <1>2, RequestSteps DEF Enqueue, TriggerCycle, RetryAutoCycle, RestartAutoSeries, Continue, FreeStep, StoreStep
<1>3. CASE Answer
  BY <1>3, CycleSteps DEF Answer, FreeStep, StoreStep
<1>4. CASE Resume
  <2>1. CASE ResumePlain
    BY <2>1 DEF ResumePlain, FreeStep, StoreStep
  <2>2. CASE ResumeAmbiguous
    <3>1. PICK c \in CycIds : S!RecoverProvider(c, IF op[c].planning THEN "add_work" ELSE "later")
      BY <2>2 DEF ResumeAmbiguous
    <3> QED BY <3>1, CycleSteps DEF FreeStep, StoreStep
  <2> QED BY <1>4, <2>1, <2>2 DEF Resume
<1>5. CASE Pause \/ Cancel \/ CancelReturns
  BY <1>5, RunSteps DEF Pause, Cancel, CancelReturns, CancelNow, CancelWithCalls, FreeStep, StoreStep
<1>6. CASE Reopen
  BY <1>6 DEF Reopen, S!Next, S!Runs, FreeStep, StoreStep
<1>7. CASE RetryTask
  BY <1>7 DEF RetryTask, S!Next, S!Cycles, CycIds, FreeStep, StoreStep
<1>8. ASSUME NEW c \in CycIds, RetryFreezes(c) PROVE FreeStep
  BY <1>8, FreeWrites DEF RetryFreezes, FreeStep, StoreStep
<1> QED BY <1>1, <1>2, <1>3, <1>4, <1>5, <1>6, <1>7, <1>8 DEF Handlers

LEMMA FreeStops ==
  ASSUME TypeOK, Stops \/ Emergency
  PROVE  FreeStep
<1>1. CASE Crash
  <2>1. ASSUME NEW c \in CycIds, CutShort(c) PROVE FreeStep
    BY <2>1, FreeWrites DEF CutShort, S!TerminalCycle, FreeStep, StoreStep
  <2> QED BY <1>1, <2>1 DEF Crash, FreeStep, StoreStep, store
<1>2. CASE Shutdown \/ CancelRegistered \/ EmergencyStop
  BY <1>2 DEF Shutdown, CancelRegistered, EmergencyStop, StopWorkers, FreeStep, StoreStep
<1>3. CASE Exit \/ CancelActive \/ StopAnswers
  BY <1>3, RunSteps DEF Exit, CancelActive, StopAnswers, CancelWithCalls, FreeStep, StoreStep, store
<1>4. CASE CancelTasks \/ ResumeIntake
  BY <1>4 DEF CancelTasks, ResumeIntake, FreeStep, StoreStep
<1> QED BY <1>1, <1>2, <1>3, <1>4 DEF Stops, Emergency

LEMMA FreeStarts ==
  ASSUME TypeOK, Starts
  PROVE  FreeStep
<1>1. CASE Boot \/ OpsReconciled \/ Serve
  BY <1>1 DEF Boot, OpsReconciled, Serve, FreeStep, StoreStep
<1>2. CASE InterruptActive \/ ReconcileDecisions
  <2>1. Resumable \in SUBSET CycIds
    BY DEF Resumable
  <2> QED BY <1>2, <2>1, RunSteps DEF InterruptActive, ReconcileDecisions, FreeStep, StoreStep
<1>3. ASSUME NEW c \in CycIds, ReconcileOp(c) PROVE FreeStep
  BY <1>3, FreeWrites DEF ReconcileOp, FreeStep, StoreStep
<1>4. CASE InterruptCycles
  BY <1>4, FreeWrites DEF InterruptCycles, FreeStep, StoreStep
<1>5. CASE ReconcileRequests \/ BootEnqueues
  BY <1>5, RequestSteps, CycleSteps DEF ReconcileRequests, BootEnqueues, EnqueueDue, FreeStep, StoreStep
<1> QED BY <1>1, <1>2, <1>3, <1>4, <1>5 DEF Starts

\* Only the claimed worker's creation gives a worker its cycle.
LEMMA WorkersHoldStep ==
  ASSUME TypeOK, WorkersHold, [Next]_vars
  PROVE  WorkersHold'
<1>t. wk \in [Workers -> [pc: WorkerPc, cycle: CycIds \cup {0}, news: News]]
  BY DEF TypeOK
<1>0. WorkersHold /\ UNCHANGED wk => WorkersHold'
  BY DEF WorkersHold
<1>1. ASSUME NEW w \in Workers, Worker(w) PROVE WorkersHold'
  <2>1. \A v \in Workers \ {w} : wk'[v] = wk[v]
    BY <1>1, <1>t DEF Worker, Take, Create, CreateFails, FreezeFails, Launch, WakeDone, WakeError, WakeInterrupted,
         WorkerSettles, WorkerMoves, ToSettle, consumers
  <2>2. wk'[w].pc \in {"created", "awaiting", "settling"} => wk'[w].cycle # 0
    <3>1. CASE Take(w) \/ CreateFails(w) \/ WakeDone(w) \/ WorkerSettles(w)
      BY <1>t, <3>1 DEF Take, CreateFails, WakeDone, WorkerSettles, WorkerMoves, consumers, WorkerAt, IdleWorker, Off,
           AfterRun
    <3>2. CASE Create(w)
      BY <1>t, <3>2 DEF Create, WorkerMoves, WorkerAt, CycIds, S!CycIds
    <3>3. CASE FreezeFails(w) \/ Launch(w) \/ WakeError(w) \/ WakeInterrupted(w)
      <4>1. wk[w].cycle # 0
        BY <3>3 DEF FreezeFails, Launch, WakeError, WakeInterrupted, Wakes, WorkersHold
      <4>2. wk'[w] = AfterRun \/ wk'[w].cycle = wk[w].cycle
        BY <1>t, <3>3 DEF FreezeFails, Launch, WakeError, WakeInterrupted, WorkerMoves, ToSettle
      <4> QED BY <4>1, <4>2 DEF AfterRun, IdleWorker, Off, WorkerAt
    <3> QED BY <1>1, <3>1, <3>2, <3>3 DEF Worker
  <2> QED BY <2>1, <2>2 DEF WorkersHold
<1>2. ASSUME NEW c \in CycIds, Task(c) \/ MarkerInterrupts(c) PROVE WorkersHold'
  <2>1. UNCHANGED wk \/ \E news : Deliver(c, news)
    BY <1>2 DEF Task, StartPlan, ReplayPlan, PlanDone, PlanFails, StartResume, ResumeRefused, BackOff, TryAgain,
         ProviderWaits, ProviderAmbiguous, WorkDefers, WorkAsks, WorkPauses, WorkEnds, WorkFails, TaskSettles,
         CancelDelivered, Works, TaskEnds, consumers, MarkerInterrupts
  <2>2. ASSUME NEW news, Deliver(c, news) PROVE WorkersHold'
    BY <1>t, <2>2 DEF Deliver, WorkersHold
  <2> QED BY <1>0, <2>1, <2>2
<1>3. CASE Tick \/ Handlers
  BY <1>0, <1>3 DEF Tick, RecoverDue, ResumeClaim, TickEnqueues, Handlers, Enqueue, Continue, Answer, Resume, Pause,
       Cancel, CancelReturns, Reopen, RetryTask, RetryFreezes, consumers
<1>4. CASE Stops \/ Emergency
  <2>1. CASE UNCHANGED wk
    BY <1>0, <2>1
  <2>2. CASE wk' = [w \in Workers |-> Stopped(w)] \/ wk' = [w \in Workers |-> Off]
             \/ wk' = [w \in Workers |-> IdleWorker]
    BY <2>2 DEF Stopped, Off, IdleWorker, WorkerAt, WorkersHold
  <2> QED BY <1>4, <2>1, <2>2 DEF Stops, Crash, Shutdown, CancelRegistered, Exit, ProcessEnds, Emergency,
       EmergencyStop, StopWorkers, CancelActive, CancelTasks, StopAnswers, ResumeIntake, consumers
<1>5. CASE Starts
  <2>1. CASE Serve
    BY <2>1 DEF Serve, IdleWorker, WorkerAt, WorkersHold
  <2> QED BY <1>0, <1>5, <2>1 DEF Starts, Boot, InterruptActive, ReconcileOp, OpsReconciled, ReconcileDecisions,
       InterruptCycles, ReconcileRequests, BootEnqueues, Phase, consumers
<1>6. CASE UNCHANGED vars
  BY <1>0, <1>6 DEF vars, consumers
<1> QED BY <1>1, <1>2, <1>3, <1>4, <1>5, <1>6 DEF Next

\* Whatever events there are, and whatever order workers, tasks, handlers, stops and
\* restarts come in, every variable keeps its type (team_cycle_dispatcher.py,
\* team_run_orchestrator.py, run_state.py).
THEOREM TypeCorrectness == Spec => []TypeOK
<1>1. Init => TypeOK /\ WorkersHold
  BY DispatcherInvInit DEF DispatcherInv, Init, WorkersHold, Off, WorkerAt
<1>2. TypeOK /\ WorkersHold /\ [Next]_vars => TypeOK' /\ WorkersHold'
  <2> SUFFICES ASSUME TypeOK, WorkersHold, [Next]_vars PROVE TypeOK' /\ WorkersHold'
    OBVIOUS
  <2>1. S!TypeOK /\ ProcessTypes
    BY TypeParts
  <2>2. FreeStep
    <3>1. UNCHANGED vars => FreeStep
      BY DEF vars, FreeStep, StoreStep
    <3> QED BY <3>1, FreeWorker, FreeTask, FreeHandlers, FreeStops, FreeStarts DEF Next
  <2>3. ProcessTypes'
    <3>1. UNCHANGED vars => ProcessTypes'
      BY <2>1 DEF vars, ProcessTypes, ledger, tasks, consumers
    <3> QED BY <2>1, <3>1, WorkerTypes, TaskTypes, HandlerTypes, StopTypes, StartTypes DEF Next
  <2> QED BY <2>1, <2>2, <2>3, FreeStepTypes, WorkersHoldStep DEF TypeOK, ProcessTypes
<1> QED BY <1>1, <1>2, PTL DEF Spec

-----------------------------------------------------------------------------
(* What follows from the invariant.                                        *)

\* At most one cycle of a run is executed at a time, and it is the one whose task the
\* registry holds, so that POST /cancel and POST /pause reach it (TeamRunRegistry.start,
\* finish; the dispatcher claims, the orchestrator schedules, the tick recovers).
THEOREM WhatRunsIsKnown == Ordinary => (Spec => []ExecutionIsKnown)
<1>1. DispatcherInv => ExecutionIsKnown
  BY DEF DispatcherInv, RegistryFits, ExecutionIsKnown, OneExecution, Executing, RegistryIsExact
<1> QED BY <1>1, Invariance, PTL

\* After POST /emergency-stop has answered and until the intake opens nothing of the run
\* is executed, claimed or queued, and no wakeup is left (EmergencyStopService.stop).
THEOREM EmergencyStopIsComplete == Ordinary => (Spec => []EmergencyStopHolds)
<1>1. ASSUME DispatcherInv, server = "halted"
      PROVE  /\ tokens = 0 /\ ~HasActiveWork /\ run # "running"
             /\ \A c \in CycIds : task[c] = "none" /\ op[c].st # "invoking"
  <2>1. reg = 0
    BY <1>1 DEF DispatcherInv, RegisteredFits
  <2>2. \A c \in CycIds : task[c] = "none"
    BY <1>1, <2>1, Fields DEF DispatcherInv, RegistryFits
  <2> QED BY <1>1, <2>2 DEF DispatcherInv, StoppedFits, AfterCancel
<1>2. DispatcherInv => EmergencyStopHolds
  BY <1>1 DEF EmergencyStopHolds
<1> QED BY <1>2, Invariance, PTL

\* The process uses the tables as CycleStore promises: each transaction of a worker, a task,
\* a handler, a stop or a restart is a step of the store's, set_cycle_status and
\* set_run_status, which check nothing, included.
THEOREM StoreRefinement == Ordinary => (Spec => Implements)
<1> SUFFICES ASSUME Ordinary PROVE Spec => S!Spec
  BY DEF Implements
<1>1. Init => S!Init
  BY DEF Init
<1>2. DispatcherInv /\ [Next]_vars => [S!Next]_(S!store)
  BY NextRefines DEF StoreStep, store, S!store
<1>3. Spec => []DispatcherInv
  BY Invariance
<1> QED BY <1>1, <1>2, <1>3, PTL DEF S!Spec, Spec

-----------------------------------------------------------------------------
(* No wakeup is lost.                                                      *)

LEMMA SettlementRuns == \A c \in CycIds : OnSettled(c) => run' = run /\ cyc' = cyc /\ dec' = dec
BY DEF OnSettled, store, S!SettleCycle, S!PauseSeries

\* What a worker does leaves the run alone.
LEMMA WorkerRuns ==
  ASSUME NEW w \in Workers, Worker(w), TypeOK
  PROVE  run' = run /\ server' = server
<1>1. CASE Take(w) \/ Create(w) \/ CreateFails(w)
  BY <1>1 DEF Take, Create, CreateFails, store, S!ClaimNext, S!CreateCycle, S!RequeueClaim
<1>2. CASE FreezeFails(w) \/ Launch(w)
  BY <1>2 DEF FreezeFails, Launch, store, S!SetCycle, S!SetCycleAndRun
<1>3. CASE WakeDone(w) \/ WakeError(w) \/ WakeInterrupted(w)
  BY <1>3 DEF WakeDone, WakeError, WakeInterrupted, Wakes, store, S!SetCycle, S!SetCycleAndRun
<1>4. CASE WorkerSettles(w)
  BY <1>4 DEF WorkerSettles, OnSettled, store, S!SettleCycle, S!PauseSeries
<1> QED BY <1>1, <1>2, <1>3, <1>4 DEF Worker

\* Whoever runs a task has a run that is not canceled.
LEMMA TasksLeaveCanceled ==
  ASSUME DispatcherInv, Ordinary, NEW c \in CycIds, Task(c)
  PROVE  run = "canceled" => run' = "canceled"
<1>1. ASSUME NEW statuses \in SUBSET (TaskStatus \ {"none"}), Runs(c, statuses)
      PROVE  run # "canceled"
  BY <1>1, RunsFits DEF TaskFits
<1>2. CASE TaskSettles(c)
  BY <1>2 DEF TaskSettles, OnSettled, store, S!SettleCycle, S!PauseSeries
<1>3. CASE CancelDelivered(c)
  BY <1>3 DEF CancelDelivered, store, S!SetCycleAndRun
<1>4. CASE ~TaskSettles(c) /\ ~CancelDelivered(c)
  <2>1. \E statuses \in SUBSET (TaskStatus \ {"none"}) : Runs(c, statuses)
    BY <1>4 DEF Task, TaskStatus, StartPlan, ReplayPlan, PlanDone, PlanFails, StartResume, ResumeRefused,
         BackOff, TryAgain, ProviderWaits, ProviderAmbiguous, WorkDefers, WorkAsks, WorkPauses, WorkEnds,
         WorkFails
  <2> QED BY <2>1, <1>1
<1> QED BY <1>2, <1>3, <1>4

LEMMA StartsLeaveCanceled ==
  ASSUME Starts
  PROVE  run = "canceled" => run' = "canceled"
<1>1. CASE Boot \/ OpsReconciled \/ Serve
  BY <1>1 DEF Boot, OpsReconciled, Serve, store
<1>2. CASE InterruptActive
  BY <1>2 DEF InterruptActive, store
<1>3. ASSUME NEW c \in CycIds, ReconcileOp(c) PROVE run = "canceled" => run' = "canceled"
  BY <1>3 DEF ReconcileOp, SourceCanceled, store
<1>4. CASE ReconcileDecisions
  BY <1>4 DEF ReconcileDecisions, S!ReconcileLifecycle, S!TerminalRun, store
<1>5. CASE InterruptCycles
  BY <1>5 DEF InterruptCycles, S!SetCycle, S!SetCycleAndRun, store
<1>6. CASE ReconcileRequests
  BY <1>6 DEF ReconcileRequests, S!RequeueClaim, S!SettleCycle, S!PauseSeries, store
<1>7. CASE BootEnqueues
  BY <1>7 DEF BootEnqueues, EnqueueDue, S!EnqueueDue, S!EndDueSeries, store
<1> QED BY <1>1, <1>2, <1>3, <1>4, <1>5, <1>6, <1>7 DEF Starts

LEMMA HandlersLeaveCanceled ==
  ASSUME DispatcherInv, Ordinary, Handlers \/ Tick \/ Emergency
  PROVE  run = "canceled" => run' = "canceled"
<1>1. CASE Enqueue
  BY <1>1 DEF Enqueue, TriggerCycle, RetryAutoCycle, RestartAutoSeries, S!EnqueueTriggered,
    S!CreateAutoSeries, S!RetryFailed, S!RestartSeries, S!StartSeries
<1>2. CASE Continue \/ TickEnqueues
  BY <1>2 DEF Continue, S!ContinueFailed, TickEnqueues, EnqueueDue, S!EnqueueDue, S!EndDueSeries
<1>3. CASE Answer \/ Resume \/ Pause
  BY <1>3 DEF Answer, S!AnswerDecision, Resume, Pause, store, S!SetRun
<1>4. CASE Cancel \/ CancelReturns \/ CancelActive \/ StopAnswers
  BY <1>4 DEF Cancel, CancelReturns, CancelNow, CancelActive, StopAnswers, CancelWithCalls, store, S!CancelRun
<1>5. CASE RecoverDue \/ ResumeClaim
  BY <1>5 DEF RecoverDue, S!RecoverProvider, ResumeClaim, store
<1>6. CASE EmergencyStop \/ CancelTasks \/ ResumeIntake
  BY <1>6 DEF EmergencyStop, StopWorkers, CancelTasks, ResumeIntake, store
<1>7. ~Reopen /\ ~RetryTask /\ \A c \in CycIds : ~RetryFreezes(c)
  BY WhatMayHappen DEF Reopen, RetryTask, RetryFreezes, DispatcherInv, RegistryFits
<1> QED BY <1>1, <1>2, <1>3, <1>4, <1>5, <1>6, <1>7 DEF Handlers, Tick, Emergency

LEMMA StopsLeaveCanceled ==
  ASSUME DispatcherInv, Ordinary, Stops
  PROVE  run = "canceled" => run' = "canceled"
<1>1. ASSUME NEW c \in CycIds, CutShort(c) PROVE run = "canceled" => run' = "canceled"
  <2>1. task[c] = "working" /\ op[c].st # "none" => run # "canceled"
    <3>1. task[c] = "working" => reg = c /\ c # 0
      BY DEF DispatcherInv, RegistryFits, CycIds, S!CycIds
    <3>2. task[c] = "working" /\ server \notin {"canceled", "gathering"} => run # "canceled"
      BY <3>1 DEF DispatcherInv, RegisteredFits, TaskFits
    <3>3. server \in {"canceled", "gathering"} => op[c].st = "none"
      BY DEF DispatcherInv, StoppedFits, AfterCancel
    <3> QED BY <3>2, <3>3
  <2> QED BY <1>1, <2>1 DEF CutShort, store, S!SetCycle, S!SetCycleAndRun, S!SetRun
<1>2. CASE Crash
  BY <1>1, <1>2 DEF Crash, store
<1>3. ~Shutdown /\ ~CancelRegistered /\ ~Exit
  BY WhatMayHappen DEF Shutdown, CancelRegistered, Exit, DispatcherInv, ServerFits, AtRest, Unrepaired,
    Repaired, AfterCancel
<1> QED BY <1>2, <1>3 DEF Stops

\* A canceled run stays canceled, as long as nobody reopens it.
LEMMA CanceledStays ==
  DispatcherInv /\ Ordinary /\ [Next]_vars => (run = "canceled" => run' = "canceled")
<1>1. UNCHANGED vars => run' = run
  BY DEF vars, store
<1>2. ASSUME NEW c \in CycIds, MarkerInterrupts(c) PROVE run' = run
  BY <1>2, SettlementRuns DEF MarkerInterrupts, S!SetCycle, S!SetCycleAndRun
<1>3. DispatcherInv => TypeOK
  BY DEF DispatcherInv
<1> QED BY <1>1, <1>2, <1>3, WorkerRuns, TasksLeaveCanceled, StartsLeaveCanceled, HandlersLeaveCanceled,
           StopsLeaveCanceled DEF Next

\* as long as a request can be claimed, a token is in the queue
WakeFits == server = "up" /\ run # "canceled" /\ S!QueueReady(req) => tokens > 0

LEMMA Least == \A T \in SUBSET Nat : T # {} => \E m \in T : \A x \in T : m <= x
<1> SUFFICES ASSUME NEW T \in SUBSET Nat, T # {} PROVE \E m \in T : \A x \in T : m <= x
  OBVIOUS
<1> DEFINE less == {ss \in Nat \X Nat : ss[1] < ss[2]}
<1>1. IsWellFoundedOn(less, Nat)
  BY NatLessThanWellFounded DEF OpToRel
<1>2. PICK m \in T : \A y \in T : ~(<<y, m>> \in less)
  <2> HIDE DEF less
  <2> QED BY <1>1, WFMin
<1>3. \A y \in T : ~(y < m)
  BY <1>2
<1> QED BY <1>3

LEMMA Greatest ==
  ASSUME NEW N \in Nat, NEW T \in SUBSET Nat, T # {}, \A x \in T : x <= N
  PROVE  \E m \in T : \A x \in T : x <= m
<1> DEFINE rests == {n \in Nat : \E x \in T : n = N - x}
<1>1. rests \in SUBSET Nat /\ \A x \in T : N - x \in rests
  OBVIOUS
<1>2. PICK r \in rests : \A y \in rests : r <= y
  <2> HIDE DEF rests
  <2> QED BY <1>1, Least
<1>3. PICK m \in T : r = N - m
  OBVIOUS
<1>4. ASSUME NEW x \in T PROVE x <= m
  <2>1. N - m <= N - x
    BY <1>1, <1>2, <1>3
  <2> QED BY <2>1
<1> QED BY <1>4

\* The oldest of the queued requests.
LEMMA OldestExists ==
  (\E r \in S!ReqIds : req[r].status = "queued") => \E r \in S!ReqIds : S!OldestQueued(r)
<1> SUFFICES ASSUME \E r \in S!ReqIds : req[r].status = "queued"
             PROVE  \E r \in S!ReqIds : S!OldestQueued(r)
  OBVIOUS
<1> DEFINE Q == {r \in S!ReqIds : req[r].status = "queued"}
<1>1. Q \in SUBSET Nat /\ Q # {}
  BY DEF S!ReqIds
<1>2. PICK m \in Q : \A x \in Q : m <= x
  BY <1>1, Least
<1>3. \A q \in S!ReqIds : q < m => q \notin Q
  BY <1>1, <1>2 DEF S!ReqIds
<1> QED BY <1>2, <1>3 DEF S!OldestQueued

\* What leaves requests and tokens alone wakes nobody and need not.
LEMMA NothingToWake ==
  ASSUME WakeFits, UNCHANGED <<server, req, tokens>>, run = "canceled" => run' = "canceled"
  PROVE  WakeFits'
BY DEF WakeFits, S!QueueReady

LEMMA SettlementWakes ==
  ASSUME WakeFits, TypeOK, NEW c \in CycIds, OnSettled(c), UNCHANGED server
  PROVE  WakeFits'
<1>1. tokens \in Nat /\ run' = run
  BY SettlementRuns DEF TypeOK
<1>2. CASE UNCHANGED <<store, tokens>>
  BY <1>1, <1>2, NothingToWake DEF store
<1>3. CASE tokens' = TokensAfterSettlement
  BY <1>1, <1>3 DEF WakeFits, TokensAfterSettlement
<1> QED BY <1>2, <1>3 DEF OnSettled

LEMMA WorkerWakes ==
  ASSUME DispatcherInv, Ordinary, "create_fails" \notin Events, WakeFits, NEW w \in Workers, Worker(w)
  PROVE  WakeFits'
<1>t. TypeOK /\ tokens \in Nat /\ run' = run /\ server' = server
  BY WorkerRuns DEF DispatcherInv, TypeOK
<1>1. CASE Take(w)
  <2>1. CASE \E r \in S!ReqIds : S!ClaimNext(r)
    <3>1. PICK r \in S!ReqIds : S!ClaimNext(r)
      BY <2>1
    <3>2. req'[r].status = "dispatching"
      BY <3>1, <1>t DEF S!ClaimNext, TypeOK, S!TypeOK
    <3> QED BY <3>2 DEF WakeFits, S!QueueReady
  <2>2. CASE run = "canceled" \/ ~S!NoneDispatching \/ ~\E r \in S!ReqIds : S!OldestQueued(r)
    <3>1. req' = req
      BY <1>1, <2>2 DEF Take, store
    <3>2. ~S!QueueReady(req) \/ run = "canceled"
      BY <2>2, OldestExists DEF S!QueueReady, S!NoneDispatching
    <3> QED BY <3>1, <3>2, <1>t DEF WakeFits
  <2> QED BY <1>1, <2>1, <2>2 DEF Take
<1>2. CASE Create(w) \/ FreezeFails(w) \/ Launch(w) \/ WakeDone(w) \/ WakeError(w) \/ WakeInterrupted(w)
  <2>1. UNCHANGED <<req, tokens>>
    BY <1>2 DEF Create, FreezeFails, Launch, WakeDone, WakeError, WakeInterrupted, Wakes, store,
                S!SetCycle, S!SetCycleAndRun, S!CreateCycle
  <2> QED BY <2>1, <1>t, NothingToWake
<1>3. ~CreateFails(w)
  BY DEF CreateFails, May
<1>4. CASE WorkerSettles(w)
  <2>1. wk[w].cycle \in CycIds
    BY <1>4, <1>t, Fields DEF WorkerSettles, DispatcherInv, WorkerFits, SectionFits
  <2> QED BY <1>4, <2>1, <1>t, SettlementWakes DEF WorkerSettles
<1> QED BY <1>1, <1>2, <1>3, <1>4 DEF Worker

LEMMA TaskWakes ==
  ASSUME DispatcherInv, Ordinary, WakeFits, NEW c \in CycIds, Task(c) \/ MarkerInterrupts(c)
  PROVE  WakeFits'
<1>t. TypeOK
  BY DEF DispatcherInv
<1>1. CASE TaskSettles(c)
  <2>1. server' = server
    BY <1>1 DEF TaskSettles
  <2>2. CASE UNCHANGED <<store, tokens>>
    BY <2>1, <2>2, NothingToWake DEF store
  <2>3. CASE OnSettled(c)
    BY <2>1, <2>3, <1>t, SettlementWakes
  <2> QED BY <1>1, <2>2, <2>3 DEF TaskSettles
<1>2. CASE MarkerInterrupts(c)
  <2>1. CASE OnSettled(c)
    BY <1>2, <2>1, <1>t, SettlementWakes DEF MarkerInterrupts
  <2>2. CASE ~(Over(c) \/ Parked(c))
    BY <1>2, <2>2, NothingToWake DEF MarkerInterrupts, S!SetCycle, S!SetCycleAndRun
  <2> QED BY <1>2, <2>1, <2>2 DEF MarkerInterrupts
<1>3. CASE Task(c) /\ ~TaskSettles(c)
  <2>1. UNCHANGED <<server, req, tokens>>
    BY <1>3 DEF Task, StartPlan, ReplayPlan, PlanDone, PlanFails, StartResume, ResumeRefused,
         BackOff, TryAgain, ProviderWaits, ProviderAmbiguous, WorkDefers, WorkAsks, WorkPauses, WorkEnds,
         WorkFails, CancelDelivered, Works, Runs, store, ledger, S!SetCycleAndRun, S!DeferDecision,
         S!PublishDecision
  <2> QED BY <1>3, <2>1, NothingToWake, TasksLeaveCanceled
<1> QED BY <1>1, <1>2, <1>3

LEMMA HandlersWake ==
  ASSUME DispatcherInv, Ordinary, WakeFits, Tick \/ Handlers
  PROVE  WakeFits'
<1>t. tokens \in Nat /\ req \in [S!ReqIds -> S!ReqRow]
  BY DEF DispatcherInv, TypeOK, S!TypeOK
<1>c. run = "canceled" => run' = "canceled"
  BY HandlersLeaveCanceled
<1>1. CASE RecoverDue \/ ResumeClaim \/ Continue \/ Answer \/ Resume \/ Pause
  <2>1. UNCHANGED <<server, req, tokens>>
    BY <1>1 DEF RecoverDue, ResumeClaim, Continue, Answer, Resume, ResumePlain, ResumeAmbiguous, Pause, store,
         S!RecoverProvider, S!SetCycleAndRun, S!ContinueFailed, S!AnswerDecision, S!SetRun
  <2> QED BY <2>1, <1>c, NothingToWake
<1>2. CASE TickEnqueues
  <2>1. CASE req' = req
    BY <1>2, <2>1, <1>c, <1>t DEF TickEnqueues, WakeFits, S!QueueReady
  <2>2. CASE req' # req
    BY <1>2, <2>2, <1>t DEF TickEnqueues, WakeFits
  <2> QED BY <2>1, <2>2
<1>3. CASE Enqueue
  BY <1>3, <1>t DEF Enqueue, WakeFits
<1>4. CASE CancelNow
  <2>1. \A r \in S!ReqIds : req'[r].status # "queued"
    BY <1>4, <1>t DEF CancelNow, CancelWithCalls, S!CancelRun, S!Live, S!ReqRow
  <2> QED BY <2>1 DEF WakeFits, S!QueueReady
<1>5. CASE Cancel /\ ~CancelNow
  BY <1>5, <1>c, NothingToWake DEF Cancel, store
<1>6. ~Reopen /\ ~RetryTask /\ \A c \in CycIds : ~RetryFreezes(c)
  BY WhatMayHappen DEF Reopen, RetryTask, RetryFreezes, DispatcherInv, RegistryFits
<1> QED BY <1>1, <1>2, <1>3, <1>4, <1>5, <1>6 DEF Handlers, Tick, CancelReturns

LEMMA StopsWake ==
  ASSUME DispatcherInv, Ordinary, Stops \/ Emergency \/ Starts
  PROVE  WakeFits'
<1>1. CASE Crash
  BY <1>1 DEF Crash, ProcessEnds, WakeFits
<1>2. ~Shutdown /\ ~CancelRegistered /\ ~Exit
  BY WhatMayHappen DEF Shutdown, CancelRegistered, Exit, DispatcherInv, ServerFits, AtRest, Unrepaired,
    Repaired, AfterCancel
<1>3. CASE EmergencyStop \/ CancelActive \/ CancelTasks \/ StopAnswers
  BY <1>3 DEF EmergencyStop, CancelActive, CancelTasks, StopAnswers, WakeFits
<1>4. CASE ResumeIntake
  <2>1. ~HasActiveWork /\ req' = req
    BY <1>4 DEF ResumeIntake, DispatcherInv, StoppedFits, AfterCancel, store
  <2> QED BY <2>1 DEF HasActiveWork, S!Live, WakeFits, S!QueueReady
<1>5. CASE Serve
  BY <1>5 DEF Serve, store, WakeFits
<1>6. CASE Starts /\ ~Serve
  BY <1>6 DEF Starts, Boot, InterruptActive, ReconcileOp, OpsReconciled, ReconcileDecisions, InterruptCycles,
    ReconcileRequests, BootEnqueues, Phase, WakeFits
<1> QED BY <1>1, <1>2, <1>3, <1>4, <1>5, <1>6 DEF Stops, Emergency

\* A wakeup is never lost: whenever the loop is free and a request can be claimed, the queue
\* has a token (on_team_run_settled, trigger_cycle, enqueue_due_auto_requests, start), as
\* long as create_cycle does not fail, which gives a claim back without one.
THEOREM WakeupsAreKept ==
  Ordinary /\ "create_fails" \notin Events => (Spec => []NoLostWakeup)
<1> SUFFICES ASSUME Ordinary, "create_fails" \notin Events PROVE Spec => []NoLostWakeup
  OBVIOUS
<1>1. Init => WakeFits
  BY DEF Init, WakeFits
<1>2. DispatcherInv /\ WakeFits /\ [Next]_vars => WakeFits'
  <2>1. UNCHANGED vars /\ WakeFits => WakeFits'
    BY NothingToWake DEF vars, store
  <2> QED BY <2>1, WorkerWakes, TaskWakes, HandlersWake, StopsWake DEF Next
<1>3. WakeFits => NoLostWakeup
  BY DEF WakeFits, NoLostWakeup, Serving
<1> QED BY <1>1, <1>2, <1>3, Invariance, PTL DEF Spec

-----------------------------------------------------------------------------
(* Questions can be answered.                                              *)

\* a cycle that is not over and waits for its user
Asking(c) == dec[c] = "awaiting_user" /\ ~Over(c)

AskFits ==
  run # "canceled" =>
    \A c \in CycIds : Asking(c) =>
      /\ cyc[c].status = "waiting_for_user" /\ run \in {"waiting_for_user"} \cup S!TerminalRun
      /\ Dispatching(c)
      /\ S!SeriesOf(c) # 0 => ser[S!SeriesOf(c)].status = "paused_user"

NobodyAsks == \A c \in CycIds : ~Asking(c)

\* Only the dispatching cycle asks, and not while it works.
LEMMA AtWork ==
  ASSUME TypeOK, RowsFit, AskFits, run # "canceled", NEW c \in CycIds,
         Dispatching(c), cyc[c].status # "waiting_for_user"
  PROVE  NobodyAsks
BY OneLive DEF AskFits, NobodyAsks

\* A write of a cycle that works leaves nobody asking.
LEMMA WriteAsks ==
  ASSUME TypeOK, RowsFit, AskFits, run # "canceled", NEW c \in CycIds, ~Over(c),
         Dispatching(c), cyc[c].status # "waiting_for_user", NEW cs, NEW rs, Writes(c, cs, rs),
         dec'[c] \in {dec[c], "collecting"}, \A d \in CycIds \ {c} : dec'[d] = dec[d]
  PROVE  AskFits'
<1>1. NobodyAsks
  BY AtWork
<1>2. NobodyAsks'
  BY <1>1 DEF NobodyAsks, Asking, Writes, Over
<1> QED BY <1>2 DEF NobodyAsks, AskFits

LEMMA SetCycleAsks ==
  ASSUME TypeOK, RowsFit, AskFits, run # "canceled", NEW c \in CycIds, ~Over(c),
         Dispatching(c), cyc[c].status # "waiting_for_user",
         NEW cs, NEW rs, S!SetCycleAndRun(c, cs, rs)
  PROVE  AskFits'
<1>1. Writes(c, cs, rs) /\ dec' = dec
  BY SetCycleWrites DEF S!SetCycleAndRun
<1> QED BY <1>1, WriteAsks

\* A request that is inserted, and a series that was not paused for the user, change
\* nothing for a question.
LEMMA AsideAsks ==
  ASSUME TypeOK, AskFits, UNCHANGED <<run, cyc, dec>>,
         \A r \in S!ReqIds : req[r].status = "dispatching" =>
           req'[r].status = "dispatching" /\ req'[r].series = req[r].series,
         \A s \in S!SerIds : ser[s].status = "paused_user" => ser'[s].status = "paused_user"
  PROVE  AskFits'
<1> SUFFICES ASSUME run # "canceled", NEW c \in CycIds, Asking(c)
             PROVE  /\ cyc[c].status = "waiting_for_user" /\ run \in {"waiting_for_user"} \cup S!TerminalRun
                    /\ Dispatching(c)'
                    /\ S!SeriesOf(c)' # 0 => ser'[S!SeriesOf(c)'].status = "paused_user"
  BY DEF AskFits, Asking, Over
<1>1. /\ cyc[c].status = "waiting_for_user" /\ run \in {"waiting_for_user"} \cup S!TerminalRun
      /\ Dispatching(c) /\ (S!SeriesOf(c) # 0 => ser[S!SeriesOf(c)].status = "paused_user")
  BY DEF AskFits
<1>2. cyc[c].request \in S!ReqIds /\ cyc[c].request # 0
  BY <1>1, Fields DEF Dispatching
<1>3. Dispatching(c)' /\ S!SeriesOf(c)' = S!SeriesOf(c)
  BY <1>1, <1>2 DEF Dispatching, S!SeriesOf
<1>4. S!SeriesOf(c) \in S!SerIds \cup {0}
  BY <1>2 DEF S!SeriesOf, TypeOK, S!TypeOK, S!ReqRow
<1> QED BY <1>1, <1>3, <1>4

LEMMA InsertAsks ==
  ASSUME TypeOK, AskFits
  PROVE  /\ \A r \in S!ReqIds : S!EnqueueTriggered(r) => AskFits'
         /\ \A s \in S!SerIds, r \in S!ReqIds :
              /\ S!RestartSeries(s, r) \/ S!RetryFailed(s, r) => AskFits'
              /\ \A t \in Targets : S!CreateAutoSeries(s, r, t) => AskFits'
              /\ \A proposed \in BOOLEAN : S!EnqueueDue(s, r, proposed) => AskFits'
         /\ \A s \in S!SerIds : S!ContinueFailed(s) \/ S!EndDueSeries(s) => AskFits'
<1> DEFINE Kept == \A r \in S!ReqIds : req[r].status = "dispatching" =>
                     req'[r].status = "dispatching" /\ req'[r].series = req[r].series
           Paused == \A s \in S!SerIds : ser[s].status = "paused_user" => ser'[s].status = "paused_user"
<1>t. req \in [S!ReqIds -> S!ReqRow] /\ ser \in [S!SerIds -> S!SerRow]
  BY DEF TypeOK, S!TypeOK
<1>1. ASSUME NEW r \in S!ReqIds, NEW s, NEW n, NEW old, S!Insert(r, s, n, old) PROVE Kept
  BY <1>1, <1>t DEF S!Insert, S!NextRow
<1>2. ASSUME NEW s \in S!SerIds, ser[s].status # "paused_user",
             \A t \in S!SerIds \ {s} : ser'[t] = ser[t] PROVE Paused
  BY <1>2
<1>3. ASSUME NEW s \in S!SerIds, NEW r \in S!ReqIds, NEW t, S!StartSeries(s, r, t) PROVE AskFits'
  <2>1. Kept /\ UNCHANGED <<run, cyc, dec>>
    BY <1>1, <1>3 DEF S!StartSeries
  <2>2. Paused
    BY <1>2, <1>3, <1>t DEF S!StartSeries, S!NextRow
  <2> QED BY <2>1, <2>2, AsideAsks
<1>4. ASSUME NEW s \in S!SerIds, NEW r \in S!ReqIds, S!RetryFailed(s, r) PROVE AskFits'
  <2>1. Kept /\ UNCHANGED <<run, cyc, dec>>
    BY <1>1, <1>4 DEF S!RetryFailed
  <2>2. Paused
    BY <1>2, <1>4, <1>t DEF S!RetryFailed
  <2> QED BY <2>1, <2>2, AsideAsks
<1>5. ASSUME NEW s \in S!SerIds, NEW r \in S!ReqIds, NEW proposed, S!EnqueueDue(s, r, proposed)
      PROVE  AskFits'
  <2>1. Kept /\ UNCHANGED <<run, cyc, dec>>
    BY <1>1, <1>5 DEF S!EnqueueDue
  <2>2. Paused
    BY <1>2, <1>5, <1>t DEF S!EnqueueDue
  <2> QED BY <2>1, <2>2, AsideAsks
<1>6. ASSUME NEW s \in S!SerIds, S!ContinueFailed(s) \/ S!EndDueSeries(s) PROVE AskFits'
  <2>1. Paused
    BY <1>2, <1>6, <1>t DEF S!ContinueFailed, S!EndDueSeries
  <2> QED BY <2>1, <1>6, AsideAsks DEF S!ContinueFailed, S!EndDueSeries
<1>7. ASSUME NEW r \in S!ReqIds, S!EnqueueTriggered(r) PROVE AskFits'
  <2>1. Kept
    BY <1>1, <1>7 DEF S!EnqueueTriggered
  <2> QED BY <2>1, <1>7, AsideAsks DEF S!EnqueueTriggered
<1> QED BY <1>3, <1>4, <1>5, <1>6, <1>7 DEF S!CreateAutoSeries, S!RestartSeries

\* Settling a cycle: who asks is not over, so it is a pause.
LEMMA SettleAsks ==
  ASSUME TypeOK, RowsFit, AskFits, NEW c \in CycIds, S!SettleCycle(c) \/ S!PauseSeries(c)
  PROVE  AskFits'
<1>1. UNCHANGED <<run, cyc, dec>> /\ Dispatching(c)
  BY DEF S!SettleCycle, S!PauseSeries, Dispatching
<1>2. CASE S!SettleCycle(c) /\ run # "canceled"
  <2>1. NobodyAsks
    BY <1>1, <1>2, AtWork DEF S!SettleCycle, S!TerminalCycle
  <2> QED BY <1>1, <2>1 DEF NobodyAsks, AskFits, Asking, Over
<1>3. CASE S!PauseSeries(c) /\ cyc[c].status = "waiting_for_user"
  <2>1. req' = req
    BY <1>3 DEF S!PauseSeries
  <2>2. \A s \in S!SerIds : ser[s].status = "paused_user" => ser'[s].status = "paused_user"
    BY <1>3 DEF S!PauseSeries, TypeOK, S!TypeOK
  <2> QED BY <1>1, <2>1, <2>2, AsideAsks
<1>4. CASE S!PauseSeries(c) /\ cyc[c].status = "interrupted" /\ run # "canceled"
  <2>1. NobodyAsks
    BY <1>1, <1>4, AtWork
  <2> QED BY <1>1, <2>1 DEF NobodyAsks, AskFits, Asking, Over
<1>5. CASE run = "canceled"
  BY <1>1, <1>5 DEF AskFits
<1> QED BY <1>2, <1>3, <1>4, <1>5 DEF S!PauseSeries

LEMMA StoreAsks == AskFits /\ UNCHANGED store => AskFits'
BY DEF store, AskFits, Asking, Over, Dispatching, S!SeriesOf

LEMMA SettlementAsks ==
  ASSUME TypeOK, RowsFit, AskFits, NEW c \in CycIds, OnSettled(c)
  PROVE  AskFits'
BY SettleAsks, StoreAsks DEF OnSettled

LEMMA WorkerAsks ==
  ASSUME DispatcherInv, AskFits, NEW w \in Workers, Worker(w)
  PROVE  AskFits'
<1>t. TypeOK /\ RowsFit /\ WorkerFits(w) /\ run' = run
  BY WorkerRuns DEF DispatcherInv
<1>n. CASE run = "canceled"
  BY <1>n, <1>t DEF AskFits
<1>1. CASE run # "canceled" /\ Take(w)
  <2>1. CASE UNCHANGED store
    BY <2>1, StoreAsks
  <2>2. CASE S!NoneDispatching /\ UNCHANGED <<cyc, dec>>
    <3>1. \A c \in CycIds : ~Dispatching(c)
      BY <2>2, Fields, <1>t DEF S!NoneDispatching, Dispatching
    <3>2. NobodyAsks'
      BY <2>2, <3>1, <1>1 DEF AskFits, NobodyAsks, Asking, Over
    <3> QED BY <3>2 DEF NobodyAsks, AskFits
  <2> QED BY <1>1, <2>1, <2>2 DEF Take, S!ClaimNext
<1>2. CASE run # "canceled" /\ Create(w)
  <2>1. PICK c \in CycIds, r \in S!ReqIds : S!CreateCycle(c, r)
    BY <1>2 DEF Create
  <2>2. /\ cyc[c].status = "absent" /\ UNCHANGED <<req, ser, dec>>
        /\ \A d \in CycIds \ {c} : cyc'[d] = cyc[d]
    BY <2>1, <1>t DEF S!CreateCycle, S!NextRow, TypeOK, S!TypeOK, CycIds
  <2>3. dec[c] # "awaiting_user"
    BY <1>2, <2>2 DEF AskFits, Asking, Over, S!TerminalCycle
  <2> QED BY <1>2, <1>t, <2>2, <2>3 DEF AskFits, Asking, Over, Dispatching, S!SeriesOf
<1>3. CASE run # "canceled" /\ CreateFails(w)
  <2>1. PICK r \in S!ReqIds : S!RequeueClaim(r)
    BY <1>3 DEF CreateFails
  <2>2. \A c \in CycIds : ~Dispatching(c)
    BY <1>3, <2>1, ClaimedIsAlone DEF CreateFails, S!RequeueClaim
  <2>3. NobodyAsks'
    BY <1>3, <2>1, <2>2 DEF AskFits, NobodyAsks, Asking, Over, S!RequeueClaim
  <2> QED BY <2>3 DEF NobodyAsks, AskFits
<1>4. CASE run # "canceled" /\ FreezeFails(w)
  <2>1. wk[w].cycle \in CycIds /\ cyc[wk[w].cycle].status = "queued" /\ Dispatching(wk[w].cycle)
    BY <1>4, <1>t, Fields DEF FreezeFails, WorkerFits, SectionFits
  <2> QED BY <1>4, <1>t, <2>1, SetCycleAsks DEF FreezeFails, S!SetCycle, Over, S!TerminalCycle
<1>5. CASE Launch(w) \/ WakeDone(w)
  BY <1>5, StoreAsks DEF Launch, WakeDone
<1>6. CASE run # "canceled" /\ WakeError(w)
  <2>1. wk[w].cycle \in CycIds /\ cyc[wk[w].cycle].status = "queued"
    BY <1>6, <1>t, Fields DEF WakeError, Wakes, WorkerFits, AwaitFits, SectionFits
  <2>2. Dispatching(wk[w].cycle) /\ ~Over(wk[w].cycle)
    BY <2>1, <1>t, OneLive DEF Over, S!TerminalCycle
  <2> QED BY <1>6, <1>t, <2>1, <2>2, SetCycleAsks, StoreAsks DEF WakeError, S!SetCycle
<1>7. CASE run # "canceled" /\ WakeInterrupted(w)
  <2>1. CASE UNCHANGED store
    BY <2>1, StoreAsks
  <2>2. CASE ~Over(wk[w].cycle) /\ ~Parked(wk[w].cycle) /\ S!SetCycle(wk[w].cycle, "interrupted")
    <3>1. wk[w].pc = "awaiting" /\ wk[w].news \in {"ambiguous", "canceled"}
      BY <1>7 DEF WakeInterrupted, Wakes
    <3>2. wk[w].cycle \in CycIds /\ cyc[wk[w].cycle].status # "absent"
      BY <3>1, <1>t, Fields DEF WorkerFits, AwaitFits, SectionFits, IsAmbiguous, Over, S!TerminalCycle
    <3>3. Dispatching(wk[w].cycle)
      BY <1>7, <2>2, <3>2, <1>t, OneLive
    <3> QED BY <1>7, <1>t, <2>2, <3>2, <3>3, SetCycleAsks DEF S!SetCycle, Parked
  <2> QED BY <1>7, <2>1, <2>2 DEF WakeInterrupted
<1>8. CASE WorkerSettles(w)
  <2>1. wk[w].cycle \in CycIds
    BY <1>8, <1>t, Fields DEF WorkerSettles, WorkerFits, SectionFits
  <2> QED BY <1>8, <1>t, <2>1, SettlementAsks DEF WorkerSettles
<1> QED BY <1>n, <1>1, <1>2, <1>3, <1>4, <1>5, <1>6, <1>7, <1>8 DEF Worker

LEMMA MarkerAsks ==
  ASSUME DispatcherInv, AskFits, NEW c \in CycIds, MarkerInterrupts(c)
  PROVE  AskFits'
<1>t. TypeOK /\ RowsFit
  BY DEF DispatcherInv
<1>1. CASE OnSettled(c)
  BY <1>1, <1>t, SettlementAsks
<1>2. CASE ~Over(c) /\ ~Parked(c) /\ S!SetCycle(c, "interrupted") /\ run # "canceled"
  <2>1. cyc[c].status # "absent"
    BY DEF MarkerInterrupts, DispatcherInv, MarksFit, IsAmbiguous
  <2>2. Dispatching(c)
    BY <1>2, <2>1, <1>t, OneLive
  <2> QED BY <1>2, <1>t, <2>2, SetCycleAsks DEF S!SetCycle, Parked
<1>3. CASE S!SetCycle(c, "interrupted") /\ run = "canceled"
  BY <1>3 DEF AskFits, S!SetCycle, S!SetCycleAndRun
<1> QED BY <1>1, <1>2, <1>3 DEF MarkerInterrupts

LEMMA TaskAsks ==
  ASSUME DispatcherInv, Ordinary, AskFits, NEW c \in CycIds, Task(c)
  PROVE  AskFits'
<1>t. TypeOK /\ RowsFit
  BY DEF DispatcherInv
<1>r. ASSUME NEW statuses \in SUBSET (TaskStatus \ {"none", "ended"}), Runs(c, statuses)
      PROVE  /\ Dispatching(c) /\ run # "canceled" /\ ~Over(c)
             /\ cyc[c].status # "waiting_for_user"
  <2>1. TaskFits(c) /\ task[c] \in statuses
    BY <1>r, RunsFits
  <2>2. task[c] \in {"plan_due", "resume_due", "planning", "working", "unfrozen"}
    BY <2>1 DEF TaskStatus
  <2>3. task[c] # "unfrozen"
    BY DEF DispatcherInv, RegistryFits
  <2> QED BY <2>1, <2>2, <2>3 DEF TaskFits, Over, S!TerminalCycle
<1>1. CASE StartPlan(c) \/ PlanFails(c) \/ ResumeRefused(c) \/ BackOff(c) \/ TryAgain(c)
  BY <1>1, StoreAsks DEF StartPlan, PlanFails, ResumeRefused, BackOff, TryAgain
<1>2. CASE ReplayPlan(c) \/ PlanDone(c) \/ StartResume(c) \/ ProviderWaits(c) \/ ProviderAmbiguous(c)
           \/ WorkPauses(c) \/ WorkEnds(c) \/ WorkFails(c)
  <2>1. /\ \E statuses \in SUBSET (TaskStatus \ {"none", "ended"}) : Runs(c, statuses)
        /\ \E cs, rs : S!SetCycleAndRun(c, cs, rs)
    BY <1>2 DEF TaskStatus, ReplayPlan, PlanDone, StartResume, ProviderWaits, ProviderAmbiguous,
                WorkPauses, WorkEnds, WorkFails, Works
  <2> QED BY <2>1, <1>r, <1>t, SetCycleAsks
<1>3. CASE WorkDefers(c)
  <2>1. Runs(c, {"working"}) /\ S!DeferDecision(c)
    BY <1>3 DEF WorkDefers
  <2>2. Dispatching(c) /\ run # "canceled" /\ ~Over(c) /\ cyc[c].status # "waiting_for_user"
    BY <2>1, <1>r DEF TaskStatus
  <2>3. Writes(c, cyc[c].status, run) /\ dec'[c] = "collecting" /\ \A d \in CycIds \ {c} : dec'[d] = dec[d]
    BY <2>1, <1>t DEF S!DeferDecision, Writes, TypeOK, S!TypeOK, CycIds
  <2> QED BY <2>2, <2>3, <1>t, WriteAsks
<1>4. CASE WorkAsks(c)
  <2>1. Runs(c, {"working"}) /\ S!PublishDecision(c)
    BY <1>4 DEF WorkAsks
  <2>2. Dispatching(c) /\ run # "canceled" /\ ~Over(c) /\ cyc[c].status # "waiting_for_user"
    BY <2>1, <1>r DEF TaskStatus
  <2>3. NobodyAsks
    BY <2>2, <1>t, AtWork
  <2>4. /\ run' = "waiting_for_user" /\ req' = req
        /\ \A d \in CycIds \ {c} : cyc'[d] = cyc[d] /\ dec'[d] = dec[d]
        /\ cyc'[c].status = "waiting_for_user" /\ cyc'[c].request = cyc[c].request
    BY <2>1, <1>t DEF S!PublishDecision, TypeOK, S!TypeOK, S!CycRow, CycIds
  <2>5. \A d \in CycIds : Asking(d)' => d = c
    BY <2>3, <2>4 DEF NobodyAsks, Asking, Over
  <2>6. Dispatching(c)' /\ S!SeriesOf(c)' = S!SeriesOf(c)
    BY <2>2, <2>4 DEF Dispatching, S!SeriesOf
  <2>7. S!SeriesOf(c) # 0 => ser'[S!SeriesOf(c)].status = "paused_user"
    <3>1. cyc[c].request \in S!ReqIds
      BY <2>2, Fields, <1>t DEF Dispatching
    <3>2. S!SeriesOf(c) \in S!SerIds \cup {0}
      BY <3>1, <1>t DEF S!SeriesOf, TypeOK, S!TypeOK, S!ReqRow
    <3> QED BY <2>1, <3>2, <1>t DEF S!PublishDecision, TypeOK, S!TypeOK, S!SerRow
  <2> QED BY <2>4, <2>5, <2>6, <2>7 DEF AskFits
<1>5. CASE TaskSettles(c)
  BY <1>5, <1>t, SettlementAsks, StoreAsks DEF TaskSettles
<1>6. CASE CancelDelivered(c)
  BY <1>6, StoreAsks DEF CancelDelivered, S!SetCycleAndRun, AskFits, store
<1> QED BY <1>1, <1>2, <1>3, <1>4, <1>5, <1>6 DEF Task

LEMMA RecoverAsks ==
  ASSUME TypeOK, RowsFit, AskFits, NEW c \in CycIds, NEW stage, S!RecoverProvider(c, stage)
  PROVE  AskFits'
<1>1. /\ Dispatching(c) /\ run # "canceled" /\ ~Over(c) /\ cyc[c].status # "waiting_for_user"
      /\ \E cs, rs : S!SetCycleAndRun(c, cs, rs)
  BY DEF S!RecoverProvider, Dispatching, Over, S!TerminalCycle
<1> QED BY <1>1, SetCycleAsks

LEMMA AnswerAsks ==
  ASSUME TypeOK, RowsFit, AskFits, NEW c \in CycIds, S!AnswerDecision(c)
  PROVE  AskFits'
<1>1. run = "waiting_for_user" /\ Asking(c)
  BY DEF S!AnswerDecision, Asking, Over, S!TerminalCycle
<1>2. \A d \in CycIds : Asking(d) => d = c
  BY <1>1, OneLive DEF AskFits
<1>3. dec'[c] # "awaiting_user" /\ \A d \in CycIds \ {c} : dec'[d] = dec[d] /\ cyc'[d] = cyc[d]
  BY DEF S!AnswerDecision, TypeOK, S!TypeOK, CycIds
<1>4. NobodyAsks'
  BY <1>2, <1>3 DEF NobodyAsks, Asking, Over
<1> QED BY <1>4 DEF NobodyAsks, AskFits

\* Whoever cancels the run withdraws its questions.
LEMMA CancelAsks == TypeOK /\ CancelWithCalls => AskFits'
<1> SUFFICES ASSUME TypeOK, S!CancelRun PROVE AskFits'
  BY DEF CancelWithCalls
<1>1. \A c \in CycIds : dec'[c] # "awaiting_user"
  BY DEF S!CancelRun, CycIds
<1> QED BY <1>1 DEF AskFits, Asking

LEMMA RunStatusAsks ==
  ASSUME AskFits, UNCHANGED <<req, cyc, ser, dec>>, run \notin S!TerminalRun \cup {"waiting_for_user"}
  PROVE  AskFits'
<1>1. NobodyAsks
  BY DEF AskFits, NobodyAsks, S!TerminalRun
<1> QED BY <1>1 DEF NobodyAsks, AskFits, Asking, Over

LEMMA HandlersAsk ==
  ASSUME DispatcherInv, Ordinary, AskFits, Tick \/ Handlers
  PROVE  AskFits'
<1>t. TypeOK /\ RowsFit
  BY DEF DispatcherInv
<1>1. CASE RecoverDue
  BY <1>1, <1>t, RecoverAsks DEF RecoverDue
<1>2. CASE ResumeClaim
  BY <1>2, StoreAsks DEF ResumeClaim
<1>3. CASE TickEnqueues \/ Enqueue \/ Continue
  BY <1>3, <1>t, InsertAsks DEF TickEnqueues, EnqueueDue, Enqueue, TriggerCycle, RetryAutoCycle,
       RestartAutoSeries, Continue
<1>4. CASE Answer
  BY <1>4, <1>t, AnswerAsks DEF Answer
<1>5. CASE Resume
  BY <1>5, <1>t, RecoverAsks, StoreAsks DEF Resume, ResumePlain, ResumeAmbiguous
<1>6. CASE Pause
  BY <1>6, RunStatusAsks, StoreAsks DEF Pause, S!SetRun, S!TerminalRun
<1>7. CASE Cancel \/ CancelReturns
  BY <1>7, <1>t, CancelAsks, StoreAsks DEF Cancel, CancelReturns, CancelNow
<1>8. ~Reopen /\ ~RetryTask /\ \A c \in CycIds : ~RetryFreezes(c)
  BY WhatMayHappen DEF Reopen, RetryTask, RetryFreezes, DispatcherInv, RegistryFits
<1> QED BY <1>1, <1>2, <1>3, <1>4, <1>5, <1>6, <1>7, <1>8 DEF Handlers, Tick

LEMMA CrashAsks ==
  ASSUME DispatcherInv, Ordinary, AskFits, Crash
  PROVE  AskFits'
<1>t. TypeOK /\ RowsFit
  BY DEF DispatcherInv
<1>1. CASE UNCHANGED store
  BY <1>1, StoreAsks
<1>2. ASSUME NEW c \in CycIds, CutShort(c), ~UNCHANGED store PROVE AskFits'
  <2>1. task[c] \in {"planning", "resume_due", "working"}
    BY <1>2 DEF CutShort
  <2>2. reg = c /\ c # 0
    BY <2>1 DEF DispatcherInv, RegistryFits, CycIds, S!CycIds
  <2>3. CASE server \in {"canceled", "gathering"}
    <3>1. op[c].st = "none" /\ task[c] # "resume_due" /\ (task[c] = "working" => run = "canceled")
      BY <2>2, <2>3 DEF DispatcherInv, RegisteredFits, CanceledTaskFits, StoppedFits, AfterCancel
    <3> QED BY <1>2, <3>1, CanceledStays DEF CutShort, S!SetRun, AskFits
  <2>4. CASE server \notin {"canceled", "gathering"}
    <3>1. /\ Dispatching(c) /\ run # "canceled" /\ ~Over(c) /\ cyc[c].status # "waiting_for_user"
          /\ task[c] = "working" => run = "running"
      BY <2>1, <2>2, <2>4 DEF DispatcherInv, RegisteredFits, TaskFits, Over, S!TerminalCycle
    <3>2. (\E cs, rs : S!SetCycleAndRun(c, cs, rs)) \/ (task[c] = "working" /\ \E rs : S!SetRun(rs))
      BY <1>2 DEF CutShort, S!SetCycle
    <3>3. CASE task[c] = "working" /\ \E rs : S!SetRun(rs)
      BY <3>1, <3>3, RunStatusAsks DEF S!SetRun, S!TerminalRun
    <3> QED BY <3>1, <3>2, <3>3, <1>t, SetCycleAsks
  <2> QED BY <2>3, <2>4
<1> QED BY <1>1, <1>2 DEF Crash, store

LEMMA StopsAsk ==
  ASSUME DispatcherInv, Ordinary, AskFits, Stops \/ Emergency
  PROVE  AskFits'
<1>t. TypeOK
  BY DEF DispatcherInv
<1>1. ~Shutdown /\ ~CancelRegistered /\ ~Exit
  BY WhatMayHappen DEF Shutdown, CancelRegistered, Exit, DispatcherInv, ServerFits, AtRest, Unrepaired,
    Repaired, AfterCancel
<1>2. CASE EmergencyStop \/ CancelTasks \/ ResumeIntake
  BY <1>2, StoreAsks DEF EmergencyStop, StopWorkers, CancelTasks, ResumeIntake
<1>3. CASE CancelActive \/ StopAnswers
  BY <1>3, <1>t, CancelAsks, StoreAsks DEF CancelActive, StopAnswers, store
<1> QED BY <1>1, <1>2, <1>3, CrashAsks DEF Stops, Emergency

\* The series of a dispatching request is not over.
LEMMA SeriesGoesOn ==
  ASSUME TypeOK, Stored!SeriesInv, NEW c \in CycIds, Dispatching(c), S!SeriesOf(c) # 0
  PROVE  S!SeriesOf(c) \in S!SerIds /\ ser[S!SeriesOf(c)].status \in S!ActiveSeries
<1>1. cyc[c].request \in S!ReqIds /\ S!SeriesOf(c) = req[cyc[c].request].series
  BY Fields DEF Dispatching, S!SeriesOf
<1>2. S!SeriesOf(c) \in S!SerIds
  BY <1>1 DEF TypeOK, S!TypeOK, S!ReqRow
<1>3. Stored!RequestsFit(S!SeriesOf(c))
  BY <1>2 DEF Stored!SeriesInv, Stored!SeriesOK, S!SerIds, Stored!SerIds
<1> QED BY <1>1, <1>2, <1>3 DEF Stored!RequestsFit, Stored!GoingSeries, Stored!Live, Stored!ReqIds,
             S!ReqIds, S!ActiveSeries, Dispatching

LEMMA ReconcileDecisionsAsks ==
  ASSUME DispatcherInv, Ordinary, Stored!SeriesInv, AskFits, ReconcileDecisions
  PROVE  AskFits'
<1>t. TypeOK /\ RowsFit
  BY DEF DispatcherInv
<1> DEFINE open == S!OpenDecisions(Resumable)
<1>1. CASE UNCHANGED store
  BY <1>1, StoreAsks
<1>2. CASE S!ReconcileLifecycle(Resumable) /\ run # "canceled"
  <2>1. /\ dec' = [c \in S!CycIds |-> IF c \in open THEN "awaiting_user" ELSE dec[c]]
        /\ run' = IF run \in S!TerminalRun THEN run ELSE "waiting_for_user"
        /\ cyc' = [c \in S!CycIds |-> IF c \in open /\ cyc[c].status \notin S!TerminalCycle
                                      THEN [cyc[c] EXCEPT !.status = "waiting_for_user"] ELSE cyc[c]]
        /\ req' = req
        /\ \A s \in S!SerIds : ser[s].status \in S!ActiveSeries /\ S!LastOpenOf(s, open) # {} =>
             ser'[s].status = "paused_user"
    BY <1>2, <1>t DEF S!ReconcileLifecycle, TypeOK, S!TypeOK, S!SerRow
  <2>2. ASSUME NEW c \in CycIds, c \in open, ~Over(c)
        PROVE  Dispatching(c)
    <3>1. cyc[c].status # "absent"
      BY <2>2 DEF DispatcherInv, Stored!CycleInv, Stored!AbsentRowsAreEmpty, CycIds, S!CycIds, Stored!CycIds,
               S!OpenDecisions
    <3> QED BY <3>1, <2>2, <1>2, <1>t, OneLive
  <2>3. ASSUME NEW c \in CycIds, Asking(c)'
        PROVE  c \in open /\ ~Over(c)
    <3>1. CASE c \notin open
      <4>1. cyc'[c] = cyc[c] /\ dec'[c] = dec[c]
        BY <2>1, <3>1 DEF CycIds
      <4>2. Asking(c)
        BY <2>3, <4>1 DEF Asking, Over
      <4>3. c \in Resumable
        BY <3>1, <4>2 DEF S!OpenDecisions, Asking, CycIds
      <4>4. cyc[c].status = "waiting_for_user"
        BY <4>2, <1>2 DEF AskFits
      <4> QED BY <4>3, <4>4 DEF Resumable, DispatcherInv, OpFits, CallOfCanceled, CallOfLive
    <3>2. CASE c \in open
      BY <2>1, <2>3, <3>2 DEF Asking, Over, CycIds
    <3> QED BY <3>1, <3>2
  <2>4. ASSUME NEW c \in CycIds, Asking(c)', S!SeriesOf(c) # 0
        PROVE  ser'[S!SeriesOf(c)].status = "paused_user"
    <3>1. c \in open /\ Dispatching(c)
      BY <2>2, <2>3, <2>4
    <3>2. S!SeriesOf(c) \in S!SerIds /\ ser[S!SeriesOf(c)].status \in S!ActiveSeries
      BY <3>1, <2>4, <1>t, SeriesGoesOn
    <3>3. S!LastOpenOf(S!SeriesOf(c), open) # {}
      <4> DEFINE T == {d \in open : S!SeriesOf(d) = S!SeriesOf(c)}
      <4>1. T \in SUBSET Nat /\ c \in T /\ \A x \in T : x <= MaxCycles
        BY <3>1, StoreConstants DEF S!OpenDecisions, S!CycIds
      <4>2. PICK m \in T : \A x \in T : x <= m
        BY <4>1, Greatest, StoreConstants
      <4>3. m \in S!LastOpenOf(S!SeriesOf(c), open)
        BY <4>2 DEF S!LastOpenOf
      <4> QED BY <4>3
    <3> QED BY <3>2, <3>3, <2>1
  <2>5. ASSUME NEW c \in CycIds, Asking(c)'
        PROVE  /\ cyc'[c].status = "waiting_for_user" /\ cyc'[c].request = cyc[c].request
               /\ Dispatching(c)' /\ S!SeriesOf(c)' = S!SeriesOf(c)
    <3>1. cyc'[c].status = "waiting_for_user" /\ cyc'[c].request = cyc[c].request
      BY <2>1, <2>3, <2>5, <1>t DEF Over, CycIds, TypeOK, S!TypeOK, S!CycRow
    <3> QED BY <2>1, <2>2, <2>3, <2>5, <3>1 DEF Dispatching, S!SeriesOf
  <2>6. run' \in {"waiting_for_user"} \cup S!TerminalRun
    BY <2>1
  <2> QED BY <2>4, <2>5, <2>6 DEF AskFits
<1>3. CASE run = "canceled"
  BY <1>3, CanceledStays DEF AskFits, ReconcileDecisions, S!ReconcileLifecycle, S!TerminalRun, store
<1> QED BY <1>1, <1>2, <1>3 DEF ReconcileDecisions

LEMMA StartsAsk ==
  ASSUME DispatcherInv, Ordinary, Stored!SeriesInv, AskFits, Starts
  PROVE  AskFits'
<1>t. TypeOK /\ RowsFit
  BY DEF DispatcherInv
<1>1. CASE Boot \/ OpsReconciled \/ Serve
  BY <1>1, StoreAsks DEF Boot, OpsReconciled, Serve
<1>2. CASE InterruptActive
  <2>1. CASE run = "running" /\ S!InterruptRun(FALSE)
    <3>1. NobodyAsks
      BY <2>1 DEF AskFits, NobodyAsks, S!TerminalRun
    <3>2. dec' = dec /\ \A c \in CycIds : Over(c)' \/ cyc'[c] = cyc[c] \/ cyc[c].status = "running"
      BY <2>1 DEF S!InterruptRun, S!InterruptedCycle, CycIds
    <3>3. NobodyAsks'
      BY <3>1, <3>2 DEF NobodyAsks, Asking, Over, S!TerminalCycle
    <3> QED BY <3>3 DEF NobodyAsks, AskFits
  <2> QED BY <1>2, <2>1, StoreAsks DEF InterruptActive
<1>3. ASSUME NEW c \in CycIds, ReconcileOp(c) PROVE AskFits'
  <2>1. CASE ~SourceCanceled(c)
    <3>1. op[c].st = "invoking" /\ run # "canceled" /\ cyc[c].status # "canceled"
      BY <1>3, <2>1 DEF ReconcileOp, Unreconciled, SourceCanceled
    <3>2. Dispatching(c) /\ ~Over(c) /\ cyc[c].status # "waiting_for_user"
      BY <3>1 DEF DispatcherInv, OpFits, CallOfCanceled, CallOfLive
    <3> QED BY <1>3, <2>1, <3>1, <3>2, <1>t, SetCycleAsks DEF ReconcileOp
  <2> QED BY <1>3, <2>1, StoreAsks DEF ReconcileOp
<1>4. CASE InterruptCycles
  <2>1. ASSUME NEW c \in CycIds, NotResumed(c), S!SetCycle(c, "interrupted"), run # "canceled" PROVE AskFits'
    BY <2>1, <1>t, SetCycleAsks DEF NotResumed, S!SetCycle, Over, S!TerminalCycle
  <2>2. CASE run = "canceled"
    BY <1>4, <2>2, StoreAsks DEF InterruptCycles, S!SetCycle, S!SetCycleAndRun, AskFits
  <2> QED BY <1>4, <2>1, <2>2, StoreAsks DEF InterruptCycles
<1>5. CASE ReconcileRequests
  <2>1. ASSUME NEW r \in S!ReqIds, S!RequeueClaim(r) PROVE AskFits'
    <3>1. \A c \in CycIds : ~Dispatching(c)
      <4>1. \A c \in CycIds : cyc[c].request # r
        BY <2>1, <1>t, Fields DEF S!RequeueClaim, S!CycleOf, RowsFit, CycIds
      <4> QED BY <2>1, <4>1, <1>t, Fields DEF S!RequeueClaim, RowsFit, S!OneDispatching, Dispatching
    <3> QED BY <2>1, <3>1 DEF AskFits, Asking, Over, S!RequeueClaim
  <2> QED BY <1>5, <2>1, <1>t, SettleAsks, StoreAsks DEF ReconcileRequests
<1>6. CASE BootEnqueues
  BY <1>6, <1>t, InsertAsks DEF BootEnqueues, EnqueueDue
<1> QED BY <1>1, <1>2, <1>3, <1>4, <1>5, <1>6, ReconcileDecisionsAsks DEF Starts

\* A question of a live cycle and run can be answered, whatever stopped, crashed or was
\* repaired in between (publish_decision_request, reconcile_lifecycle,
\* answer_decision_request): run, cycle, series and request are where the answer wants them.
THEOREM QuestionsStayAnswerable == Ordinary => (Spec => []QuestionIsAnswerable)
<1> SUFFICES ASSUME Ordinary PROVE Spec => []QuestionIsAnswerable
  OBVIOUS
<1>1. Init => AskFits /\ Stored!SeriesInv
  <2>1. Init => Stored!Init /\ AskFits
    BY SameInit DEF Init, S!Init, AskFits, Asking, CycIds
  <2> QED BY <2>1, Stored!SeriesInvInit, StoreConstants
<1>2. DispatcherInv /\ Stored!SeriesInv /\ [Next]_vars => Stored!SeriesInv'
  <2> SUFFICES ASSUME Stored!SeriesInv, StoreStep PROVE Stored!SeriesInv'
    BY NextRefines
  <2>1. S!Next => Stored!Next
    BY SameRequests, SameSeries, SameCycles, SameRuns DEF S!Next, Stored!Next
  <2>2. UNCHANGED store => UNCHANGED Stored!store
    BY DEF store, Stored!store
  <2> QED BY <2>1, <2>2, Stored!SeriesInvStep, StoreConstants DEF StoreStep
<1>3. DispatcherInv /\ Stored!SeriesInv /\ AskFits /\ [Next]_vars => AskFits'
  <2>1. UNCHANGED vars /\ AskFits => AskFits'
    BY StoreAsks DEF vars
  <2> QED BY <2>1, WorkerAsks, MarkerAsks, TaskAsks, HandlersAsk, StopsAsk, StartsAsk DEF Next
<1>4. AskFits => QuestionIsAnswerable
  BY DEF AskFits, Asking, QuestionIsAnswerable, S!TerminalRun
<1> QED BY <1>1, <1>2, <1>3, <1>4, Invariance, PTL DEF Spec

-----------------------------------------------------------------------------
(* No cycle is stranded.  A crash that finds a question deferred and a call *)
(* waiting for its provider parks the cycle for the user, and the call is   *)
(* then polled by nobody: one of the three must not happen.                *)

QuestionsAreSeen == ~({"wait", "decide", "crash"} \subseteq Events)

\* what cannot be there without these events
Prevented ==
  /\ "wait" \notin Events => \A c \in CycIds : op[c].st # "waiting"
  /\ "decide" \notin Events => \A c \in CycIds : dec[c] = "none"
  /\ "crash" \notin Events /\ server \in AtRest => \A c \in CycIds : cyc[c].status = "absent"

\* A call that waits for its provider is one the tick finds.
WaitFits ==
  \A c \in CycIds : op[c].st = "waiting" =>
    Dispatching(c) /\ cyc[c].status = "waiting_for_provider" /\ run = "waiting_for_provider"

\* A running cycle has a task, a claim, or an ambiguous call to be told of; a start
\* leaves only those running that it resumes.
Told(c) == c \in marks \/ \E w \in Workers : wk[w].pc = "awaiting" /\ wk[w].cycle = c /\ wk[w].news = "ambiguous"

RunningFits ==
  \A c \in CycIds : cyc[c].status = "running" =>
    /\ server = "up" => reg = c \/ claim = c \/ Told(c)
    /\ server \in {"reconcile_requests", "enqueue_due"} => c \in Resumable

LEMMA WhoWaits ==
  ASSUME DispatcherInv, WaitFits, NEW c \in CycIds, op[c].st = "waiting"
  PROVE  /\ Dispatching(c) /\ cyc[c].status = "waiting_for_provider" /\ run = "waiting_for_provider"
         /\ \A d \in CycIds : Dispatching(d) => d = c
         /\ \A d \in CycIds : cyc[d].status \in {"queued", "running", "interrupted"} => d = c
         /\ reg = 0
<1>t. TypeOK /\ RowsFit
  BY DEF DispatcherInv
<1>1. Dispatching(c) /\ cyc[c].status = "waiting_for_provider" /\ run = "waiting_for_provider"
  BY DEF WaitFits
<1>2. \A d \in CycIds : Dispatching(d) => d = c
  BY <1>1, <1>t, OneLive
<1>3. \A d \in CycIds : cyc[d].status \in {"queued", "running", "interrupted"} => d = c
  BY <1>2, <1>t, OneLive
<1>4. ASSUME reg # 0 PROVE FALSE
  <2>1. reg \in CycIds /\ task[reg] \notin {"none", "unfrozen"} /\ task[reg] \in TaskStatus
    BY <1>4, <1>t, Fields DEF DispatcherInv, RegistryFits
  <2>2. server \notin {"canceled", "gathering"}
    BY DEF DispatcherInv, StoppedFits, AfterCancel
  <2>3. TaskFits(reg)
    BY <1>4, <2>2 DEF DispatcherInv, RegisteredFits
  <2>4. reg = c
    BY <1>2, <2>1, <2>3 DEF TaskFits
  <2> QED BY <1>1, <2>1, <2>3, <2>4 DEF TaskFits, TaskStatus, Over, S!TerminalCycle
<1> QED BY <1>1, <1>2, <1>3, <1>4

\* a step that the waiting and the running cycles do not see
LEMMA QuietWaits ==
  ASSUME WaitFits, QuietStep, UNCHANGED op
  PROVE  WaitFits'
BY DEF WaitFits, QuietStep

LEMMA QuietRuns ==
  ASSUME RunningFits, UNCHANGED <<cyc, op, server, reg, claim, wk, marks>>
  PROVE  RunningFits'
BY DEF RunningFits, Told, Resumable

LEMMA SettlementWaits ==
  ASSUME DispatcherInv, WaitFits, NEW c \in CycIds, OnSettled(c)
  PROVE  WaitFits'
<1>t. TypeOK /\ RowsFit /\ RunFits
  BY DEF DispatcherInv
<1>1. /\ UNCHANGED <<run, cyc, op>>
      /\ \A d \in CycIds : Dispatching(d) /\ ~Over(c) => Dispatching(d)'
      /\ \A d \in CycIds \ {c} : Dispatching(d) => Dispatching(d)'
  BY <1>t, SettlementRows
<1> QED BY <1>1 DEF WaitFits, Over, S!TerminalCycle

\* A write of a cycle, by its task or a worker, while no call waits.
LEMMA WriteWaits ==
  ASSUME DispatcherInv, WaitFits, NEW c \in CycIds, NEW cs, NEW rs, S!SetCycleAndRun(c, cs, rs),
         cyc[c].status \in {"queued", "running", "interrupted"} \/ reg = c \/ Over(c),
         \A d \in CycIds \ {c} : op'[d].st = "waiting" => op[d].st = "waiting",
         op'[c].st = "waiting" =>
           \/ Dispatching(c) /\ cs = "waiting_for_provider" /\ rs = "waiting_for_provider"
           \/ op[c].st = "waiting",
         Over(c) => rs = run
  PROVE  WaitFits'
<1>t. TypeOK
  BY DEF DispatcherInv
<1>1. Writes(c, cs, rs)
  BY <1>t, SetCycleWrites
<1>2. ASSUME NEW d \in CycIds \ {c}, op'[d].st = "waiting"
      PROVE  Dispatching(d)' /\ cyc'[d].status = "waiting_for_provider" /\ run' = "waiting_for_provider"
  <2>1. op[d].st = "waiting"
    BY <1>2
  <2>2. Over(c) /\ rs = run
    BY <2>1, WhoWaits, Fields, <1>t DEF Over
  <2> QED BY <1>1, <2>1, <2>2, WhoWaits DEF Writes, Dispatching
<1>3. ASSUME op'[c].st = "waiting"
      PROVE  Dispatching(c)' /\ cyc'[c].status = "waiting_for_provider" /\ run' = "waiting_for_provider"
  <2>1. op[c].st # "waiting"
    BY WhoWaits, Fields, <1>t DEF Over, S!TerminalCycle
  <2> QED BY <1>1, <1>3, <2>1 DEF Writes, Dispatching
<1> QED BY <1>2, <1>3 DEF WaitFits

LEMMA StoreWaits ==
  ASSUME DispatcherInv, WaitFits, UNCHANGED store,
         \A c \in CycIds : op'[c].st = "waiting" => op[c].st = "waiting"
  PROVE  WaitFits'
BY DEF WaitFits, store, Dispatching

LEMMA WorkerWaits ==
  ASSUME DispatcherInv, WaitFits, NEW w \in Workers, Worker(w)
  PROVE  WaitFits'
<1>t. TypeOK /\ RowsFit /\ WorkerFits(w)
  BY DEF DispatcherInv
<1>1. CASE Take(w)
  <2>1. CASE UNCHANGED store
    BY <1>1, <2>1, StoreWaits DEF Take, ledger
  <2>2. CASE S!NoneDispatching /\ op' = op
    <3>1. \A c \in CycIds : ~Dispatching(c)
      BY <2>2, Fields, <1>t DEF S!NoneDispatching, Dispatching
    <3> QED BY <2>2, <3>1 DEF WaitFits
  <2> QED BY <1>1, <2>1, <2>2 DEF Take, ledger
<1>2. CASE Create(w) \/ CreateFails(w)
  <2>1. wk[w].pc = "claimed" /\ op' = op /\ \E r \in S!ReqIds : req[r].status = "dispatching" /\ S!CycleOf(r) = {}
    BY <1>2 DEF Create, CreateFails, ledger, S!CreateCycle, S!RequeueClaim
  <2>2. \A c \in CycIds : op[c].st = "none"
    BY <2>1, ClaimedIsAlone
  <2> QED BY <2>1, <2>2 DEF WaitFits
<1>3. CASE FreezeFails(w)
  <2>1. wk[w].cycle \in CycIds /\ cyc[wk[w].cycle].status = "queued" /\ op' = op
    BY <1>3, <1>t, Fields DEF FreezeFails, WorkerFits, SectionFits, ledger
  <2>2. op[wk[w].cycle].st # "waiting"
    BY <2>1 DEF WaitFits
  <2> QED BY <1>3, <2>1, <2>2, WriteWaits DEF FreezeFails, S!SetCycle, Over, S!TerminalCycle
<1>4. CASE Launch(w) \/ WakeDone(w)
  BY <1>4, StoreWaits DEF Launch, WakeDone, Wakes, ledger
<1>5. CASE WakeError(w)
  <2>1. wk[w].cycle \in CycIds /\ cyc[wk[w].cycle].status = "queued" /\ op' = op
    BY <1>5, <1>t, Fields DEF WakeError, Wakes, WorkerFits, AwaitFits, SectionFits, ledger
  <2>2. op[wk[w].cycle].st # "waiting"
    BY <2>1 DEF WaitFits
  <2> QED BY <1>5, <2>1, <2>2, WriteWaits, StoreWaits DEF WakeError, S!SetCycle, Over, S!TerminalCycle
<1>6. CASE WakeInterrupted(w)
  <2>0. op' = op
    BY <1>6 DEF WakeInterrupted, Wakes, ledger
  <2>1. CASE UNCHANGED store
    BY <2>0, <2>1, StoreWaits
  <2>2. CASE ~Over(wk[w].cycle) /\ ~Parked(wk[w].cycle) /\ S!SetCycle(wk[w].cycle, "interrupted")
    <3>1. wk[w].pc = "awaiting" /\ wk[w].news \in {"ambiguous", "canceled"}
      BY <1>6 DEF WakeInterrupted, Wakes
    <3>2. wk[w].cycle \in CycIds /\ cyc[wk[w].cycle].status # "absent"
      BY <3>1, <1>t, Fields DEF WorkerFits, AwaitFits, SectionFits, IsAmbiguous, Over, S!TerminalCycle
    <3>3. op[wk[w].cycle].st = "ambiguous" \/ cyc[wk[w].cycle].status = "queued"
      BY <2>2, <3>1, <1>t DEF WorkerFits, AwaitFits, IsAmbiguous, Parked
    <3>4. \A d \in CycIds : op[d].st # "waiting"
      <4> SUFFICES ASSUME NEW d \in CycIds, op[d].st = "waiting" PROVE FALSE
        OBVIOUS
      <4>1. /\ run = "waiting_for_provider" /\ cyc[d].status = "waiting_for_provider"
            /\ \A e \in CycIds : Dispatching(e) => e = d
        BY WhoWaits
      <4>2. wk[w].cycle = d
        BY <2>2, <3>2, <4>1, <1>t, OneLive
      <4> QED BY <3>3, <4>1, <4>2
    <3> QED BY <2>0, <3>4 DEF WaitFits
  <2> QED BY <1>6, <2>1, <2>2 DEF WakeInterrupted
<1>7. CASE WorkerSettles(w)
  <2>1. wk[w].cycle \in CycIds
    BY <1>7, <1>t, Fields DEF WorkerSettles, WorkerFits, SectionFits
  <2> QED BY <1>7, <2>1, SettlementWaits DEF WorkerSettles
<1> QED BY <1>1, <1>2, <1>3, <1>4, <1>5, <1>6, <1>7 DEF Worker

LEMMA MarkerWaits ==
  ASSUME DispatcherInv, WaitFits, NEW c \in CycIds, MarkerInterrupts(c)
  PROVE  WaitFits'
<1>t. TypeOK /\ RowsFit
  BY DEF DispatcherInv
<1>1. CASE OnSettled(c)
  BY <1>1, SettlementWaits
<1>2. CASE ~Over(c) /\ ~Parked(c) /\ S!SetCycle(c, "interrupted") /\ op' = op
  <2>1. op[c].st = "ambiguous" /\ cyc[c].status # "absent"
    BY DEF MarkerInterrupts, DispatcherInv, MarksFit, IsAmbiguous
  <2>2. \A d \in CycIds : op[d].st # "waiting"
    <3> SUFFICES ASSUME NEW d \in CycIds, op[d].st = "waiting" PROVE FALSE
      OBVIOUS
    <3>1. c = d
      BY <1>2, <2>1, <1>t, OneLive, WhoWaits
    <3> QED BY <3>1, <2>1
  <2> QED BY <1>2, <2>2 DEF WaitFits
<1> QED BY <1>1, <1>2 DEF MarkerInterrupts, ledger

LEMMA TaskWaits ==
  ASSUME DispatcherInv, Ordinary, WaitFits, NEW c \in CycIds, Task(c)
  PROVE  WaitFits'
<1>t. TypeOK /\ RowsFit
  BY DEF DispatcherInv
<1>o. op \in [CycIds -> [st: OpStatus, planning: BOOLEAN]]
  BY <1>t DEF TypeOK
<1>r. reg = c
  BY DEF Task, StartPlan, ReplayPlan, PlanDone, PlanFails, StartResume, ResumeRefused,
         BackOff, TryAgain, ProviderWaits, ProviderAmbiguous, WorkDefers, WorkAsks, WorkPauses, WorkEnds,
         WorkFails, TaskSettles, CancelDelivered, Runs, DispatcherInv, RegistryFits, DoomedFits
<1>n. \A d \in CycIds : op[d].st # "waiting"
  BY <1>r, WhoWaits, Fields, <1>t
<1>1. CASE ProviderWaits(c)
  <2>1. /\ S!SetCycleAndRun(c, "waiting_for_provider", "waiting_for_provider") /\ Dispatching(c)
        /\ op' = [op EXCEPT ![c] = Call("waiting", op[c].planning)]
    BY <1>1 DEF ProviderWaits, SetOp
  <2>2. Writes(c, "waiting_for_provider", "waiting_for_provider")
    BY <2>1, <1>t, SetCycleWrites
  <2> QED BY <2>1, <2>2, <1>n, <1>o DEF WaitFits, Writes, Dispatching
<1>2. CASE ~ProviderWaits(c)
  <2>1. \A d \in CycIds : op'[d] = op[d] \/ op'[d].st # "waiting"
    BY <1>2, <1>o, WhatMayHappen DEF Task, StartPlan, ReplayPlan, PlanDone, PlanFails, StartResume, ResumeRefused,
         BackOff, TryAgain, ProviderAmbiguous, WorkDefers, WorkAsks, WorkPauses, WorkEnds,
         WorkFails, TaskSettles, CancelDelivered, Works, SetOp, Call, NoCall, LeftOpen, ledger, OnSettled
  <2> QED BY <2>1, <1>n DEF WaitFits
<1> QED BY <1>1, <1>2

LEMMA RecoverWaits ==
  ASSUME DispatcherInv, WaitFits, NEW c \in CycIds, NEW stage, S!RecoverProvider(c, stage),
         op'[c].st # "waiting", \A d \in CycIds \ {c} : op'[d] = op[d]
  PROVE  WaitFits'
<1>1. Dispatching(c)
  BY DEF S!RecoverProvider, Dispatching
<1> SUFFICES ASSUME NEW d \in CycIds, op'[d].st = "waiting" PROVE FALSE
  BY DEF WaitFits
<1>2. d # c /\ op[d].st = "waiting"
  OBVIOUS
<1> QED BY <1>1, <1>2, WhoWaits

LEMMA CanceledWaits ==
  ASSUME TypeOK, CancelWithCalls
  PROVE  WaitFits'
<1>1. \A c \in CycIds : op'[c].st = "none"
  BY DEF CancelWithCalls, NoCall
<1> QED BY <1>1 DEF WaitFits

LEMMA HandlersWait ==
  ASSUME DispatcherInv, Ordinary, WaitFits, Tick \/ Handlers
  PROVE  WaitFits'
<1>t. TypeOK /\ RowsFit
  BY DEF DispatcherInv
<1>o. op \in [CycIds -> [st: OpStatus, planning: BOOLEAN]]
  BY <1>t DEF TypeOK
<1>1. CASE RecoverDue
  <2>1. PICK c \in CycIds : /\ S!RecoverProvider(c, IF op[c].planning THEN "add_work" ELSE "later")
                            /\ op' = [op EXCEPT ![c] = Call("prepared", op[c].planning)]
    BY <1>1 DEF RecoverDue, SetOp
  <2>2. op'[c].st # "waiting" /\ \A d \in CycIds \ {c} : op'[d] = op[d]
    BY <2>1, <1>o DEF Call
  <2> QED BY <2>1, <2>2, RecoverWaits
<1>2. CASE ResumeClaim
  BY <1>2, StoreWaits DEF ResumeClaim, ledger
<1>3. CASE TickEnqueues \/ Enqueue \/ Continue
  <2>1. QuietStep /\ UNCHANGED op
    BY <1>3, <1>t, QuietSteps DEF TickEnqueues, EnqueueDue, Enqueue, TriggerCycle, RetryAutoCycle,
       RestartAutoSeries, Continue, ledger
  <2> QED BY <2>1, QuietWaits
<1>4. CASE Answer \/ Resume \/ (Pause /\ reg = 0)
  <2>1. run # "waiting_for_provider"
    BY <1>4 DEF Answer, S!AnswerDecision, Resume, Pause
  <2>2. \A d \in CycIds : op'[d] = op[d] \/ op'[d].st # "waiting"
    BY <1>4, <1>o DEF Answer, ledger, Resume, ResumePlain, ResumeAmbiguous, Pause, SetOp, Call
  <2> QED BY <2>1, <2>2 DEF WaitFits
<1>5. CASE Pause /\ reg # 0
  BY <1>5, StoreWaits DEF Pause
<1>6. CASE Cancel \/ CancelReturns
  BY <1>6, <1>t, CanceledWaits, StoreWaits DEF Cancel, CancelReturns, CancelNow, ledger
<1>7. ~Reopen /\ ~RetryTask /\ \A c \in CycIds : ~RetryFreezes(c)
  BY WhatMayHappen DEF Reopen, RetryTask, RetryFreezes, DispatcherInv, RegistryFits
<1> QED BY <1>1, <1>2, <1>3, <1>4, <1>5, <1>6, <1>7 DEF Handlers, Tick

LEMMA StopsWait ==
  ASSUME DispatcherInv, Ordinary, WaitFits, Stops \/ Emergency
  PROVE  WaitFits'
<1>t. TypeOK
  BY DEF DispatcherInv
<1>o. op \in [CycIds -> [st: OpStatus, planning: BOOLEAN]]
  BY <1>t DEF TypeOK
<1>1. CASE Crash /\ UNCHANGED <<store, op>>
  BY <1>1, StoreWaits
<1>2. ASSUME NEW c \in CycIds, CutShort(c) PROVE WaitFits'
  <2>1. task[c] # "none"
    BY <1>2 DEF CutShort
  <2>2. reg = c /\ c # 0
    BY <2>1 DEF DispatcherInv, RegistryFits, CycIds, S!CycIds
  <2>3. \A d \in CycIds : op[d].st # "waiting"
    BY <2>2, WhoWaits
  <2>4. \A d \in CycIds : op'[d] = op[d] \/ op'[d].st # "waiting"
    BY <1>2, <1>o DEF CutShort, SetOp, Call, NoCall
  <2> QED BY <2>3, <2>4 DEF WaitFits
<1>3. ~Shutdown /\ ~CancelRegistered /\ ~Exit
  BY WhatMayHappen DEF Shutdown, CancelRegistered, Exit, DispatcherInv, ServerFits, AtRest, Unrepaired,
    Repaired, AfterCancel
<1>4. CASE EmergencyStop \/ CancelTasks \/ ResumeIntake
  BY <1>4, StoreWaits DEF EmergencyStop, StopWorkers, CancelTasks, ResumeIntake, ledger
<1>5. CASE CancelActive \/ StopAnswers
  BY <1>5, <1>t, CanceledWaits, StoreWaits DEF CancelActive, StopAnswers
<1> QED BY <1>1, <1>2, <1>3, <1>4, <1>5 DEF Stops, Emergency, Crash

LEMMA StartsWait ==
  ASSUME DispatcherInv, Ordinary, WaitFits, Prevented, QuestionsAreSeen, Starts
  PROVE  WaitFits'
<1>t. TypeOK /\ RowsFit
  BY DEF DispatcherInv
<1>o. op \in [CycIds -> [st: OpStatus, planning: BOOLEAN]]
  BY <1>t DEF TypeOK
<1>1. CASE Boot \/ OpsReconciled \/ Serve
  BY <1>1, StoreWaits DEF Boot, OpsReconciled, Serve, ledger
<1>2. CASE InterruptActive
  BY <1>2, StoreWaits DEF InterruptActive, WaitFits
<1>3. ASSUME NEW c \in CycIds, ReconcileOp(c) PROVE WaitFits'
  <2>1. \A d \in CycIds : op'[d] = op[d] \/ op'[d].st # "waiting"
    BY <1>3, <1>o DEF ReconcileOp, SetOp, Call, NoCall
  <2>2. CASE SourceCanceled(c)
    BY <1>3, <2>1, <2>2, StoreWaits DEF ReconcileOp
  <2>3. CASE ~SourceCanceled(c)
    <3>1. op[c].st = "invoking" /\ run # "canceled" /\ cyc[c].status # "canceled"
      BY <1>3, <2>3 DEF ReconcileOp, Unreconciled, SourceCanceled
    <3>2. Dispatching(c)
      BY <3>1 DEF DispatcherInv, OpFits, CallOfCanceled, CallOfLive
    <3>3. \A d \in CycIds : op[d].st # "waiting"
      BY <3>1, <3>2, WhoWaits
    <3> QED BY <2>1, <3>3 DEF WaitFits
  <2> QED BY <2>2, <2>3
<1>4. CASE ReconcileDecisions
  <2>1. CASE UNCHANGED store
    BY <1>4, <2>1, StoreWaits DEF ReconcileDecisions
  <2>2. CASE "wait" \notin Events
    BY <1>4, <2>2 DEF Prevented, WaitFits, ReconcileDecisions
  <2>3. CASE "decide" \notin Events \/ "crash" \notin Events
    <3>1. \A c \in CycIds : dec[c] = "none"
      BY <1>4, <2>3 DEF Prevented, ReconcileDecisions, Phase, AtRest, Repaired, DispatcherInv, Stored!CycleInv,
           Stored!AbsentRowsAreEmpty, CycIds, S!CycIds, Stored!CycIds
    <3>2. S!OpenDecisions(Resumable) = {}
      BY <3>1 DEF S!OpenDecisions, CycIds
    <3> QED BY <1>4, <3>2, <2>1 DEF ReconcileDecisions
  <2> QED BY <2>2, <2>3 DEF QuestionsAreSeen
<1>5. CASE InterruptCycles
  <2>1. ASSUME NEW c \in CycIds, NotResumed(c) PROVE \A d \in CycIds : op[d].st # "waiting"
    BY <2>1, WhoWaits DEF NotResumed
  <2> QED BY <1>5, <2>1, StoreWaits DEF InterruptCycles, WaitFits
<1>6. CASE ReconcileRequests
  <2>0. op' = op
    BY <1>6 DEF ReconcileRequests
  <2>1. ASSUME NEW r \in S!ReqIds, S!RequeueClaim(r) PROVE WaitFits'
    BY <2>0, <2>1, <1>t, QuietSteps, QuietWaits
  <2>2. ASSUME NEW c \in CycIds, S!PauseSeries(c) PROVE WaitFits'
    BY <2>0, <2>2, <1>t, QuietSteps, QuietWaits
  <2>3. ASSUME NEW c \in CycIds, S!SettleCycle(c) PROVE WaitFits'
    BY <2>0, <2>3, <1>t, SettleCycleRows DEF WaitFits, DispatcherInv, Over, S!TerminalCycle
  <2> QED BY <1>6, <2>0, <2>1, <2>2, <2>3, StoreWaits DEF ReconcileRequests
<1>7. CASE BootEnqueues
  <2>1. QuietStep /\ UNCHANGED op
    BY <1>7, <1>t, QuietSteps DEF BootEnqueues, EnqueueDue, ledger
  <2> QED BY <2>1, QuietWaits
<1> QED BY <1>1, <1>2, <1>3, <1>4, <1>5, <1>6, <1>7 DEF Starts

-----------------------------------------------------------------------------
(* Running cycles.                                                         *)

\* Nothing becomes running, and what stays running keeps who runs it.
LEMMA StaysRun ==
  ASSUME RunningFits, server' = server, server \notin {"reconcile_requests", "enqueue_due"},
         \A c \in CycIds : cyc'[c].status = "running" /\ server = "up" =>
           \/ cyc[c].status = "running" /\ (reg = c => reg' = c) /\ (claim = c => claim' = c \/ reg' = c)
                /\ (Told(c) => Told(c)')
           \/ reg' = c \/ claim' = c \/ Told(c)'
  PROVE  RunningFits'
BY DEF RunningFits

LEMMA WorkerRunning ==
  ASSUME DispatcherInv, RunningFits, NEW w \in Workers, Worker(w)
  PROVE  RunningFits'
<1>t. TypeOK /\ RowsFit /\ WorkerFits(w) /\ server' = server
  BY WorkerRuns DEF DispatcherInv
<1>w. /\ wk \in [Workers -> [pc: WorkerPc, cycle: CycIds \cup {0}, news: News]]
      /\ \A v \in Workers : \A row : wk' = [wk EXCEPT ![v] = row] =>
            wk'[v] = row /\ \A u \in Workers \ {v} : wk'[u] = wk[u]
  BY <1>t DEF TypeOK
<1>s. server \in {"up", "halting"}
  BY <1>t DEF Worker, Take, Serving, Create, CreateFails, FreezeFails, Launch, WakeDone, WakeError,
       WakeInterrupted, Wakes, WorkerSettles, WorkerFits, DispatcherInv, ServerFits
<1>c. claim' = claim /\ marks' = marks
  BY DEF Worker, Take, Create, CreateFails, FreezeFails, Launch, WakeDone, WakeError, WakeInterrupted,
       Wakes, WorkerSettles, ToSettle, WorkerMoves, consumers
\* only a worker told of an ambiguous call forgets it
<1>1. ASSUME NEW c \in CycIds, Told(c),
             ~(WakeInterrupted(w) /\ wk[w].cycle = c)
      PROVE  Told(c)'
  <2>1. CASE c \in marks
    BY <1>c, <2>1 DEF Told
  <2>2. CASE c \notin marks
    <3>1. PICK v \in Workers : wk[v].pc = "awaiting" /\ wk[v].cycle = c /\ wk[v].news = "ambiguous"
      BY <1>1, <2>2 DEF Told
    <3>2. v # w
      BY <1>1, <3>1 DEF Worker, Take, Create, CreateFails, FreezeFails, Launch, WakeDone, WakeError, Wakes,
           WorkerSettles, WakeInterrupted
    <3>3. wk'[v] = wk[v]
      BY <1>w, <3>2 DEF Worker, Take, Create, CreateFails, FreezeFails, Launch, WakeDone, WakeError, Wakes,
           WorkerSettles, WakeInterrupted, WorkerMoves, ToSettle, consumers
    <3> QED BY <3>1, <3>3 DEF Told
  <2> QED BY <2>1, <2>2
<1>2. ASSUME NEW c \in CycIds, cyc'[c].status = "running"
      PROVE  cyc[c].status = "running" /\ ~(WakeInterrupted(w) /\ wk[w].cycle = c)
  <2>0. cyc \in [CycIds -> S!CycRow]
    BY <1>t DEF TypeOK, S!TypeOK, CycIds
  <2>1. CASE Take(w) \/ Create(w) \/ CreateFails(w) \/ Launch(w) \/ WakeDone(w) \/ WorkerSettles(w)
    <3>1. cyc' = cyc \/ Create(w)
      BY <2>1 DEF Take, CreateFails, Launch, WakeDone, WorkerSettles, store, S!ClaimNext, S!RequeueClaim,
           OnSettled, S!SettleCycle, S!PauseSeries
    <3>2. Create(w) => cyc[c].status = "running"
      BY <1>2, <2>0 DEF Create, S!CreateCycle, CycIds
    <3>3. ~WakeInterrupted(w)
      BY <2>1 DEF Take, Create, CreateFails, Launch, WakeDone, WorkerSettles, WakeInterrupted, Wakes,
           WorkerFits, AwaitFits
    <3> QED BY <1>2, <3>1, <3>2, <3>3
  <2>2. CASE FreezeFails(w) \/ WakeError(w)
    <3>1. ~WakeInterrupted(w)
      BY <2>2 DEF FreezeFails, WakeError, Wakes, WakeInterrupted
    <3>2. cyc' = cyc \/ cyc' = [cyc EXCEPT ![wk[w].cycle].status = "failed"]
      BY <2>2 DEF FreezeFails, WakeError, store, S!SetCycle, S!SetCycleAndRun
    <3>3. cyc[c].status = "running"
      BY <1>2, <2>0, <3>2 DEF S!CycRow
    <3> QED BY <3>1, <3>3
  <2>3. CASE WakeInterrupted(w)
    <3>1. wk[w].cycle \in CycIds => \/ Over(wk[w].cycle) /\ cyc' = cyc
                                    \/ Parked(wk[w].cycle) /\ cyc' = cyc
                                    \/ S!SetCycle(wk[w].cycle, "interrupted")
      BY <2>3 DEF WakeInterrupted, store
    <3>2. wk[w].cycle \in CycIds
      BY <2>3, <1>t, Fields DEF WakeInterrupted, Wakes, WorkerFits, SectionFits
    <3>3. cyc'[wk[w].cycle].status # "running"
      <4>1. CASE S!SetCycle(wk[w].cycle, "interrupted")
        BY <2>0, <3>2, <4>1 DEF S!SetCycle, S!SetCycleAndRun
      <4> QED BY <3>1, <3>2, <4>1 DEF Over, Parked, S!TerminalCycle
    <3> QED BY <1>2, <2>0, <3>1, <3>2, <3>3 DEF S!SetCycle, S!SetCycleAndRun
  <2> QED BY <2>1, <2>2, <2>3 DEF Worker
<1>3. ASSUME NEW c \in CycIds, reg = c PROVE reg' = c
  <2>1. reg # 0
    BY <1>3, <1>t, Fields
  <2>2. ~Launch(w)
    BY <2>1 DEF Launch, DispatcherInv, BetweenFits, Between, Section
  <2> QED BY <1>3, <2>2 DEF Worker, Take, Create, CreateFails, FreezeFails, WakeDone, WakeError, Wakes,
           WorkerSettles, WakeInterrupted, tasks
<1> QED BY <1>s, <1>t, <1>c, <1>1, <1>2, <1>3, StaysRun

LEMMA MarkerRunning ==
  ASSUME DispatcherInv, RunningFits, NEW c \in CycIds, MarkerInterrupts(c)
  PROVE  RunningFits'
<1>t. cyc \in [CycIds -> S!CycRow]
  BY DEF DispatcherInv, TypeOK, S!TypeOK, CycIds
<1>1. c \in marks /\ UNCHANGED <<wk, server, reg, claim>>
  BY DEF MarkerInterrupts, tasks
<1>2. server \notin {"reconcile_requests", "enqueue_due"}
  BY <1>1 DEF DispatcherInv, MarksFit, AtRest, Repaired
<1>3. CASE (Over(c) \/ Parked(c)) /\ OnSettled(c) /\ marks' = marks \ {c}
  <2>1. cyc' = cyc /\ cyc[c].status # "running"
    BY <1>3, SettlementRuns DEF Over, Parked, S!TerminalCycle
  <2> QED BY <1>1, <1>2, <1>3, <2>1 DEF RunningFits, Told
<1>4. CASE S!SetCycle(c, "interrupted") /\ UNCHANGED marks
  <2>1. \A d \in CycIds : cyc'[d].status = "running" => cyc[d].status = "running"
    BY <1>4, <1>t DEF S!SetCycle, S!SetCycleAndRun
  <2> QED BY <1>1, <1>2, <1>4, <2>1 DEF RunningFits, Told
<1> QED BY <1>3, <1>4 DEF MarkerInterrupts

LEMMA TaskRunning ==
  ASSUME DispatcherInv, Ordinary, WaitFits, RunningFits, NEW c \in CycIds, Task(c)
  PROVE  RunningFits'
<1>t. TypeOK /\ RowsFit /\ c # 0
  BY Fields DEF DispatcherInv
<1>y. cyc \in [CycIds -> S!CycRow]
  BY <1>t DEF TypeOK, S!TypeOK, CycIds
<1>r. reg = c /\ server' = server
  BY DEF Task, StartPlan, ReplayPlan, PlanDone, PlanFails, StartResume, ResumeRefused,
         BackOff, TryAgain, ProviderWaits, ProviderAmbiguous, WorkDefers, WorkAsks, WorkPauses, WorkEnds,
         WorkFails, TaskSettles, CancelDelivered, Runs, DispatcherInv, RegistryFits, DoomedFits
<1>s. server \notin {"reconcile_requests", "enqueue_due"}
  BY <1>r, <1>t DEF DispatcherInv, RestFits, AtRest, Repaired
<1> SUFFICES ASSUME server = "up", NEW d \in CycIds, cyc'[d].status = "running"
             PROVE  reg' = d \/ Told(d)'
  BY <1>r, <1>s DEF RunningFits
<1>f. TaskFits(c) /\ Dispatching(c)
  BY <1>r, <1>t DEF DispatcherInv, RegisteredFits, TaskFits
<1>d. \A e \in CycIds \ {c} : cyc[e].status # "running"
  BY <1>f, <1>t, OneLive
<1>1. CASE StartPlan(c) \/ BackOff(c) \/ TryAgain(c) \/ WorkDefers(c)
  <2>1. reg' = c /\ cyc' = cyc
    BY <1>1, <1>r DEF StartPlan, BackOff, TryAgain, WorkDefers, TaskMoves, tasks, store, S!DeferDecision
  <2> QED BY <2>1, <1>d
<1>2. CASE ReplayPlan(c) \/ PlanDone(c) \/ StartResume(c) \/ WorkAsks(c) \/ WorkEnds(c) \/ WorkFails(c)
  <2>1. reg' = c
    BY <1>2, <1>r DEF ReplayPlan, PlanDone, StartResume, Works, WorkAsks, WorkEnds, WorkFails, TaskMoves
  <2>2. \A e \in CycIds \ {c} : cyc'[e] = cyc[e]
    <3>1. (\E cs, rs : S!SetCycleAndRun(c, cs, rs)) \/ S!PublishDecision(c)
      BY <1>2 DEF ReplayPlan, PlanDone, StartResume, Works, WorkAsks, WorkEnds, WorkFails
    <3> QED BY <3>1, <1>y DEF S!SetCycleAndRun, S!PublishDecision
  <2> QED BY <2>1, <2>2, <1>d
<1>3. CASE PlanFails(c)
  <2>1. cyc' = cyc /\ task[c] = "planning"
    BY <1>3 DEF PlanFails, store, Runs
  <2> QED BY <2>1, <1>d, <1>f DEF TaskFits
<1>4. CASE ResumeRefused(c)
  <2>1. op[c].st = "ambiguous" /\ cyc' = cyc /\ Deliver(c, "ambiguous")
    <3>1. op[c].st # "waiting"
      BY <1>r, <1>t, WhoWaits
    <3> QED BY <1>4, <3>1 DEF ResumeRefused, store, TaskEnds
  <2>2. d = c
    BY <2>1, <1>d
  <2>3. CASE \E w \in Workers : Awaits(w, c)
    <3>1. PICK w \in Workers : Awaits(w, c)
      BY <2>3
    <3>2. wk'[w].pc = "awaiting" /\ wk'[w].cycle = c /\ wk'[w].news = "ambiguous"
      BY <2>1, <3>1, <1>t DEF Deliver, Awaits, TypeOK
    <3> QED BY <2>2, <3>2 DEF Told
  <2>4. CASE ~\E w \in Workers : Awaits(w, c)
    BY <2>1, <2>2, <2>4 DEF Deliver, Told
  <2> QED BY <2>3, <2>4
<1>5. CASE ProviderWaits(c) \/ ProviderAmbiguous(c) \/ WorkPauses(c)
  <2>1. \E cs \in {"waiting_for_provider", "interrupted", "paused"} : \E rs : S!SetCycleAndRun(c, cs, rs)
    BY <1>5 DEF ProviderWaits, ProviderAmbiguous, WorkPauses
  <2>2. cyc'[c].status # "running" /\ \A e \in CycIds \ {c} : cyc'[e] = cyc[e]
    BY <2>1, <1>y DEF S!SetCycleAndRun, S!CycRow
  <2> QED BY <2>2, <1>d
<1>6. CASE TaskSettles(c)
  <2>1. cyc' = cyc /\ task[c] = "ended"
    BY <1>6, SettlementRuns DEF TaskSettles, store
  <2> QED BY <2>1, <1>d, <1>f DEF TaskFits, Over, S!TerminalCycle
<1>7. CASE CancelDelivered(c)
  <2>1. task[c] \in {"planning", "working"}
    BY <1>7 DEF CancelDelivered, DispatcherInv, DoomedFits
  <2>2. CASE task[c] = "planning"
    BY <1>7, <2>2, <1>d, <1>f DEF CancelDelivered, store, TaskFits
  <2>3. CASE task[c] = "working"
    <3>1. cyc'[c].status # "running" /\ \A e \in CycIds \ {c} : cyc'[e] = cyc[e]
      BY <1>7, <2>3, <1>y DEF CancelDelivered, S!SetCycleAndRun, S!CycRow
    <3> QED BY <3>1, <1>d
  <2> QED BY <2>1, <2>2, <2>3
<1> QED BY <1>1, <1>2, <1>3, <1>4, <1>5, <1>6, <1>7 DEF Task

LEMMA HandlersRunning ==
  ASSUME DispatcherInv, Ordinary, RunningFits, Tick \/ Handlers
  PROVE  RunningFits'
<1>t. TypeOK /\ RowsFit
  BY DEF DispatcherInv
<1>y. cyc \in [CycIds -> S!CycRow] /\ 0 \notin CycIds
  BY <1>t, Fields DEF TypeOK, S!TypeOK, CycIds
<1>n. ~Reopen /\ ~RetryTask /\ \A c \in CycIds : ~RetryFreezes(c)
  BY WhatMayHappen DEF Reopen, RetryTask, RetryFreezes, DispatcherInv, RegistryFits
<1>s. server' = server /\ UNCHANGED consumers /\ server \notin {"reconcile_requests", "enqueue_due"}
  BY <1>n, WhatMayHappen DEF Tick, RecoverDue, ResumeClaim, TickEnqueues, Handlers, Enqueue, Continue, Answer, Resume, Pause,
       Cancel, CancelReturns, Serving, Listening, Running, EmergencyPhases
<1>k. \A d \in CycIds : Told(d) => Told(d)'
  BY <1>s DEF consumers, Told
<1> SUFFICES ASSUME server = "up", NEW d \in CycIds, cyc'[d].status = "running"
             PROVE  reg' = d \/ claim' = d \/ Told(d)'
  BY <1>s DEF RunningFits
<1>h. cyc[d].status = "running" => reg = d \/ claim = d \/ Told(d)'
  BY <1>k DEF RunningFits
<1>1. CASE RecoverDue
  <2>1. PICK c \in CycIds : /\ S!RecoverProvider(c, IF op[c].planning THEN "add_work" ELSE "later")
                            /\ claim' = c
    BY <1>1 DEF RecoverDue
  <2>2. Dispatching(c) /\ \A e \in CycIds \ {c} : cyc'[e] = cyc[e]
    BY <2>1, <1>y DEF S!RecoverProvider, S!SetCycleAndRun, Dispatching
  <2>3. d = c
    BY <2>2, <1>t, OneLive
  <2> QED BY <2>1, <2>3
<1>2. CASE ResumeClaim
  <2>1. cyc' = cyc /\ claim # 0
    BY <1>2 DEF ResumeClaim, store
  <2>2. CASE op[claim].st = "none"
    <3>1. cyc[claim].status # "running" /\ reg' = reg
      BY <1>2, <2>1, <2>2 DEF ResumeClaim, tasks, DispatcherInv, ClaimFits, Over, S!TerminalCycle
    <3> QED BY <1>h, <2>1, <3>1
  <2>3. CASE op[claim].st # "none"
    <3>1. reg = 0 /\ reg' = claim
      BY <1>2, <2>1, <2>3 DEF ResumeClaim, Schedule, DispatcherInv, ClaimFits
    <3> QED BY <1>h, <1>y, <2>1, <3>1
  <2> QED BY <2>2, <2>3
<1>3. CASE TickEnqueues \/ Enqueue \/ Continue \/ Pause
  <2>1. cyc' = cyc /\ UNCHANGED <<reg, claim>>
    BY <1>3, <1>t, QuietSteps DEF TickEnqueues, EnqueueDue, Enqueue, TriggerCycle, RetryAutoCycle,
       RestartAutoSeries, Continue, QuietStep, tasks, Pause, S!SetRun, store
  <2> QED BY <1>h, <2>1
<1>4. CASE Answer
  <2>1. PICK c \in CycIds : S!AnswerDecision(c) /\ Schedule(c, "resume_due")
    BY <1>4 DEF Answer
  <2>2. reg' = c /\ reg = 0 /\ claim' = claim /\ \A e \in CycIds \ {c} : cyc'[e] = cyc[e]
    BY <1>4, <2>1 DEF Answer, Schedule, S!AnswerDecision
  <2> QED BY <1>h, <1>y, <2>2
<1>5. CASE Resume
  <2>1. reg = 0 /\ claim' = claim
    BY <1>5 DEF Resume
  <2>2. CASE ResumePlain
    BY <1>h, <1>y, <2>1, <2>2 DEF ResumePlain, store
  <2>3. CASE ResumeAmbiguous
    <3>1. PICK c \in CycIds : /\ S!RecoverProvider(c, IF op[c].planning THEN "add_work" ELSE "later")
                              /\ reg' = c
      BY <2>3 DEF ResumeAmbiguous, Schedule
    <3>2. Dispatching(c) /\ \A e \in CycIds \ {c} : cyc'[e] = cyc[e]
      BY <3>1, <1>y DEF S!RecoverProvider, S!SetCycleAndRun, Dispatching
    <3>3. d = c
      BY <3>2, <1>t, OneLive
    <3> QED BY <3>1, <3>3
  <2> QED BY <1>5, <2>2, <2>3 DEF Resume
<1>6. CASE Cancel \/ CancelReturns
  <2>1. CASE S!CancelRun
    <3>1. cyc'[d].status # "running"
      BY <2>1, <1>y, <1>t DEF S!CancelRun, S!CanceledWithRun, RowsFit, S!CycRow, CycIds
    <3> QED BY <3>1
  <2>2. CASE UNCHANGED <<store, reg, claim>>
    BY <1>h, <2>2 DEF store
  <2> QED BY <1>6, <2>1, <2>2 DEF Cancel, CancelReturns, CancelNow, CancelWithCalls, tasks
<1> QED BY <1>n, <1>1, <1>2, <1>3, <1>4, <1>5, <1>6 DEF Handlers, Tick

LEMMA StopsRunning ==
  ASSUME DispatcherInv, Ordinary, RunningFits, Stops \/ Emergency
  PROVE  RunningFits'
<1>1. CASE Crash
  BY <1>1 DEF Crash, ProcessEnds, RunningFits
<1>2. ~Shutdown /\ ~CancelRegistered /\ ~Exit
  BY WhatMayHappen DEF Shutdown, CancelRegistered, Exit, DispatcherInv, ServerFits, AtRest, Unrepaired,
    Repaired, AfterCancel
<1>3. CASE EmergencyStop \/ CancelActive \/ CancelTasks \/ StopAnswers
  BY <1>3 DEF EmergencyStop, CancelActive, CancelTasks, StopAnswers, RunningFits
<1>4. CASE ResumeIntake
  <2>1. server = "halted" /\ server' = "up" /\ cyc' = cyc
    BY <1>4 DEF ResumeIntake, store
  <2>2. \A c \in CycIds : ~Dispatching(c)
    BY <2>1, Fields DEF DispatcherInv, StoppedFits, AfterCancel, HasActiveWork, S!Live, Dispatching
  <2>3. \A c \in CycIds : cyc[c].status # "running"
    BY <2>2, OneLive DEF DispatcherInv
  <2> QED BY <2>1, <2>3 DEF RunningFits
<1> QED BY <1>1, <1>2, <1>3, <1>4 DEF Stops, Emergency

LEMMA StartsRunning ==
  ASSUME DispatcherInv, Ordinary, RunningFits, Starts
  PROVE  RunningFits'
<1>t. TypeOK /\ RowsFit /\ RunFits
  BY DEF DispatcherInv
<1>y. cyc \in [CycIds -> S!CycRow]
  BY <1>t DEF TypeOK, S!TypeOK, CycIds
<1>1. CASE Boot \/ InterruptActive \/ (\E c \in CycIds : ReconcileOp(c)) \/ OpsReconciled \/ ReconcileDecisions
  BY <1>1 DEF Boot, InterruptActive, ReconcileOp, OpsReconciled, ReconcileDecisions, Phase, RunningFits
<1>2. CASE InterruptCycles
  <2>1. server' = "reconcile_requests" /\ op' = op
    BY <1>2 DEF InterruptCycles, Phase
  <2>2. CASE \E c \in CycIds : NotResumed(c) /\ S!SetCycle(c, "interrupted")
    <3>1. PICK c \in CycIds : Dispatching(c) /\ S!SetCycle(c, "interrupted")
      BY <2>2 DEF NotResumed
    <3>2. cyc'[c].status # "running" /\ \A e \in CycIds \ {c} : cyc'[e] = cyc[e]
      BY <3>1, <1>y DEF S!SetCycle, S!SetCycleAndRun, S!CycRow
    <3>3. \A e \in CycIds \ {c} : cyc[e].status # "running"
      BY <3>1, <1>t, OneLive
    <3> QED BY <2>1, <3>2, <3>3 DEF RunningFits
  <2>3. CASE ~(\E c \in CycIds : NotResumed(c)) /\ UNCHANGED store
    <3>1. \A c \in CycIds : cyc[c].status = "running" => c \in Resumable
      BY <2>3, <1>t, OneLive DEF NotResumed
    <3> QED BY <2>1, <2>3, <3>1 DEF RunningFits, Resumable, store
  <2> QED BY <1>2, <2>2, <2>3 DEF InterruptCycles
<1>3. CASE ReconcileRequests
  <2>1. cyc' = cyc /\ op' = op /\ server = "reconcile_requests" /\ server' = "enqueue_due"
    BY <1>3 DEF ReconcileRequests, Phase, S!RequeueClaim, S!SettleCycle, S!PauseSeries, store
  <2> QED BY <2>1 DEF RunningFits, Resumable
<1>4. CASE BootEnqueues
  <2>1. cyc' = cyc /\ op' = op /\ server = "enqueue_due" /\ server' = server
    BY <1>4 DEF BootEnqueues, EnqueueDue, S!EnqueueDue, S!EndDueSeries, ledger
  <2> QED BY <2>1 DEF RunningFits, Resumable
<1>5. CASE Serve
  <2>1. cyc' = cyc /\ server = "enqueue_due" /\ server' = "up"
    BY <1>5 DEF Serve, store
  <2>2. ASSUME NEW c \in CycIds, cyc[c].status = "running" PROVE reg' = c
    <3>1. c \in Resumable /\ Dispatching(c)
      BY <2>1, <2>2, <1>t, OneLive DEF RunningFits
    <3>2. reg' \in Resumable
      BY <1>5, <3>1 DEF Serve
    <3>3. reg' \in CycIds /\ Dispatching(reg')
      BY <2>1, <3>2 DEF Resumable, DispatcherInv, OpFits, CallOfCanceled, CallOfLive, Unrepaired
    <3> QED BY <3>1, <3>3, <1>t, OneLive
  <2> QED BY <2>1, <2>2 DEF RunningFits
<1> QED BY <1>1, <1>2, <1>3, <1>4, <1>5 DEF Starts

\* What needs an event does not come about without it.
LEMMA PreventedCalls ==
  ASSUME DispatcherInv, Ordinary, "wait" \notin Events, \A c \in CycIds : op[c].st # "waiting", [Next]_vars
  PROVE  \A c \in CycIds : op'[c].st # "waiting"
<1>o. op \in [CycIds -> [st: OpStatus, planning: BOOLEAN]]
  BY DEF DispatcherInv, TypeOK
<1> SUFFICES ASSUME NEW c \in CycIds PROVE op'[c] = op[c] \/ op'[c].st # "waiting"
  OBVIOUS
<1>1. ASSUME NEW w \in Workers, Worker(w) PROVE op' = op
  BY <1>1 DEF Worker, Take, Create, CreateFails, FreezeFails, Launch, WakeDone, WakeError, WakeInterrupted,
       Wakes, WorkerSettles, OnSettled, ledger
<1>2. ASSUME NEW d \in CycIds, Task(d) \/ MarkerInterrupts(d) PROVE op'[c] = op[c] \/ op'[c].st # "waiting"
  BY <1>2, <1>o, WhatMayHappen DEF Task, StartPlan, ReplayPlan, PlanDone, PlanFails, StartResume, ResumeRefused,
         BackOff, TryAgain, ProviderWaits, May, ProviderAmbiguous, WorkDefers, WorkAsks, WorkPauses, WorkEnds,
         WorkFails, TaskSettles, CancelDelivered, Works, SetOp, Call, NoCall, LeftOpen, ledger, OnSettled,
         MarkerInterrupts
<1>3. CASE Tick \/ Handlers
  BY <1>3, <1>o DEF Tick, RecoverDue, ResumeClaim, TickEnqueues, Handlers, Enqueue, Continue, Answer, Resume,
       ResumePlain, ResumeAmbiguous, Pause, Cancel, CancelReturns, CancelNow, CancelWithCalls, Reopen, RetryTask,
       RetryFreezes, ledger, SetOp, Call, NoCall
<1>4. CASE Stops \/ Emergency
  <2>1. ~Shutdown /\ ~CancelRegistered /\ ~Exit
    BY WhatMayHappen DEF Shutdown, CancelRegistered, Exit, DispatcherInv, ServerFits, AtRest, Unrepaired,
      Repaired, AfterCancel
  <2>2. ASSUME NEW d \in CycIds, CutShort(d) PROVE op'[c] = op[c] \/ op'[c].st # "waiting"
    <3> QED BY <2>2, <1>o DEF CutShort, SetOp, Call, NoCall
  <2>3. CASE Emergency
    BY <2>3 DEF Emergency, EmergencyStop, StopWorkers, CancelActive, CancelTasks, StopAnswers, ResumeIntake,
         CancelWithCalls, ledger, NoCall
  <2> QED BY <1>4, <2>1, <2>2, <2>3 DEF Stops, Crash
<1>5. CASE Starts
  <2>1. ASSUME NEW d \in CycIds, ReconcileOp(d) PROVE op'[c] = op[c] \/ op'[c].st # "waiting"
    BY <2>1, <1>o DEF ReconcileOp, SetOp, Call, NoCall
  <2> QED BY <1>5, <2>1 DEF Starts, Boot, InterruptActive, OpsReconciled, ReconcileDecisions, InterruptCycles,
       ReconcileRequests, BootEnqueues, Serve, ledger
<1>6. UNCHANGED vars => op' = op
  BY DEF vars, ledger
<1> QED BY <1>1, <1>2, <1>3, <1>4, <1>5, <1>6 DEF Next

LEMMA PreventedQuestions ==
  ASSUME DispatcherInv, Ordinary, "decide" \notin Events, \A c \in CycIds : dec[c] = "none", [Next]_vars
  PROVE  \A c \in CycIds : dec'[c] = "none"
<1>y. dec \in [CycIds -> S!DecisionStatus] /\ CycIds = S!CycIds
  BY DEF DispatcherInv, TypeOK, S!TypeOK, CycIds
<1> SUFFICES ASSUME NEW c \in CycIds PROVE dec'[c] = "none"
  OBVIOUS
<1>1. ASSUME NEW w \in Workers, Worker(w) PROVE dec' = dec
  BY <1>1, SettlementRuns DEF Worker, Take, Create, CreateFails, FreezeFails, Launch, WakeDone, WakeError, WakeInterrupted,
       Wakes, WorkerSettles, OnSettled, store, S!ClaimNext, S!CreateCycle, S!RequeueClaim, S!SetCycle, S!SetCycleAndRun,
       S!SettleCycle, S!PauseSeries
<1>2. ASSUME NEW d \in CycIds, Task(d) \/ MarkerInterrupts(d) PROVE dec' = dec
  BY <1>2, SettlementRuns DEF Task, StartPlan, ReplayPlan, PlanDone, PlanFails, StartResume, ResumeRefused,
         BackOff, TryAgain, ProviderWaits, May, ProviderAmbiguous, WorkDefers, WorkAsks, WorkPauses, WorkEnds,
         WorkFails, TaskSettles, CancelDelivered, Works, store, S!SetCycleAndRun, S!SetCycle, S!PublishDecision,
         S!CanPublish, MarkerInterrupts
<1>3. CASE Tick \/ Handlers
  <2>1. CASE RecoverDue \/ ResumeClaim \/ TickEnqueues \/ Enqueue \/ Continue
    BY <2>1, <1>y DEF RecoverDue, ResumeClaim, TickEnqueues, EnqueueDue, Enqueue, TriggerCycle, RetryAutoCycle,
       RestartAutoSeries, Continue, store, S!RecoverProvider, S!SetCycleAndRun, S!EnqueueDue, S!EndDueSeries,
       S!EnqueueTriggered, S!CreateAutoSeries, S!RetryFailed, S!RestartSeries, S!StartSeries, S!ContinueFailed
  <2>2. CASE Answer \/ Resume \/ Pause \/ Cancel \/ CancelReturns
    BY <2>2, <1>y DEF Answer, S!AnswerDecision, Resume, ResumePlain, ResumeAmbiguous, Pause, Cancel, CancelReturns,
       CancelNow, CancelWithCalls, S!CancelRun, S!RecoverProvider, S!SetCycleAndRun, S!SetRun, store
  <2>3. ~Reopen /\ ~RetryTask /\ \A d \in CycIds : ~RetryFreezes(d)
    BY WhatMayHappen DEF Reopen, RetryTask, RetryFreezes, DispatcherInv, RegistryFits
  <2> QED BY <1>3, <2>1, <2>2, <2>3 DEF Tick, Handlers
<1>4. CASE Stops \/ Emergency
  <2>1. ~Shutdown /\ ~CancelRegistered /\ ~Exit
    BY WhatMayHappen DEF Shutdown, CancelRegistered, Exit, DispatcherInv, ServerFits, AtRest, Unrepaired,
      Repaired, AfterCancel
  <2> QED BY <1>4, <1>y, <2>1 DEF Stops, Crash, CutShort, Emergency, EmergencyStop, StopWorkers,
       CancelActive, CancelTasks, StopAnswers, ResumeIntake, CancelWithCalls, store, S!CancelRun, S!SetCycle,
       S!SetCycleAndRun, S!SetRun
<1>5. CASE Starts
  <2>1. CASE ReconcileDecisions
    <3>1. S!OpenDecisions(Resumable) = {}
      BY <1>y DEF S!OpenDecisions
    <3> QED BY <2>1, <3>1 DEF ReconcileDecisions, store
  <2>2. CASE ~ReconcileDecisions
    BY <1>5, <2>2, <1>y DEF Starts, Boot, InterruptActive, ReconcileOp, OpsReconciled, InterruptCycles,
       ReconcileRequests, BootEnqueues, EnqueueDue, Serve, store, S!InterruptRun, S!SetCycle, S!SetCycleAndRun,
       S!RequeueClaim, S!SettleCycle, S!PauseSeries, S!EnqueueDue, S!EndDueSeries
  <2> QED BY <2>1, <2>2
<1>6. UNCHANGED vars => dec' = dec
  BY DEF vars, store
<1> QED BY <1>1, <1>2, <1>3, <1>4, <1>5, <1>6 DEF Next

LEMMA PreventedCycles ==
  ASSUME DispatcherInv, Ordinary, "crash" \notin Events, [Next]_vars, server' \in AtRest,
         server \in AtRest => \A c \in CycIds : cyc[c].status = "absent"
  PROVE  \A c \in CycIds : cyc'[c].status = "absent"
<1>t. TypeOK /\ RowsFit /\ ServerFits /\ RestFits /\ MarksFit /\ RegistryFits /\ DoomedFits
  BY DEF DispatcherInv
<1>a. server' = server /\ UNCHANGED store => \A c \in CycIds : cyc'[c].status = "absent"
  BY DEF store
<1>1. ASSUME NEW w \in Workers, Worker(w) PROVE FALSE
  <2>1. server' = server
    BY <1>1 DEF Worker, Take, Create, CreateFails, FreezeFails, Launch, WakeDone, WakeError, WakeInterrupted,
         Wakes, WorkerSettles, WorkerMoves
  <2>2. wk[w].pc = "off"
    BY <2>1 DEF DispatcherInv, WorkerFits
  <2> QED BY <1>1, <2>2 DEF Worker, Take, Create, CreateFails, FreezeFails, Launch, WakeDone, WakeError,
       WakeInterrupted, Wakes, WorkerSettles
<1>2. ASSUME NEW c \in CycIds, Task(c) PROVE FALSE
  <2>1. server' = server
    BY <1>2 DEF Task, StartPlan, ReplayPlan, PlanDone, PlanFails, StartResume, ResumeRefused,
         BackOff, TryAgain, ProviderWaits, ProviderAmbiguous, WorkDefers, WorkAsks, WorkPauses, WorkEnds,
         WorkFails, TaskSettles, CancelDelivered, Runs
  <2>2. reg = c /\ c # 0
    BY <1>2, <1>t, Fields DEF Task, StartPlan, ReplayPlan, PlanDone, PlanFails, StartResume, ResumeRefused,
         BackOff, TryAgain, ProviderWaits, ProviderAmbiguous, WorkDefers, WorkAsks, WorkPauses, WorkEnds,
         WorkFails, TaskSettles, CancelDelivered, Runs, RegistryFits, DoomedFits
  <2> QED BY <1>t, <2>1, <2>2 DEF RestFits
<1>3. ASSUME NEW c \in CycIds, MarkerInterrupts(c) PROVE FALSE
  BY <1>3, <1>t DEF MarkerInterrupts, MarksFit
<1>4. CASE Tick \/ Handlers
  <2>1. Running \cap AtRest = {}
    BY DEF Running, EmergencyPhases, AtRest, Unrepaired, Repaired
  <2>2. CASE RecoverDue \/ Continue
    BY <2>2 DEF RecoverDue, Continue, AtRest, Unrepaired, Repaired
  <2>3. CASE ResumeClaim \/ TickEnqueues \/ Enqueue \/ Answer \/ Resume \/ Pause \/ Cancel \/ CancelReturns
    BY <2>1, <2>3 DEF ResumeClaim, TickEnqueues, Enqueue, Answer, Resume, Pause, Cancel, CancelReturns, Serving,
         Listening
  <2>4. ~Reopen /\ ~RetryTask /\ \A c \in CycIds : ~RetryFreezes(c)
    BY <1>t, WhatMayHappen DEF Reopen, RetryTask, RetryFreezes, RegistryFits
  <2> QED BY <1>4, <2>2, <2>3, <2>4 DEF Tick, Handlers
<1>5. CASE Stops \/ Emergency
  <2>1. ~Shutdown /\ ~CancelRegistered /\ ~Exit /\ ~Crash
    BY WhatMayHappen, <1>t DEF Shutdown, CancelRegistered, Exit, ServerFits, AtRest, Unrepaired,
      Repaired, AfterCancel, Crash, May
  <2>2. server' \notin AtRest
    BY <1>5, <2>1 DEF Stops, Emergency, EmergencyStop, CancelActive, CancelTasks, StopAnswers, ResumeIntake,
         AtRest, Unrepaired, Repaired
  <2> QED BY <2>2
<1>6. CASE Starts
  <2>1. \A c \in CycIds : cyc[c].status = "absent" /\ cyc[c].request = 0 /\ dec[c] = "none"
    <3>1. server \in AtRest
      BY <1>6 DEF Starts, Boot, InterruptActive, ReconcileOp, OpsReconciled, ReconcileDecisions, InterruptCycles,
           ReconcileRequests, BootEnqueues, Serve, Phase, AtRest, Unrepaired, Repaired
    <3> QED BY <3>1 DEF DispatcherInv, Stored!CycleInv, Stored!AbsentRowsAreEmpty, CycIds, S!CycIds, Stored!CycIds
  <2>2. ASSUME NEW c \in CycIds, ReconcileOp(c) PROVE FALSE
    BY <2>1, <2>2 DEF ReconcileOp, Unreconciled, DispatcherInv, OpFits, CallOfCanceled, CallOfLive, Dispatching, Over
  <2>3. CASE InterruptActive
    <3>1. \A c \in CycIds : cyc'[c] = cyc[c]
      BY <2>1, <2>3 DEF InterruptActive, S!InterruptRun, S!InterruptedCycle, store, CycIds
    <3> QED BY <2>1, <3>1
  <2>4. CASE ReconcileDecisions
    <3>1. S!OpenDecisions(Resumable) = {}
      BY <2>1 DEF S!OpenDecisions, CycIds
    <3> QED BY <2>1, <2>4, <3>1 DEF ReconcileDecisions, store
  <2>5. CASE InterruptCycles
    <3>1. \A c \in CycIds : ~NotResumed(c)
      BY <2>1 DEF NotResumed
    <3> QED BY <2>1, <2>5, <3>1 DEF InterruptCycles, store
  <2>6. CASE Boot \/ OpsReconciled \/ ReconcileRequests \/ BootEnqueues \/ Serve
    BY <2>1, <2>6 DEF Boot, OpsReconciled, ReconcileRequests, BootEnqueues, EnqueueDue, Serve, store,
         S!RequeueClaim, S!SettleCycle, S!PauseSeries, S!EnqueueDue, S!EndDueSeries
  <2> QED BY <1>6, <2>2, <2>3, <2>4, <2>5, <2>6 DEF Starts
<1>7. UNCHANGED vars => \A c \in CycIds : cyc'[c].status = "absent"
  BY <1>a DEF vars
<1> QED BY <1>1, <1>2, <1>3, <1>4, <1>5, <1>6, <1>7 DEF Next

\* No cycle that the tables call running is left without a task, a claim or an interruption
\* that is on its way, and no call that waits for its provider is missed by the tick
\* (_execute_claim, interrupt_cycles, recover_due): across crashes and restarts, cancellations,
\* emergency stops and answers, unless a crash finds both a deferred question and such a call.
THEOREM NoCycleStaysStranded ==
  Ordinary /\ QuestionsAreSeen => (Spec => []NoCycleIsStranded)
<1> SUFFICES ASSUME Ordinary, QuestionsAreSeen PROVE Spec => []NoCycleIsStranded
  OBVIOUS
<1>1. Init => Prevented /\ WaitFits /\ RunningFits
  <2>1. Init => \A c \in CycIds : cyc[c].status = "absent" /\ op[c].st = "none" /\ dec[c] = "none"
    BY DEF Init, S!Init, S!AbsentCyc, NoCall, CycIds
  <2> QED BY <2>1 DEF Prevented, WaitFits, RunningFits
<1>2. DispatcherInv /\ Prevented /\ [Next]_vars => Prevented'
  BY PreventedCalls, PreventedQuestions, PreventedCycles DEF Prevented
<1>3. DispatcherInv /\ Prevented /\ WaitFits /\ [Next]_vars => WaitFits'
  <2>1. UNCHANGED vars /\ DispatcherInv /\ WaitFits => WaitFits'
    BY StoreWaits DEF vars, ledger
  <2> QED BY <2>1, WorkerWaits, MarkerWaits, TaskWaits, HandlersWait, StopsWait, StartsWait DEF Next
<1>4. DispatcherInv /\ WaitFits /\ RunningFits /\ [Next]_vars => RunningFits'
  <2>1. UNCHANGED vars /\ RunningFits => RunningFits'
    BY QuietRuns DEF vars, store, ledger, consumers, tasks
  <2> QED BY <2>1, WorkerRunning, MarkerRunning, TaskRunning, HandlersRunning, StopsRunning, StartsRunning DEF Next
<1>5. DispatcherInv /\ WaitFits /\ RunningFits => NoCycleIsStranded
  <2>1. WaitFits => WaitingIsPolled
    BY DEF WaitFits, WaitingIsPolled
  <2>2. DispatcherInv /\ RunningFits => RunningIsRun
    <3> SUFFICES ASSUME DispatcherInv, RunningFits, Serving, NEW c \in CycIds, cyc[c].status = "running"
                 PROVE  task[c] # "none" \/ claim = c
      BY DEF RunningIsRun
    <3>1. ~Told(c)
      BY DEF Told, Serving, Listening, Quiet
    <3> QED BY <3>1 DEF RunningFits, Serving, DispatcherInv, RegistryFits
  <2> QED BY <2>1, <2>2 DEF NoCycleIsStranded
<1> QED BY <1>1, <1>2, <1>3, <1>4, <1>5, Invariance, PTL DEF Spec

=============================================================================
