------------------------------ MODULE CycleStore ------------------------------
(***************************************************************************)
(* The persistent half of the continuous team run: the SQL transactions of *)
(* team_cycles.py (TeamCycleService) and the cycle, run and decision       *)
(* writes of teams.py (TeamRunService), for ONE continuous run.            *)
(*                                                                         *)
(* A run owns cycle requests (a FIFO), cycles (at most one per request) and *)
(* AUTO series (a budget of slots, each consumed by one request).  Every   *)
(* service method is one `begin immediate` transaction, so every operator  *)
(* below is one atomic step.  Its guard is what the method checks before   *)
(* it writes; a method that raises changes nothing and is no step.         *)
(*                                                                         *)
(* Rows are kept in arrays of bounded length; "absent" is a row not yet    *)
(* inserted and 0 is SQL's null.  Row numbers follow insertion order, which *)
(* is what created_at/rowid and sequence order by.  Not kept: instruction  *)
(* texts, summaries, timestamps (a due series may be found due by any tick) *)
(* and the client's source ids (a repeated id returns the stored row).     *)
(* The run statuses planning, running and summarizing are one status       *)
(* "running": no transaction here tells them apart.                        *)
(***************************************************************************)
EXTENDS Naturals, FiniteSets

CONSTANTS
  MaxRequests,  \* rows of team_cycle_requests
  MaxCycles,    \* rows of team_run_cycles
  MaxSeries,    \* rows of team_run_auto_series
  Targets,      \* target_slots a user may ask for
  Policy,       \* team_runs.execution_policy
  HasGoal       \* whether team_runs.goal is a non-empty text

ASSUME RowBounds == MaxRequests \in Nat /\ MaxCycles \in Nat /\ MaxSeries \in Nat
ASSUME TargetsArePositive == Targets \subseteq Nat \ {0}
ASSUME PolicyIsKnown == Policy \in {"auto", "triggered"} /\ HasGoal \in BOOLEAN

VARIABLES
  run,  \* team_runs.status
  req,  \* team_cycle_requests
  cyc,  \* team_run_cycles
  ser,  \* team_run_auto_series
  dec   \* the open decision request of each cycle, if any

store == <<run, req, cyc, ser, dec>>

ReqIds == 1..MaxRequests
CycIds == 1..MaxCycles
SerIds == 1..MaxSeries

RunStatus == {"draft", "running", "waiting_for_user", "waiting_for_provider", "paused",
              "interrupted", "blocked", "completed", "completed_with_failures", "failed",
              "canceled"}
TerminalRun == {"completed", "completed_with_failures", "failed", "blocked", "canceled"}

ReqStatus == {"queued", "dispatching", "settled", "canceled"}
Live == {"queued", "dispatching"}

TerminalCycle == {"completed", "completed_with_failures", "blocked", "failed", "canceled"}
SettledCycle == {"completed", "completed_with_failures"}
FailedCycle == {"failed", "blocked"}
CycleStatus == {"queued", "running", "waiting_for_user", "waiting_for_provider", "paused",
                "interrupted"} \cup TerminalCycle

ActiveSeries == {"running", "waiting_interval", "paused_failure", "paused_user",
                 "paused_interrupted"}
SeriesStatus == ActiveSeries \cup {"auto_completed", "canceled"}

\* a resolved or canceled decision request is closed, as good as none
DecisionStatus == {"none", "collecting", "awaiting_user"}

AbsentReq == [status |-> "absent", series |-> 0, slot |-> 0, retryOf |-> 0]
AbsentCyc == [status |-> "absent", request |-> 0]
AbsentSer == [status |-> "absent", target |-> 0, settled |-> 0, pausedCycle |-> 0]

ReqRow == [status: ReqStatus \cup {"absent"}, series: SerIds \cup {0}, slot: Nat,
           retryOf: ReqIds \cup {0}]
CycRow == [status: CycleStatus \cup {"absent"}, request: ReqIds \cup {0}]
SerRow == [status: SeriesStatus \cup {"absent"}, target: Nat, settled: Nat,
           pausedCycle: CycIds \cup {0}]

TypeOK ==
  /\ run \in RunStatus
  /\ req \in [ReqIds -> ReqRow]
  /\ cyc \in [CycIds -> CycRow]
  /\ ser \in [SerIds -> SerRow]
  /\ dec \in [CycIds -> DecisionStatus]

Init ==
  /\ run = "draft"
  /\ req = [r \in ReqIds |-> AbsentReq]
  /\ cyc = [c \in CycIds |-> AbsentCyc]
  /\ ser = [s \in SerIds |-> AbsentSer]
  /\ dec = [c \in CycIds |-> "none"]

-----------------------------------------------------------------------------
(* Queries. *)

\* k is the row the next insert into `table` gets.
NextRow(table, k) ==
  /\ table[k].status = "absent"
  /\ \A i \in DOMAIN table : i < k => table[i].status # "absent"

AnyClaim == TRUE  \* mutant of NoneDispatching

NoneDispatching == \A r \in ReqIds : req[r].status # "dispatching"

YoungestQueued(r) ==  \* mutant of OldestQueued
  req[r].status = "queued" /\ \A q \in ReqIds : r < q => req[q].status # "queued"

OldestQueued(r) ==
  req[r].status = "queued" /\ \A q \in ReqIds : q < r => req[q].status # "queued"

CycleOf(r) == {c \in CycIds : cyc[c].status # "absent" /\ cyc[c].request = r}

NoActiveSeries == \A s \in SerIds : ser[s].status \notin ActiveSeries

\* the series with the largest series_number
LatestSeries(s) ==
  ser[s].status # "absent" /\ \A t \in SerIds : t > s => ser[t].status = "absent"

\* p is the run's last final cycle, 0 if it has none.
LatestFinalCycle(p) ==
  \/ p = 0 /\ \A c \in CycIds : cyc[c].status \notin TerminalCycle
  \/ /\ p \in CycIds /\ cyc[p].status \in TerminalCycle
     /\ \A c \in CycIds : c > p => cyc[c].status \notin TerminalCycle

\* TeamCycleService._queue_ready over the requests `q`
QueueReady(q) ==
  /\ \E r \in ReqIds : q[r].status = "queued"
  /\ \A r \in ReqIds : q[r].status # "dispatching"

-----------------------------------------------------------------------------
(* Enqueueing: _enqueue_request and the methods that end in it. *)

Insert(r, series, slot, retryOf) ==
  /\ NextRow(req, r)
  /\ req' = [req EXCEPT ![r] = [status |-> "queued", series |-> series,
                                slot |-> slot, retryOf |-> retryOf]]

\* manual, hook, knowledge_request and contest sources
EnqueueTriggered(r) ==
  /\ run # "canceled" /\ Policy = "triggered"
  /\ Insert(r, 0, 0, 0)
  /\ UNCHANGED <<run, cyc, ser, dec>>

\* initialize_auto_series: the series and its first slot in one transaction
StartSeries(s, r, target) ==
  /\ NoActiveSeries
  /\ NextRow(ser, s)
  /\ ser' = [ser EXCEPT ![s] = [status |-> "running", target |-> target,
                                settled |-> 0, pausedCycle |-> 0]]
  /\ Insert(r, s, 1, 0)
  /\ UNCHANGED <<run, cyc, dec>>

CreateAutoSeries(s, r, target) ==
  /\ run # "canceled" /\ target \in Targets
  /\ StartSeries(s, r, target)

RestartSeries(s, r) ==
  /\ run # "canceled" /\ Policy = "auto" /\ HasGoal
  /\ \E last \in SerIds : /\ LatestSeries(last)
                          /\ ser[last].status = "auto_completed"
                          /\ StartSeries(s, r, ser[last].target)

\* CONTINUE and the settlement of a finished cycle consume one slot.
SlotSettled(row) ==
  [row EXCEPT !.status = IF row.settled + 1 >= row.target THEN "auto_completed"
                                                          ELSE "waiting_interval",
              !.settled = @ + 1, !.pausedCycle = 0]

ContinuePaused(s) ==  \* mutant of ContinueFailed: any pause but the user's
  /\ ser[s].status \in {"paused_failure", "paused_interrupted"}
  /\ ser' = [ser EXCEPT ![s] = SlotSettled(@)]
  /\ UNCHANGED <<run, req, cyc, dec>>

ContinueFailed(s) ==
  /\ ser[s].status = "paused_failure"
  /\ ser' = [ser EXCEPT ![s] = SlotSettled(@)]
  /\ UNCHANGED <<run, req, cyc, dec>>

\* Only a cycle that is `failed` can be retried: the lineage check of
\* _enqueue_request rejects a `blocked` one.
Retriable(c) == cyc[c].status = "failed"

RetryFailed(s, r) ==
  /\ run # "canceled"
  /\ ser[s].status = "paused_failure"
  /\ ser[s].pausedCycle # 0
  /\ LET old == cyc[ser[s].pausedCycle].request
     IN /\ Retriable(ser[s].pausedCycle) /\ old # 0
        /\ req[old].series = s /\ req[old].status = "settled"
        /\ req[old].slot = ser[s].settled + 1 /\ req[old].slot <= ser[s].target
        /\ Insert(r, s, req[old].slot, old)
  /\ ser' = [ser EXCEPT ![s].status = "running", ![s].pausedCycle = 0]
  /\ UNCHANGED <<run, cyc, dec>>

\* enqueue_due_auto_requests for a due series.  `proposed` says whether the
\* lead of the last final cycle left a next_cycle proposal.
HasInstruction(proposed) ==
  \E p \in CycIds \cup {0} :
    /\ LatestFinalCycle(p)
    /\ \/ p # 0 /\ proposed
       \/ (p = 0 \/ cyc[p].status \in FailedCycle) /\ HasGoal

LeadIsDone(proposed) ==
  ~proposed /\ \E p \in CycIds : LatestFinalCycle(p) /\ cyc[p].status \notin FailedCycle

SlotTaken(s) == \E q \in ReqIds : req[q].series = s /\ req[q].slot = ser[s].settled + 1

EnqueueDue(s, r, proposed) ==
  /\ run # "canceled" /\ ser[s].status = "waiting_interval"
  /\ HasInstruction(proposed)
  /\ ~SlotTaken(s) /\ ser[s].settled + 1 <= ser[s].target
  /\ Insert(r, s, ser[s].settled + 1, 0)
  /\ ser' = [ser EXCEPT ![s].status = "running"]
  /\ UNCHANGED <<run, cyc, dec>>

\* No proposal after a cycle that ended well: the series ends early.
EndDueSeries(s) ==
  /\ run # "canceled" /\ ser[s].status = "waiting_interval"
  /\ LeadIsDone(FALSE)
  /\ ser' = [ser EXCEPT ![s].status = "auto_completed", ![s].pausedCycle = 0]
  /\ UNCHANGED <<run, req, cyc, dec>>
-----------------------------------------------------------------------------
(* Claiming a request and opening its cycle. *)

\* claim_next: the oldest queued request, and only when none is dispatching
ClaimNext(r) ==
  /\ run # "canceled"
  /\ NoneDispatching
  /\ OldestQueued(r)
  /\ req' = [req EXCEPT ![r].status = "dispatching"]
  /\ UNCHANGED <<run, cyc, ser, dec>>

RequeueClaim(r) ==
  /\ req[r].status = "dispatching" /\ CycleOf(r) = {}
  /\ req' = [req EXCEPT ![r].status = "queued"]
  /\ UNCHANGED <<run, cyc, ser, dec>>

CreateCycle(c, r) ==
  /\ req[r].status = "dispatching" /\ CycleOf(r) = {}
  /\ NextRow(cyc, c)
  /\ cyc' = [cyc EXCEPT ![c] = [status |-> "queued", request |-> r]]
  /\ UNCHANGED <<run, req, ser, dec>>

-----------------------------------------------------------------------------
(* Settlement: settle_cycle, which pause_for_user and pause_interrupted    *)
(* share their branches with.                                              *)

\* _pause_cycle: the request stays dispatching and blocks the FIFO.
PauseSeries(c) ==
  LET r == cyc[c].request
      s == req[r].series
  IN /\ r # 0
     /\ cyc[c].status \in {"waiting_for_user", "interrupted"}
     /\ req[r].status = "dispatching"
     /\ ser' = IF s = 0 THEN ser
               ELSE [ser EXCEPT ![s].status = IF cyc[c].status = "interrupted"
                                              THEN "paused_interrupted" ELSE "paused_user",
                                ![s].pausedCycle = c]
     /\ UNCHANGED <<run, req, cyc, dec>>

\* A canceled cycle cancels its request and its series; blocked and failed
\* ones pause the series without consuming the slot.
SeriesAfterIgnored(row, c) ==  \* mutant of SeriesAfter: a failure is not recorded
  CASE cyc[c].status \in SettledCycle -> SlotSettled(row)
    [] cyc[c].status \in FailedCycle  -> row
    [] OTHER -> [row EXCEPT !.status = "canceled", !.pausedCycle = c]

SeriesAfter(row, c) ==
  CASE cyc[c].status \in SettledCycle -> SlotSettled(row)
    [] cyc[c].status \in FailedCycle  -> [row EXCEPT !.status = "paused_failure",
                                                     !.pausedCycle = c]
    [] OTHER -> [row EXCEPT !.status = "canceled", !.pausedCycle = c]

SettleCycle(c) ==
  LET r == cyc[c].request
      s == req[r].series
  IN /\ r # 0
     /\ cyc[c].status \in TerminalCycle
     /\ req[r].status = "dispatching"
     /\ req' = [req EXCEPT ![r].status = IF cyc[c].status = "canceled"
                                         THEN "canceled" ELSE "settled"]
     /\ ser' = IF s = 0 THEN ser ELSE [ser EXCEPT ![s] = SeriesAfter(@, c)]
     /\ UNCHANGED <<run, cyc, dec>>

-----------------------------------------------------------------------------
(* Cancellation of the run: cancel_run and cancel_all_active.  A `paused`  *)
(* cycle and a cycle without a request keep their status.                  *)

AllCycles == CycleStatus  \* mutant of CanceledWithRun

CanceledWithRun == {"queued", "running", "waiting_for_user", "waiting_for_provider",
                    "interrupted"}

CancelRun ==
  /\ req' = [r \in ReqIds |-> IF req[r].status \in Live
                              THEN [req[r] EXCEPT !.status = "canceled"] ELSE req[r]]
  /\ cyc' = [c \in CycIds |-> IF cyc[c].request # 0 /\ cyc[c].status \in CanceledWithRun
                              THEN [cyc[c] EXCEPT !.status = "canceled"] ELSE cyc[c]]
  /\ ser' = [s \in SerIds |-> IF ser[s].status \in ActiveSeries
                              THEN [ser[s] EXCEPT !.status = "canceled"] ELSE ser[s]]
  /\ dec' = [c \in CycIds |-> IF dec[c] = "awaiting_user" THEN "none" ELSE dec[c]]
  /\ run' = IF run \in {"completed", "completed_with_failures", "failed"}
            THEN run ELSE "canceled"

\* POST /reopen: set_run_status(canceled -> interrupted)
ReopenRun ==
  /\ run = "canceled"
  /\ run' = "interrupted"
  /\ UNCHANGED <<req, cyc, ser, dec>>

-----------------------------------------------------------------------------
(* What the runtime writes for the cycle it executes.  set_cycle_status    *)
(* and set_run_status are unconditional updates: the guards of these steps *)
(* are their callers'.                                                     *)

SetBothAlike(c, cycleStatus, runStatus) ==  \* mutant of SetCycleAndRun
  /\ cyc' = [cyc EXCEPT ![c].status = cycleStatus]
  /\ run' = cycleStatus
  /\ UNCHANGED <<req, ser, dec>>

SetCycleAndRun(c, cycleStatus, runStatus) ==
  /\ cyc' = [cyc EXCEPT ![c].status = cycleStatus]
  /\ run' = runStatus
  /\ UNCHANGED <<req, ser, dec>>

SetCycle(c, cycleStatus) == SetCycleAndRun(c, cycleStatus, run)

SetRun(runStatus) ==
  /\ run' = runStatus
  /\ UNCHANGED <<req, cyc, ser, dec>>

\* defer_task_for_user_decision and defer_run_for_user_decision
DeferDecision(c) ==
  /\ dec[c] # "awaiting_user"
  /\ dec' = [dec EXCEPT ![c] = "collecting"]
  /\ UNCHANGED <<run, req, cyc, ser>>

PublishAny(c) ==  \* mutant of CanPublish: the series is not looked at
  dec[c] = "collecting" /\ run = "running" /\ cyc[c].status = "running"

\* publish_decision_request refuses unless the series, when there is one,
\* is in one of these (_set_decision_series_state).
CanPublish(c) ==
  LET r == cyc[c].request
  IN /\ dec[c] = "collecting" /\ run = "running" /\ cyc[c].status = "running"
     /\ (r # 0 /\ req[r].series # 0) =>
          ser[req[r].series].status \in {"running", "waiting_interval", "paused_user"}

SeriesOf(c) == IF cyc[c].request = 0 THEN 0 ELSE req[cyc[c].request].series

PublishDecision(c) ==
  /\ CanPublish(c)
  /\ dec' = [dec EXCEPT ![c] = "awaiting_user"]
  /\ run' = "waiting_for_user"
  /\ cyc' = [cyc EXCEPT ![c].status = "waiting_for_user"]
  /\ ser' = IF SeriesOf(c) = 0 THEN ser
            ELSE [ser EXCEPT ![SeriesOf(c)].status = "paused_user",
                             ![SeriesOf(c)].pausedCycle = c]
  /\ UNCHANGED req

AnswerDecision(c) ==
  /\ dec[c] = "awaiting_user" /\ run = "waiting_for_user"
  /\ cyc[c].status = "waiting_for_user"
  /\ SeriesOf(c) # 0 => ser[SeriesOf(c)].status = "paused_user"
  /\ dec' = [dec EXCEPT ![c] = "none"]
  /\ run' = "running"
  /\ cyc' = [cyc EXCEPT ![c].status = "running"]
  /\ ser' = IF SeriesOf(c) = 0 THEN ser
            ELSE [ser EXCEPT ![SeriesOf(c)].status = "running",
                             ![SeriesOf(c)].pausedCycle = 0]
  /\ UNCHANGED req

\* reconcile_lifecycle at startup.  Every open decision outside `protected`
\* is published again and its run, cycle and series are put back on it.
OpenDecisions(protected) ==
  {c \in CycIds \ protected : dec[c] \in {"collecting", "awaiting_user"}}

\* the cycle a series ends up paused on: the last one the loop visits
LastOpenOf(s, open) ==
  {c \in open : SeriesOf(c) = s /\ \A d \in open : SeriesOf(d) = s => d <= c}

ReconcileLifecycle(protected) ==
  LET open == OpenDecisions(protected)
  IN /\ open # {}
     /\ dec' = [c \in CycIds |-> IF c \in open THEN "awaiting_user" ELSE dec[c]]
     /\ run' = IF run \in TerminalRun THEN run ELSE "waiting_for_user"
     /\ cyc' = [c \in CycIds |-> IF c \in open /\ cyc[c].status \notin TerminalCycle
                                 THEN [cyc[c] EXCEPT !.status = "waiting_for_user"]
                                 ELSE cyc[c]]
     /\ ser' = [s \in SerIds |->
                 IF ser[s].status \in ActiveSeries /\ LastOpenOf(s, open) # {}
                 THEN [ser[s] EXCEPT !.status = "paused_user",
                         !.pausedCycle = CHOOSE c \in LastOpenOf(s, open) : TRUE]
                 ELSE ser[s]]
     /\ UNCHANGED req

-----------------------------------------------------------------------------
(* Interruption and task retry. *)

\* interrupt_run picks the oldest cycle in one of the statuses.
InterruptedCycle(statuses, c) ==
  /\ cyc[c].status \in statuses
  /\ \A d \in CycIds : d < c => cyc[d].status \notin statuses

InterruptRun(includeCanceled) ==
  LET also == IF includeCanceled THEN {"canceled"} ELSE {}
      hit(c) == InterruptedCycle({"running"} \cup also, c)
  IN /\ run \in {"running", "waiting_for_provider"} \cup also
     /\ run' = "interrupted"
     /\ cyc' = [c \in CycIds |-> IF hit(c) THEN [cyc[c] EXCEPT !.status = "interrupted"]
                                           ELSE cyc[c]]
     /\ UNCHANGED <<req, ser, dec>>

\* retry_failed_task opens a cycle of its own, with no request behind it.
RetryFailedTask(c) ==
  /\ run \in {"completed_with_failures", "failed"}
  /\ NextRow(cyc, c)
  /\ cyc' = [cyc EXCEPT ![c] = [status |-> "interrupted", request |-> 0]]
  /\ run' = "interrupted"
  /\ UNCHANGED <<req, ser, dec>>

-----------------------------------------------------------------------------
(* The store under any client that writes a cycle's status only along this *)
(* table: the callers' side of set_cycle_status.                           *)

Executable == {"queued", "running", "interrupted", "paused"}

\* Each pair of writes below is two updates; a crash may leave only the
\* first of them.
Activate(c) ==
  /\ cyc[c].status \in Executable
  /\ \E runStatus \in {run, "running"} : SetCycleAndRun(c, "running", runStatus)

\* the end of a cycle that ran
Finish(c, status) ==
  /\ cyc[c].status = "running" /\ status \in TerminalCycle
  /\ \E cycleStatus \in {"running", status} : SetCycleAndRun(c, cycleStatus, status)

PauseCycle(c) == cyc[c].status = "running" /\ SetCycleAndRun(c, "paused", "paused")

\* POST /pause for a run without a task; also what a crash may leave of PauseCycle
PauseRun == run = "running" /\ SetRun("paused")

\* a cycle that could not be prepared or planned: only its own status
FailUnstarted(c) == cyc[c].status \in {"queued", "interrupted"} /\ SetCycle(c, "failed")

\* _interrupt_cycle and the startup sweep over dispatching requests
Interrupt(c) ==
  /\ cyc[c].status \in {"queued", "running", "waiting_for_provider"}
  /\ SetCycle(c, "interrupted")

\* _interrupt_ambiguous
InterruptAmbiguous(c) ==
  /\ cyc[c].status \in {"queued", "running", "interrupted"}
  /\ SetCycleAndRun(c, "interrupted", "interrupted")

\* wait_for_operation insists on a dispatching request.
WaitForProvider(c) ==
  /\ cyc[c].status \in {"queued", "running"} /\ run # "canceled"
  /\ cyc[c].request # 0 /\ req[cyc[c].request].status = "dispatching"
  /\ SetCycleAndRun(c, "waiting_for_provider", "waiting_for_provider")

\* _restore_operation_source, for claim_operation and prepare_explicit_resume:
\* back to add-work (a draft run and a queued cycle) or to a later stage
RecoverProvider(c, stage) ==
  /\ cyc[c].status = run /\ run \in {"waiting_for_provider", "interrupted"}
  /\ cyc[c].request # 0 /\ req[cyc[c].request].status = "dispatching"
  /\ \/ stage = "add_work" /\ SetCycleAndRun(c, "queued", "draft")
     \/ stage = "later" /\ SetCycleAndRun(c, "running", "running")

Requests ==
  \E r \in ReqIds :
    \/ EnqueueTriggered(r)
    \/ ClaimNext(r)
    \/ RequeueClaim(r)
    \/ \E s \in SerIds : \/ \E t \in Targets : CreateAutoSeries(s, r, t)
                         \/ RestartSeries(s, r)
                         \/ RetryFailed(s, r)
                         \/ \E proposed \in BOOLEAN : EnqueueDue(s, r, proposed)
    \/ \E c \in CycIds : CreateCycle(c, r)

Series == \E s \in SerIds : ContinueFailed(s) \/ EndDueSeries(s)

Cycles ==
  \E c \in CycIds :
    \/ SettleCycle(c) \/ PauseSeries(c)
    \/ Activate(c) \/ FailUnstarted(c) \/ PauseCycle(c)
    \/ \E status \in TerminalCycle : Finish(c, status)
    \/ Interrupt(c) \/ InterruptAmbiguous(c)
    \/ WaitForProvider(c) \/ \E stage \in {"add_work", "later"} : RecoverProvider(c, stage)
    \/ cyc[c].status = "running" /\ DeferDecision(c)
    \/ PublishDecision(c) \/ AnswerDecision(c)
    \/ RetryFailedTask(c)

Runs ==
  \/ CancelRun
  \/ ReopenRun
  \/ PauseRun
  \/ \E includeCanceled \in BOOLEAN : InterruptRun(includeCanceled)
  \/ \E protected \in SUBSET CycIds : ReconcileLifecycle(protected)

Next == Requests \/ Series \/ Cycles \/ Runs

Spec == Init /\ [][Next]_store

-----------------------------------------------------------------------------
(* Properties. *)

\* claim_next and the partial unique index on dispatching requests: however
\* claims, requeues, settlements and cancellations interleave, a run never
\* has two requests in the hands of workers.
OneDispatching ==
  \A r, q \in ReqIds :
    req[r].status = "dispatching" /\ req[q].status = "dispatching" => r = q

\* The FIFO survives requeue_claim: the request being dispatched is older
\* than every request still queued.
NoOvertaking ==
  \A r, q \in ReqIds :
    req[r].status = "dispatching" /\ req[q].status = "queued" => r < q

\* Rows are inserted in order and never deleted.
RowsArePrefix ==
  \A r, q \in ReqIds : r < q /\ req[r].status = "absent" => req[q].status = "absent"

LiveOf(s) == {r \in ReqIds : req[r].series = s /\ req[r].status \in Live}

\* A live request of a series is its only one, stands for the series' next
\* slot, and its series is neither waiting, paused on a failure, nor over.
\* So neither the interval tick nor RETRY nor CONTINUE can run a slot twice.
LiveRequestOwnsNextSlot ==
  \A s \in SerIds : \A r \in LiveOf(s) :
    /\ LiveOf(s) = {r}
    /\ req[r].slot = ser[s].settled + 1 /\ req[r].slot <= ser[s].target
    /\ ser[s].status \in {"running", "paused_user", "paused_interrupted"}

\* A series that says it is running, or paused on an interruption, still has
\* the request that will move it on.
RunningSeriesHasRequest ==
  \A s \in SerIds : ser[s].status \in {"running", "paused_interrupted"} => LiveOf(s) # {}

\* Two requests for one slot only exist when the older one's cycle failed:
\* RETRY never repeats work that succeeded, and CONTINUE never leaves a slot
\* for the tick to enqueue again.
SlotRepeatedOnlyAfterFailure ==
  \A r, q \in ReqIds :
    r < q /\ req[r].series # 0 /\ req[r].series = req[q].series /\ req[r].slot = req[q].slot
      => \E c \in CycleOf(r) : cyc[c].status = "failed"

\* The slot counter is exact: CONTINUE, RETRY, the interval tick and a late
\* settlement neither run a slot twice nor repeat work that succeeded.
SlotsAreExact == LiveRequestOwnsNextSlot /\ SlotRepeatedOnlyAfterFailure

\* A series paused on a failure points at a failed or blocked cycle of its
\* next slot whose request was settled: what RETRY and CONTINUE act on.
FailurePauseIsActionable ==
  \A s \in SerIds : ser[s].status = "paused_failure" =>
    LET c == ser[s].pausedCycle
    IN /\ c # 0 /\ cyc[c].status \in FailedCycle /\ SeriesOf(c) = s
       /\ req[cyc[c].request].status = "settled"
       /\ req[cyc[c].request].slot = ser[s].settled + 1

\* No series is stuck: one that goes on has the request that moves it, one that
\* failed has what the user's RETRY or CONTINUE need.
SeriesIsActionable == RunningSeriesHasRequest /\ FailurePauseIsActionable

\* An ended series is never brought back by a late pause, decision, retry,
\* tick or startup repair.
EndedSeriesStaysEnded ==
  [][\A s \in SerIds : ser[s].status \in {"auto_completed", "canceled"} =>
        ser'[s] = ser[s]]_store

\* A settled request keeps its outcome: its cycle is over and is not revived,
\* neither by a resume, a shutdown nor a cancellation.
SettledWorkIsFinal ==
  [][\A r \in ReqIds : req[r].status = "settled" =>
        /\ req'[r] = req[r]
        /\ \A c \in CycleOf(r) : cyc'[c] = cyc[c] /\ cyc[c].status \in TerminalCycle]_store
=============================================================================
