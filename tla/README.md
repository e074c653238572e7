# Personal Agent Gateway: TLA+ models

The Personal Agent Gateway is a FastAPI back end (`src/src/personal_agent_gateway/`,
about 47,000 lines of Python) with a React front end. It runs *teams* of model-driven
agents for a user. A **continuous team run** is the long-lived unit of that work: users,
hooks and an interval timer put *cycle requests* in its queue, a dispatcher turns each
request into a *cycle*, the team runtime plans and executes the cycle with model calls,
and the outcome settles the request and, for an automatic run, one *slot* of its
*AUTO series*. Beside it are *hooks* (mails that start agents or cycles), *chat sessions*,
and the *jobs* and *schedules* by which the gateway runs local commands. Everything is
persisted in SQLite, so work outlives crashes and restarts of the gateway. The hard part of
the program is that these rows are written from many places (workers, scheduled tasks, HTTP
handlers, timers, threads, start-up repairs) and must stay consistent with each other and
with what really runs in the process.

## Inventory

Paths are below `src/src/personal_agent_gateway/`.

| Component | State it keeps | Operations | What makes it correct |
|---|---|---|---|
| Continuous-run store: `team_cycles.py`, `teams.py` | tables `team_runs`, `team_cycle_requests`, `team_run_cycles`, `team_run_auto_series`, `team_decision_requests` | enqueue, claim, create cycle, settle, pause, continue, retry, restart, cancel, reopen, interrupt, defer / publish / answer a question, start-up repair | one dispatching request per run, FIFO, a slot is consumed once and only by a cycle that ended well or by the user's CONTINUE, ended series and settled requests stay as they are |
| Dispatcher: `team_cycle_dispatcher.py`, `team_run_orchestrator.py`, `team_cycle_loop.py`, `run_state.py` | wakeup queue, workers, scheduled tasks, task registry | `run_one`, observers, markers of resumed tasks, tick, start, stop | one execution per run, no lost wakeup, the registry holds what runs, stop and cancel end |
| Planning: `team_runtime.py`, `team_plan_negotiation.py`, `team_repair_stages.py` | tasks, plan revisions and reviews | plan, add work, adjudicate an objection, review, replan | what is executed was approved; every interruption can be taken up; it ends |
| Task execution: `team_runtime.py`, `team_model_effects.py`, `teams.py` | tasks, outcomes, budgets, questions | worker call, query, mediation, acceptance, repair, synthesis | a completed task earned it, budgets are counted, prerequisites are done, it ends |
| Provider recovery: `team_provider_recovery.py` | recovery metadata of a cycle and a call | wait, claim, interrupt, explicit resume, start-up reconciliation | a waiting call is polled until taken up again; an ambiguous one is never repeated without the user |
| Operation ledger: `team_model_operations.py`, `team_model_invoker.py`, `team_collaboration_service.py` | operation rows, baselines, notes bound to a call | reserve, attempt, complete, retry, wait, fail, apply | one open call, one application per call, the same question when it is asked again |
| Lifecycle rules: `team_lifecycle.py` | none (pure) | task transitions, dependency and cycle dispositions | a disposition exists for every reachable task set |
| Job queue: `jobs.py`, `job_worker.py` | jobs, approvals, one worker and its queue | create, approve, deny, run, cancel, retry, recover | a command runs at most once and not undecided; what ran or waited is recovered |
| Schedules: `schedules.py`, `scheduler_loop.py` | schedules with next run | tick, run now, pause, resume | an occurrence creates one job; a queued job reaches the worker |
| Hooks: `hooks.py`, `hook_runs.py`, `hook_runner.py`, `hook_loop.py` | cursors, hook runs linked to cycles, one worker and its queue | poll, run now, prepare, settle, reconcile, cancel | each event handled once; a hook run and its cycle agree on the outcome |
| Emergency stop: `emergency_stop.py`, `intake.py` | the intake gate | stop, resume | nothing starts while stopped; everything active is cancelled |
| Chat sessions: `runtime.py`, `approval.py`, `transcript.py`, `chat_turns.py`, `run_state.py` | transcripts, session list, registry, shell requests | turn, approve, deny, interrupt, delete, rename, activate | one turn per session; a command runs as decided; the list shows the transcript |
| HTTP API and lifespan: `api/*.py`, `app.py` | none of its own | guards, then calls of the services; ordered start and stop | a handler's guard still holds when it writes |
| Files and catalogues: deliveries, artifacts, archive, personas, rules, workspaces, auth, runners, clients | files and single-row tables | create, read, update | data transformations with little state |

Interaction: handlers, workers, tasks, markers and the ticks run on **one asyncio loop** and
interleave at awaits; synchronous handlers, hook polls and the provider poll run in
**threads**. All of them meet in the SQLite tables, whose service methods are single
transactions. Tasks report to workers by their result or exception, to the store and to the
hook runner through observers (`on_team_run_settled`), and to the handlers through
registries. On start the lifespan repairs the tables in several passes before it serves
(`interrupt_active_runs`, `reconcile_startup`, `reconcile_lifecycle`, the sweep,
`TeamCycleService.reconcile`, the hook runs, the jobs); on stop it cancels workers, then
registered tasks, then interrupts runs.

Hard behaviours, all listed in `PROJECT.json` under `hazards` with the line where they
bite: two writers of a status that is not checked; a crash between two updates that belong
together; recovered calls claimed in a thread and resumed later on the loop; wakeups that
are put only by some paths; a graceful stop that looks like a cancellation; start-up passes
that each see half of the picture; counters and budgets moved by several replayed
operations; a model call whose answer is known but not applied; notes bound to a call before
the call exists; polls of one source in two threads; a command that runs before its result
is written.

## Modules

| Module | Models |
|---|---|
| `CycleStore` | The transactions of the continuous-run store for one run, one atomic step each, and the most general client of that store |
| `CycleDispatcher` | A process (or a sequence of processes) executing one run over `CycleStore` (INSTANCE), and the part of an emergency stop that concerns it; implements `CycleStore!Spec` |
| `CyclePlan` | How one cycle comes by its tasks: planning, added work, objections, plan reviews and replans |
| `TaskExecution` | How one cycle executes its tasks and sums them up; implements `ModelCalls!Spec` |
| `Lifecycle` | The pure rules of `team_lifecycle.py`, used by `TaskExecution` |
| `OperationLedger` | The rows of the model calls of one cycle, statement by statement; implements `ModelCalls!Spec` |
| `ModelCalls` | Abstract specification: what the ledger promises of a call |
| `CallStatus` | The statuses of a call's row and the abstract stage each stands for |
| `JobQueue` | Jobs, schedules, the worker and the job part of an emergency stop |
| `HookRunner` | Polls, hook runs, their worker and cycles, and the hook part of an emergency stop |
| `ChatSession` | Turns, shell requests, the session list, and the chat part of an emergency stop |
| `MCCycleDispatcher`, `MCHookRunner` | Worker symmetry and the arrivals of a small instance for TLC |
| `CycleStoreProofs`, `OperationLedgerProofs`, `JobQueueProofs`, `HookRunnerProofs`, `ChatSessionProofs`, `TaskExecutionProofs`, `CyclePlanProofs`, `CycleDispatcherProofs` | Theorems checked by TLAPS |

How they fit: `CycleDispatcher` has who runs and who writes the tables, with the model calls
of a cycle reduced to one, repeated, with a nondeterministic result. `CyclePlan` and
`TaskExecution` open that box for one cycle, with the schedulers reduced to one coroutine:
first the tasks come to be, then they are executed. `OperationLedger` opens the calls of
which both are made. `HookRunner` takes the cycle as `CycleDispatcher` has it, a status that
moves on its own, and models who tells the hook run. Jobs and chat sessions meet the rest
only in the intake gate and the emergency stop, whose part over each component is in the
module of that component.

### CycleStore

`run`, `req`, `cyc`, `ser` and `dec` are `team_runs.status`, the request, cycle and series
rows of the run and the open question of each cycle. Rows live in arrays of bounded length:
row numbers follow insertion order, which is what the code sorts by; `absent` is a row not
yet inserted. Instruction texts, summaries, time and source ids are dropped; a due series
may be found due by any tick, and the lead's proposal for the next cycle is a Boolean
choice. `planning`, `running` and `summarizing` are one run status.

Each operator is one service method, with the method's checks as guard; a method that
raises is no step. `set_cycle_status` and `set_run_status` are unconditional updates in the
code; `SetCycleAndRun`, `SetCycle` and `SetRun` are, too. What keeps them sane is their
callers, so `CycleStore!Next` writes down **the callers' side** as a table of transitions
(`Activate`, `Finish`, `Interrupt`, `WaitForProvider`, ...): this `Spec` is the abstract
specification of what any part of the program may do to the tables. `CycleDispatcher` calls
the unchecked updates directly and is then shown to implement `CycleStore!Spec`
(`Implements`), so the table is a checked promise and no assumption.

### CycleDispatcher

| Variable | In the code |
|---|---|
| `op` | the open row of `team_model_operations` of a cycle and whether it is an add-work stage |
| `pause` | `team_runs.pause_requested_at` |
| `server` | the phase of `app.py`'s lifespan |
| `tokens` | entries of the dispatcher's `asyncio.Queue` |
| `wk` | the worker coroutines: where in `run_one` they are, and the outcome of the task they await |
| `task`, `doomed`, `reg` | tasks of `TeamRunOrchestrator._schedule`, those whose `cancel()` was called, the one `TeamRunRegistry` holds |
| `claim` | a recovery claimed by the tick's thread and not yet resumed on the loop |
| `waiter` | the cycle whose end `POST /cancel` awaits |
| `marks` | `_consume_operation_marker` coroutines with an ambiguous outcome |

The actions follow the code's sections between two awaits: `Take`, `Create`, `CreateFails`,
`FreezeFails`, `Launch`, `Wake...`, `WorkerSettles` are `run_one`; `StartPlan` ...
`CancelDelivered` are a task; `Tick` the loop; `Handlers` the endpoints; `Boot` ... `Serve`
the start; `Shutdown`, `CancelRegistered`, `Exit` the graceful stop; `Crash` the other way
to go down. `EmergencyStop`, `CancelActive`, `CancelTasks`, `StopAnswers` are
`EmergencyStopService.stop` between its awaits (loop and workers, tables, chat sessions,
registered tasks), and `ResumeIntake` starts the workers again. Sections with two
transactions are two actions, and `LoopFree` says that no section is in its middle, so that
no other coroutine sees it but a crash, and a thread, does. `CutShort` adds the crashes
between two updates *within* an action.

`Events` selects, per run of the checker, which users' and failures' actions exist, so that
each question gets a state space of its own.

### CyclePlan

| Variable | In the code |
|---|---|
| `run`, `cycle`, `request` | their statuses |
| `ops` | the cycle's operations, keyed by stage and ordinal as in `_operation_key`; a review by revision and reviewer, a replan by the revision it replaces |
| `tasks`, `revs` | task rows in order of creation; `team_plan_revisions` with their tasks and reviews |
| `asked` | the decision raised for the verdict `ask_back` |
| `pc`, `call`, `entry` | the coroutine: `start` / `resume`, `add_work`, `adjudicate_contest`, and the call it makes |

Each step is one transaction. `Restart` is `reconcile_startup` and the continuation it picks
for the open call, `Reclaim` the provider poll or the user's explicit resume, `Park`,
`Ambiguous` and `Crash` may come between any two steps.

### OperationLedger

| Variable | In the code |
|---|---|
| `ops` | rows of `team_model_operations`: status, attempts, the prompt's digest (what it was computed from), the stored answer |
| `baselines` | the recorded workspace baseline of a call |
| `deliveries`, `notes` | `team_collaboration_deliveries` and the messages they point to |
| `files` | the workspace, as the number of changes it has seen |
| `tasks`, `source`, `request` | task rows, run and cycle (which move together here), the request |

A call goes through `Radio` (`_with_radio`, `open_delivery`), `Reserve`, `Baseline`,
`BeginAttempt`, `Complete` / `MarkFailed` / `PrepareRetry` / `WaitForOperation` /
`Ambiguous`, `ApplyOutcome`, `StoreMentions`: one action per statement that commits on its
own. Cancel, crash, `Restart`, the claim of the poll and the explicit resume are what can
happen in between.

### TaskExecution and Lifecycle

| Variable | In the code |
|---|---|
| `plan` | the tasks' dependencies and which are required, any plan that parses |
| `ops` | as above; `about` is what the call's messages depend on |
| `tasks`, `attempts`, `stored` | task status, `acceptance_recovery_attempts`, the operation whose outcome and acceptance the task holds |
| `rounds`, `reinv` | `rounds_used` of the cycle, reinvocations of the worker |
| `request`, `items`, `resolved` | the collected or published decision request and its items |
| `left` | tasks whose worker left a file in the workspace that the contract lacks |

The coroutine walks the loop (`RecoverOpen`, `Chain`, `StartTask`, `LeaveLoop`), a call
(`Invoke`, `Complete`, `Repair`, ...), the effect of its answer (`Apply...`, `...AsksUser`)
and the end (`SettleQuestions`, `SkipDependents`, `Settle`, `Synthesize`). What an
acceptance check concludes from the files is part of the nondeterministic answer: `plain`
(accepted), `extra` (an undeclared file), rejected, `lost` (not an outcome).

### JobQueue

| Variable | In the code |
|---|---|
| `status`, `guarded`, `approval` | `jobs.status`, whether `jobs.approval_id` is set, `approvals.status` |
| `origin`, `starts` | history: the schedule, occurrence and process a tick made the job for; how often its runner was started |
| `sched`, `nextRun`, `clock` | `schedules.enabled` or no row, `next_run_at`, the time |
| `queue`, `worker` | `JobWorker._queue`, and what `_task` is doing |
| `loop` | the coroutine that is between two statements, with its job, the due schedules it still has to serve and the jobs it has still to enqueue |
| `deny` | the thread that serves `POST /deny` |
| `gate`, `stop` | `IntakeGate._open`; how far an emergency stop is, and the jobs it has listed |
| `stray` | queued jobs that a failed tick did not enqueue |
| `server` | whether a process runs, and how many there were |

`JobService` and `ScheduleService` have no transactions: each statement commits by itself.
A method with two statements is therefore two actions, and `loop` says which method is in
its middle. An `async` handler, the worker and the scheduler do not await between their
statements, so nothing else on the event loop runs until `loop` is `Free`; a crash, and the
handlers that FastAPI runs in a thread (deny; pause, resume, delete of a schedule) do.
`Tick`, `TickCreates`, `InsertApproval`, `TickMoves` and `TickFails` are one call of
`SchedulerLoop.tick`; `WorkerTakes`, `WorkerStarts`, `RunnerEnds`, `WorkerSettles` one round
of the worker; `StopCloses`, `StopCancels`, `WorkerCancelled`, `StopDrains`,
`StopCancelsJob`, `StopEnds` one emergency stop; `Start`, `Crash`, `Shutdown` the process.
A schedule in `Broken` names a capability that the registry does not have any more, one in
`Guarded` a capability that requires approval. A unit of `clock` is one occurrence of every
cron expression. A query `order by created_at` or `next_run_at` may return ties in any order.

### HookRunner

A run is named by its event, `<<hook, number>>`: the table is unique in hook and dedup key.
`hook`, `cursor`, `status`, `links` are the rows; `team` and `target` the request, cycle and
team run behind a run; `polls` the two threads that poll (the loop's tick and
`POST /run-now`), each between reading the cursor, recording the events and writing the
cursor; `queue` and `worker` the consumer; `loop` the section of the event loop that is
between two transactions; `gate` and `stop` the intake and the stop. Start-up is four passes
(`StartCycles`, `RecoverRuns`, `ReconcileLinked`, `StartWorker`). `stray` and `late` are
ghosts that name exceptions of the properties: runs nobody enqueues before the next start,
and runs a poll in flight recorded after the intake was closed.

### ChatSession

`file` is the transcript, reduced to what is decided from it: whether it is there, whether
its last event is an error, which shell request it leaves unresolved. `row` is its line in the
session list, `active` the file `active.json`, `requests` the turns and approved commands
under way with their `chat_turns` rows, `registry` and `tasks` the two dictionaries of
`SessionRunRegistry`, `deletion`, `rename` and `activate` the handlers that run in threads,
one action per write. A turn gives up the event loop only while its runtime is built and
while the model answers, so everything between is one action; a crash may come between the
run of a command and the write of its result.

### Assumptions

* A `begin immediate` transaction of SQLite is atomic and durable.
* One thread serves `POST /deny` at a time, and `POST /resume-intake` comes after the answer
  of the stop (`JobQueue`, `HookRunner`; see the code at `emergency_stop.py:163`).
* The event loop's ready queue is FIFO. `Serving` of `CycleDispatcher` therefore lets a
  handler run only after what a task's end woke has run, and after the first step of tasks
  scheduled before. The second half leaves out one race: a cancel that is ready in the *same*
  pass of the loop as the handler that schedules a task cancels it before its first step;
  `run_and_finish` then never reaches its `finally`, and the registry keeps the dead task.
* Tasks are worked off one by one (`team_concurrent_workers_enabled` is off by default), so a
  cycle has at most one open operation. The schema allows siblings for concurrent tasks
  (`migrations.py:1062`).
* The workspace does not change between an effect and its replay after a crash
  (`TaskExecution`; `OperationLedger` lets it change).
* The time between retries of a waiting provider, whether the provider is ready, and whether
  the answer of a model parses, are nondeterministic.

## Runs

Every run passes. `TypeOK` is checked for `CycleStore` and `JobQueue`; that of `TaskExecution`,
`HookRunner` and `ChatSession` is proved (the latter two in their proof modules), that of the
others is there for the reader.

| Run | Instance | Shows |
|---|---|---|
| `store_auto` | 3 requests, 2 cycles, 2 series, targets 1 and 2 | `SlotsAreExact`: a live request is its series' only one and stands for its next slot, and a slot is repeated only after a failure. `SeriesIsActionable`: a running series has a request, a paused one points at something RETRY and CONTINUE can act on. `EndedSeriesStaysEnded` |
| `store_triggered` | 3 requests, 2 cycles, 1 series | `OneDispatching`, `NoOvertaking` (FIFO under requeue), `SettledWorkIsFinal` |
| `dispatcher_recovery` | 3 requests, 2 cycles, 1 series, 2 workers, emergency stops, 2 crashes | `ExecutionIsKnown`: one cycle runs at a time, and the registry holds it. `EmergencyStopHolds`: after the stop's answer nothing is executed, claimed or queued. `NoLostWakeup`, `QuestionIsAnswerable`, and the refinement `Implements` of `CycleStore`, with waiting and ambiguous calls |
| `dispatcher_mishaps` | 3 requests, 3 cycles, 2 series, 2 workers, 1 graceful stop | `Implements` in an AUTO run with reopened runs, retried tasks and failing preparations |
| `dispatcher_liveness` | 2 requests, 2 cycles, 2 workers, emergency stops, 1 crash or stop | `NoCycleIsStranded`: a cycle the tables call running runs, or can be taken up. `WorkMovesOn`: queued requests are claimed, dispatched ones settle or wait for somebody. `CommandsEnd`: cancel answers, a graceful and an emergency stop end |
| `jobs_safety` | 2 jobs, 2 schedules of which one is broken, 1 occurrence, 1 process end | `TablesMatchWorker`: what is queued is enqueued, what is running runs. `RunsAtMostOnce`. `JobsAreJustified`: decided before it runs, one job per occurrence. `EmergencyStopHolds`, `SettledStaysSettled` |
| `jobs_liveness` | 2 jobs, 1 schedule that needs approval, 1 occurrence, 1 process end | `JobsMoveOn`: the queue drains, an emergency stop is answered |
| `cycle_plan` | 2 owners, plans of 2 tasks, 2 revisions, 2 mishaps, all kinds of request | `PlanIsApproved`: executed is what every owner approved, verdicts match the ledger, within the budget. `RestIsActionable`: what rests can be moved on. `PlanningEnds` |
| `operation_ledger` | 3 tasks of 2 workers, 2 attempts, notes one at a time, 3 mishaps, 1 change of the workspace | `PromptIsExact`: a call holds the notes counted as delivered with it, and asks the same again. `LedgerMatchesTables`: applied is completed, parked can be taken up. `CallsAreOnce`: the refinement of `ModelCalls` |
| `task_execution` | 2 tasks with any dependencies, every budget 1 or 2, 1 mishap | `BudgetsAreCounted`, `StatusIsEarned`, `PlanIsKept`, `StepsAreLegal` (which holds the refinement of `ModelCalls` and the transition table), `ExecutionEnds` |
| `hooks` | 1 hook for an agent and one for a team, 2 events of the first or 1 of the second, two polls at a time, 1 process end | `EveryEventOnce`, `EmergencyStopHolds`, `OutcomeIsTrue` |
| `chat` | 1 session, 2 turns or decisions, 2 commands, 2 rounds, 2 processes | `TurnsAreExact`, `ShellRunsAsDecided`, `ListingIsTrue` |

**Bounds.** Three requests let a slot fail, be retried and be followed by the next slot while
another request waits in the FIFO; two series let one be restarted; two workers are what it
takes to race for a claim; two stops let a crash hit a recovery from a crash. Two owners make
a plan half approved; two revisions make one be refused and replaced; two mishaps let a crash
hit what another left. Three tasks of two workers let a note reach a worker twice; two
attempts are the first and the one that gives up. One task that may go wrong beside one that
does not, either of them first, lets a failure skip, or not skip, the other; each budget is
small enough to run out. Two polls race; two events make the newer of them be read first. Two
turns let one begin while the other is interrupted; one session is enough, as sessions share
only the intake and `active.json`, whose clash with a missing session is what `muddled` is
about. Two jobs let one wait behind, or be retried from, the other; two schedules let one fail
the tick of the other; `MaxTime = 1` makes an occurrence due, and `nextRun` reaches the one
after it.

Bounds on what may happen, besides the numbers: in `HookRunner` the sources
have the events of `Arrivals` (two for the agent's hook or one for the team's), a poll begins
only if there is something to find, users meddle only once there is an event, and a hook's
schedule is abstracted into `DueHooks`. `ChatSession` renames and activates
only in the first process and not during a stop, and runs a command at most `MaxRuns` times.
In `TaskExecution` only the tasks of `plan.helped` have trouble; the others are done or fail.
A worker removes an undeclared file only when it is done, a leader admits one only after it
was seen. `Tried` names which of the answers that parse (`Parsed`) a call is given: fewer before
the last attempt, and after a mediation; the proofs hold whatever `Tried` is within `Parsed`.

`CHECK_DEADLOCK FALSE` is set where rows are finite and a run with none left and nothing to do
stops, and in `CyclePlan`, `OperationLedger` and `TaskExecution`, which end when their cycle
does. `HookRunner` and `ChatSession` are checked for deadlock.

**Fairness.** `CycleDispatcher` (`FairSpec`): the event loop runs every callback that is
ready, so workers, tasks, markers and the continuation of a cancel are fair; they are
strongly fair where a handler can come first again and again, because the loop's queue is
FIFO and a handler cannot overtake for ever. The lifespan goes on by itself and the tick
repeats, so `Starts`, `Exit`, `RecoverDue`, `ResumeClaim` and `TickEnqueues` are fair; so are the steps
of an emergency stop, which is a handler of the loop. A model
call that is repeated or waits for its provider again and again is at last answered
(`SF Answered`): the provider's part of the bargain. Nothing is assumed of users, crashes and
stops. A planning call that fails (`plan_fails`) is left out of this run, see below.

`CyclePlan` and `TaskExecution`: the event loop runs the coroutine (`WF Step`) and the process
is started again (`WF Restart`). Neither the provider nor the user owes anything, so a parked
call or an unanswered question is an end of the coroutine and `PlanningEnds`, `ExecutionEnds`
speak of the coroutine alone.

`JobQueue`: the event loop finishes a section it has begun and a stop it is in
(`WF Section`, `WF Stopping`), and a process that ended is started again by the operator
(`WF Start`). The worker that waits for its queue is one of the callbacks of a FIFO loop: a
handler or a tick can come first again and again, but not for ever, hence `SF WorkerTakes`.
Nothing is assumed of users, threads, the clock or runners: a runner may never end, and
`JobsMoveOn` says "unless one never does".

## Proofs

Each component has its theorems in a module of its own; the table says what the theorem is
about and which part of the inductive invariant carries it. All hold for every value of the
constants that meets the `ASSUME`s of the component's module, which only say that numbers are
numbers, sets are finite where the code enumerates them, plans name tasks that exist, and
that a plan has no more owners than the code accepts. Those of `CycleDispatcher`, except
`TypeCorrectness`, have a hypothesis about `Events`, the commands and mishaps an instance has;
see below.

| Theorem | States | Rests on |
|---|---|---|
| `CycleStoreProofs!StoreTypes` | `[]TypeOK` | itself |
| `AtMostOneDispatching`, `ClaimsAreFifo` | `[]OneDispatching`, `[]NoOvertaking` | `QueueInv` |
| `SettledStaysSettled` | `SettledWorkIsFinal` | `CycleInv` |
| `SlotsStayExact`, `SeriesStaysActionable`, `EndedStaysEnded` | `[]SlotsAreExact`, `[]SeriesIsActionable`, `EndedSeriesStaysEnded` | `SeriesInv` |
| `OperationLedgerProofs!LedgerImplementsModelCalls` | the refinement of `ModelCalls!Spec` | `CallInv` |
| `PromptStaysExact` | `[]PromptIsExact` | `PromptInv` |
| `TablesStayMatched` | `[]LedgerMatchesTables` | `TablesInv` |
| `JobQueueProofs!JobTypes` | `[]TypeOK` | itself |
| `JobsStartOnce`, `EmergencyStopIsSafe` | `[]RunsAtMostOnce`, `[]EmergencyStopHolds` | `NotStarted`, `StopKnows` |
| `TablesStayMatched`, `SettledIsKept` | `[]TablesMatchWorker`, `SettledStaysSettled` | `LoopCarries`, `SettledHolds` |
| `JobsStayJustified` | `[]JobsAreJustified` | `Decisions`, `OccInv` |
| `HookRunnerProofs!HookTypes` | `[]TypeOK` | itself |
| `EventsAreHandledOnce` | `[]EveryEventOnce` | `EventInv` |
| `StoppedHooksStay`, `OutcomesStayTrue` | `[]EmergencyStopHolds`, `[]OutcomeIsTrue` | `StopInv`, `OutcomeInv` |
| `ChatSessionProofs!ChatTypes` | `[]TypeOK` | itself |
| `TurnsStayExact` | `[]TurnsAreExact` | `TurnInv` |
| `ShellsRunAsDecided`, `ListingStaysTrue` | `[]ShellRunsAsDecided`, `[]ListingIsTrue` | `ShellInv`, `ListInv` |
| `TaskExecutionProofs!LedgerIsShared` | the refinement of `ModelCalls!Spec` | `CallInv` |
| `StatusesMoveLegally`, `StepsStayLegal` | `LegalTransitions`, `StepsAreLegal` | `WorkInv` |
| `BudgetsStayCounted` | `[]BudgetsAreCounted` | `BudgetInv` |
| `ExecutionTypes` | `[]TypeOK` | `TableInv` |
| `StatusesAreEarned` | `[]StatusIsEarned` | `EarnedInv` |
| `PlanStaysKept` | `[]PlanIsKept` | `PlanInv` |
| `CyclePlanProofs!PlansAreApproved` | `[]PlanIsApproved` | `PlanInv` |
| `RestStaysActionable` | `[]RestIsActionable` | `RestFits` |
| `CycleDispatcherProofs!TypeCorrectness` | `[]TypeOK` | `WorkersHold` |
| `WhatRunsIsKnown`, `EmergencyStopIsComplete` | `[]ExecutionIsKnown`, `[]EmergencyStopHolds` | `DispatcherInv` |
| `StoreRefinement` | the refinement of `CycleStore!Spec` | `DispatcherInv` |
| `WakeupsAreKept` | `[]NoLostWakeup` | `WakeFits` |
| `QuestionsStayAnswerable` | `[]QuestionIsAnswerable` | `AskFits`, `SeriesInv` |
| `NoCycleStaysStranded` | `[]NoCycleIsStranded` | `WaitFits`, `RunningFits`, `Prevented` |

**`CycleStore`.** `QueueInv` is `TypeOK`, `OneDispatching`, `NoOvertaking` and
`RowsArePrefix`: an insertion must get a number larger than every existing row. The step proof
sorts the actions by what they do to request statuses (`ReqStep`). `CycleInv` adds that a
request has at most one cycle, was claimed when it has one, and is settled only when that
cycle is over; `CyclesKeep` and `ReqsKeep` say what no transaction does to a row, and from
them `SettledWorkIsFinal` is a statement about one step. `SeriesInv` adds for each series that
its live request is the only one and stands for the next slot (`RequestsFit`), that a running
series has a live request (`GoesOn`), and that the request a failed series points at is the
last of its slot (`FailureIsLast`). Most transactions leave every series but one `Quiet`.

**`OperationLedger`.** `CallInv` says where the row of the call stands while the coroutine is
between two commits (`CallFits`) and that no two calls are open; from it every step either
leaves the ledger alone, reserves a call, moves one along `Transitions`, stores an answer or
reconciles, and each of these is a step of `ModelCalls` or a stutter. `PromptsFit` says that
the digest in a row, and the one in the coroutine's hand, are computed from what
`deliveries` holds for the key. `TablesInv` relates the coroutine to the tables: a fresh call
has its task in progress and no row besides, a recovered one has the open row, and as long as
the request is dispatched the cycle's status tells what the open call waits for
(`SourceFits`). The exception for settled requests is the divergence listed below (start-up
resumes the calls of failed runs); without it the invariant is not inductive.

**`JobQueue`.** `TypeOK` is inductive: it also says that a section, the worker or a denial that
holds a job holds one that exists, and that job rows are a prefix of `Jobs`. `NotStarted`: a job
that is absent, waits, is queued or is held by the worker's first statement has not been
started; that the approval's two statements are one section keeps it so, also when a denial's
thread writes `canceled` in the middle. `StopKnows`: from the moment the gate is closed no
handler or tick is in its middle, only the worker is; while the stop cancels, every active job
is one of its targets. `LoopCarries` says which jobs a section holds that are in the table and
not yet in the queue. `Decisions` follows an approval through its statements. `OccInv`: the
occurrences a tick still has to serve have no job of this process yet (`DueIsNew`), the one it
has just served has exactly the job it holds (`MadeNow`), and the others' `nextRun` has moved
past them (`MovedOn`).

**`HookRunner`.** Two polls may race over one hook. `CursorInv`: the cursor, and the position of
every poll that is recording, are behind recorded events only, so an event is never passed
over. `TurnInv`: a run that is absent or queued had no turn, a running one is the worker's, and
the worker does not outlive its process. `StopInv` follows the stop through its four steps, with
the runs a poll records after the gate is closed in `late`. `OutcomeInv` relates the status of a
hook run to the cycle behind it at every point of a start-up.

**`ChatSession`.** `Exact`: the registry has exactly the requests that are not over, one for each
session, and only for sessions that exist and are not being deleted. With it a stop that
lists the registry lists every turn (`StopListsChats`). `ShellInv` adds that the open request of
a transcript is known and undecided, and that a model is only asked while none is open.
`ListInv` says for each session where the rename and the deletion are that make row and
transcript differ.

**`TaskExecution`.** `CallInv` is as in `OperationLedger`. `WorkInv` adds that the task of the
call the coroutine is at is in progress (`CallWorks`), and so is that of an open call, unless
it failed with the run and its prompt cannot be made again, which is why the call is then
refused for good (`OpenWorks`). Every change of a task's status is one of nine moves
(`TaskMove`), each in the table. `BudgetInv` numbers the helps of a mediation: the help of a
round carries its number, so a replay after a restart finds it and does not pay twice.
`TableInv` adds that operations are numbered in the order of their creation and that the open
one is the newest (`NumbersFit`), and that a task holds an applied outcome of its own
(`StoredFits`). `EarnedInv` adds that only a task with an undeclared file has one admitted,
and that a repair belongs to a review that was asked for; `CompletedIsFrozen` then shows that
no later call, replay or restart moves a completed task, the outcome it holds or its contract.
`RowsStay` is what the steps of all these proofs share: an applied or failed row is never
written again.

`PlanIsKept` needs the most. That no prerequisite is bypassed (`OrderInv`) and that the two
status rules agree (`FinalStep`, `RulesAgree`) are short; that nothing remains when the loop is
left is a statement about everything that could have kept a task from its end. `HistoryInv` says
where a call comes from: each is made by one of a few steps (`NextCalls`, `Makes`), so a help
follows a query, a help of a round is the only one of its number, a task's repair follows the
failed call, and what is made again for a task that was interrupted is older than all that
followed it (`InOrder`). From it: the outcome of a call that is applied once more can still be
reviewed (`RepeatsFit`), a review is about such an outcome (`UnderReview`), a run that waits for
an answer has no call that could be taken up (`AwaitFits`), a task in progress has an open call,
a coroutine at one, or an outcome due for review (`Busy`), one that waits for its provider has a
call to be reclaimed (`ParkedFits`), and tasks do not move while the leader sums up
(`SumsFits`). So a loop that is left leaves pending tasks that are not ready (`LeftFits`), and
since no dependency is cyclic one of them could be skipped (`LeftIsEnough`).

The proof showed that the model had been wrong: with two attempts a review that is applied,
forgotten by a crash and asked for again can be the last call of a task that is in progress,
and the recovery chain then applies it once more (`ReviewGiven`, `team_runtime.py:3823`). One
attempt cannot get there, so `Cap` is 2 since.

**`CyclePlan`.** `CallInv` says where the row of the coroutine's call stands between two
commits, that at most one call is open, and what a question of the leader excludes. `PlanInv`
adds what ledger, revisions, tasks and coroutine say of each other. `KeysFit`: a planning call
is a first one or replaces a superseded revision, and a review is of a revision there is;
distinct revisions, owners and stages have distinct keys (`ReviewsDiffer`, `ReplansDiffer`),
which needs `ApproversAreKeyable`: the code refuses more owners than a revision has ordinals
(`_require_keyable_approvers`, `team_runtime.py:5991-5993`). `RevsFit`: only the newest revision
can be under negotiation or approved, and its tasks are the live ones, unless it is doomed and
being cancelled; a cancelled task was proposed by a revision. `CurrentFits`: whatever is open,
or what the coroutine is at, is about the plan as it stands, so that a call continued after a
restart finds the revision it was made for. `PhaseFits` is what each point of the coroutine may
count on, and `DoneFits` that a task is only carried out by the cycle that completes. None of
these is preserved without the others: that an approved revision lists exactly what is left
to do, for example, rests on no call being open by then that could add a task. The proof has
one lemma about the ledger and one about the plan for each action. `RestFits` adds, for a
request that is dispatched, what each status of the cycle says of its open call (`OpenSays`),
that the cycle is at work as long as its coroutine is (`CycleSays`), and that added work is a
draft in which only its own calls are made (`EntryFits`): with it a call parked by added work is
always accepted, and only a call continued by a restart can end where nobody moves it on.

**`CycleDispatcher`.** The process writes statuses with `set_cycle_status` and `set_run_status`,
which check nothing, so that each write is one `CycleStore` allows depends on what every other
actor may be doing at that moment. `DispatcherInv` says it. `RowsFit`: a cycle that is not over
owns the one dispatching request. `RegistryFits`: the registry holds the one task there is.
`BetweenFits`, `WorkerFits` and `MarksFit`: while a worker is between its claim and the task's
start, or a task's end has not been seen yet, nothing is registered; a worker that awaits
awaits the registered task, and `news` tells what it will find in the tables. `TaskFits` (in
`RegisteredFits`), `OpFits` and `RunFits` say of each point of a task which statuses its cycle,
its open call and the run can have, and who holds an open call: the task, the claim of a
recovery (`ClaimFits`), or a cancellation that waits for the task (`DoomedFits`). `RestFits` and
`StoppedFits` say what a stopped, a starting and an emergency-stopped process has left. From it
`NextRefines` shows for each action that it is a step of the store or a stutter; the types and
`CycleInv` of the store then come from `CycleStoreProofs`.

On top of it, each with an inductive part of its own: `WakeFits` (a request that can be claimed has
a token, at every moment of a serving process; the oldest request exists because the numbers
are well-founded); `AskFits` (run, cycle, request and series of a published question);
`WaitFits` (a waiting call, its cycle, its request and the run) and `RunningFits` (a running
cycle has a task, a claim, or the interruption of an ambiguous call on its way; a start-up
leaves only those running that it resumes).

Types are kept under all events (`FreeStep`: what the unchecked writes write is a status). The
other theorems hold for *ordinary* events. `Ordinary` leaves out `reopen`, `retry_task`,
`shutdown`, `leaves_call` and `late_answers`: with each of them a cycle can run without a
dispatching request or outlive it, and the next section has the counterexamples.
`dispatcher_mishaps` checks `Implements` with the first three of them on a small instance, and
`dispatcher_liveness` checks `NoCycleIsStranded` with `shutdown`. `WakeupsAreKept` also leaves
out `create_fails`, and `NoCycleStaysStranded` assumes `QuestionsAreSeen`: not `wait`, `decide`
and `crash` together, or a crash parks a cycle for the user whose call then nobody polls.
Everything else may happen in any order: commands, emergency stops, crashes in the middle of a
step, failures of planning and freezing.

Only model-checked: liveness (under fairness), which is out of TLAPS's reach; the dispatcher
under events that are not ordinary; and what `Causes` of `Lifecycle`, defined by recursion
over a finite plan, computes for every plan, which is induction over data.

## What the models showed about the code

The properties are stated so that they hold of the code as it is; where the code falls short
of a document, a comment or of what one would expect, the property names the exception, or an
instance leaves the event out. Each of these was seen as a counterexample of TLC first.

Continuous runs:

* *Stale question.* The start-up repair publishes the deferred question of a cycle that
  has failed, and moves its series out of `paused_failure` (`teams.py:2590`).
* *A graceful stop cancels.* The runtime cannot tell the `CancelledError` of a stop from
  a user's; the cycle of a worker's task ends `canceled`.
* *Reopen.* A paused cycle survives the cancellation of its run, its request does not;
  after reopening, resume runs it beside a newer cycle (`OneExecution` with `reopen`).
* *Deferred question and waiting call.* After a crash the cycle is parked for the user, and
  nobody polls the call.
* `interrupt_run(include_canceled=True)` revives the *oldest* canceled cycle of the run,
  which after an earlier cancellation is not the one the stop interrupted
  (`OneExecution`, with `shutdown` in a triggered run of three requests).
* A retried task's cycle has no request. Answering or resuming another cycle beside it
  breaks `OneExecution` and `RegistryIsExact`, and a crash between its writes leaves it
  `running` with no start-up pass that looks at it.
* `create_cycle` failing requeues the claim without a token (`NoLostWakeup`), and a
  reopened run gets none for the requests it finds queued.
* A failing cycle that leaves an operation open (`leaves_call`) is resumed at the next
  start although it is final (`Implements`).
* A planning call that is taken up after a restart and fails leaves its cycle queued and
  its request dispatching until the user cancels: there is no worker to
  catch the exception, and the marker only records it. `RestIsActionable` of `CyclePlan`
  excepts `add_work_again` for it.
* An emergency stop cancels the tables before the registered tasks. A recovered or resumed task
  has no worker that is stopped with it; when its answer arrives while the stop waits for chat
  sessions, the call turns out canceled and `_settle_failed` rewrites the canceled run and
  cycle as failed (`Implements` with `late_answers`). A task that the registry has lost to a
  retried task is not reached at all (`Implements` of `dispatcher_mishaps` with `emergency`).
* `_cancel_run` leaves `pause_requested_at`, which `POST /cancel` clears afterwards and an
  emergency stop does not: a reopened run can pause although nobody asked it to.
* Resume leaves a series in `paused_interrupted`; a question of such a cycle is refused by
  `_set_decision_series_state`, and the cycle fails.

Planning (`CyclePlan`):

* `resume` sets the run "running" before it negotiates, and a review that then has to wait for
  its provider is refused by `_validate_active_source`
  (`team_provider_recovery.py:739-838`), which demands "planning": the cycle fails. The comment
  there says of the case it does handle: "Without this branch ... a provider blip during a
  worker's review failed the cycle."
* A call that failed and whose repair was not reserved before a crash, and a replan's repair
  that is open at a resume, are asked again with other messages and refused; the run fails.
* Recovered planning calls are not repaired; a recovered added-work call with an invalid
  answer only leaves `last_error`.
* A refused objection whose contest has no tasks may still be planned by a later resume,
  although `settle_contest` says that a refused objection is not carried out; an `ask_back`
  that was answered plans from the objection. After a crash a stored objection does not stop
  the remaining reviewers from being asked. A user's cancel leaves the open call to the next
  start.

Ledger (`OperationLedger`):

* Start-up cancels the calls of canceled cycles only (`team_provider_recovery.py:1014-1051`):
  a prepared or completed call of a *failed* run is resumed
  (compare `2026-08-10-team-lifecycle-state-integrity-design.md:227-229`).
* The notes of an answer are stored after it is applied: a crash between loses them, though
  the call is replayed (docstrings at `team_model_effects.py:312-320` and `382-405`).
* A changed workspace at a retry is a baseline conflict and fails the run.

Task execution (`TaskExecution`):

* When a leader's repair of a review asks the user, and the work after the answer is rejected
  again, the chain reserves the same review once more with other messages: conflict, the run
  fails (compare `2026-07-30-team-acceptance-internal-recovery-design.md:158-159`). The same
  happens after a crash between an effect and the next reservation where the messages have
  changed meanwhile, and for a call reserved from a user's answer that is interrupted while
  open.
* "the acceptance flow re-enters at the next attempt on its own" (docstring at
  `team_runtime.py:1308-1312`): not when the last call is a review that was applied before a
  crash. The chain then applies that review again, whose attempt the unparsable review in
  between has used up: conflict, the run fails (`ReviewGiven` in `Chain`).
* An optional task that was skipped makes `_terminal_status` of the effects raise, and the run
  fails (compare `2026-08-10-...:213`).
* A rejection for an undeclared file whose review was never reserved, because of a crash, is
  forgotten: `_persisted_undeclared_paths` looks only at the held outcome and at review
  messages. The task can complete with the file left. `FilesAreDeclared` speaks of reviewed
  rejections.
* `in_progress -> pending` at an interruption is not in the table of `team_lifecycle.py`;
  `LegalTransitions` excepts start-up.
* A futile retry (no file named) is recorded as an answer that does not parse.

Hooks (`HookRunner`):

* A hook run handled between `cancel_all_active` and the hook runner's stop leaves its request
  queued after the stop has answered (`emergency_stop.py:65`); it is dispatched once the intake
  opens.
* A run that a poll in flight records after the intake was closed executes while it is closed
  (`late`); one enqueued between the listing of targets and the draining of the queue is
  dropped until the next start (`stray`).
* A hook run whose cycle failed in its preparation stays queued until a restart, and a later
  cancellation marks it canceled although its cycle failed. A request whose link was cut off by
  a crash has no outcome recorded until a restart.
* `reconcile_linked_runs` interrupts a cycle that waits for its provider, or has just been
  resumed, when its hook run is interrupted or failed, although "waiting은 보존된다."
  (`2026-07-31-team-model-operation-ledger-design.md:469`).

Chat (`ChatSession`):

* What an approval makes the model go on with is registered without a task: interrupt,
  emergency stop and shutdown cannot reach it.
* A command can run again after a timeout (the approval stays pending), a lost write, or a
  crash between its run and its result; `ShellRunsAsDecided` counts these as `cut`. After a
  lost write the request can be neither approved nor denied until a restart, while every
  message is answered with a reminder of it.
* A `chat_turns` row that cannot be written leaves the session registered (409 for every
  message) until a restart or an emergency stop frees it; rows of a crashed process stay
  "running".
* A rename that races with a deletion makes the file again, one that races with an append
  writes a stale row; an activation that races with a deletion leaves `active.json` naming a
  missing session; a crash between the deletion of the row and of `active.json` makes the
  restart list a session that cannot be deleted.
* Approving a wrong id writes an error and shows the session as failed though a request is
  pending; a rename clears "failed".

Jobs and schedules (`JobQueue`):

* A denial reads the job, decides the approval and writes `canceled` in three statements on
  a thread. An approval on the loop between them queues the job, the worker can start it,
  and the denial then cancels a job whose command runs or has run; the approval's row keeps
  the later decision. "An approval is a one-time user decision before a risky local action
  runs" (`src/docs/specs/completed_2026-07-06-personal-agent-gateway-capabilities-technical-spec.md:169`).
  `SettledStaysSettled` therefore excepts the job a denial is about.
* A crash between the insertion of a due job and the update of `next_run_at` makes the next
  process create the job again; `JobsAreJustified` counts for each process. An assessment
  asks for "동일 tick/restart에서 duplicate job 없음"
  (`src/docs/reports/2026-07-15-development-pm-maintainability-assessment.md:130`).
* A due schedule whose capability is unknown ends every tick it is in: those due after it
  never get a job, and jobs made before it in the same tick are queued but wait for the next
  start (`stray`).
* A restart opens the intake that an emergency stop closed: the gate is in memory.

## Plan

Modelled: everything the first plan had; the emergency stop is modelled over each component,
not as a whole. Proved: every safety property the runs check, and the refinements (see
"Proofs"). What is left:

1. The theorems about `CycleDispatcher` without `Ordinary`: for `Implements` with `shutdown`,
   `reopen` and `retry_task`, which needs an invariant for cycles that outlive their request.
2. A module that composes the emergency stop over all components.
3. The concurrent workers of a cycle, with sibling operations.

## Not modelled

* Of a continuous run: creation, deletion and listing of runs; one-shot runs
  and a step of the emergency stop that raises.
* Of a cycle: concurrent workers; agents' status rows; reports and packaging; the replays of a
  leader's effects for batches of more than one task (`_replay_mediation_lead`,
  `_replay_acceptance_lead`, `_replay_synthesis*`), which one task at a time does not reach;
  the paths of runs without a cycle (`_recover_task_outcome`, `_review_acceptance`,
  `_continue_worker_content`, `_mediate`) and the methods of `teams.py` that only they use;
  `cancel_waiting_decision`, and `mark_waiting_for_provider` and `claim_provider_recovery` of
  `teams.py`, which nothing calls.
* Of chat: history, activity and event streams, search, titles, configuration edits, sessions
  made for hooks, and `session_consistency.py`.
* Of jobs and hooks: chat jobs, job events and artifacts, cron arithmetic, prompts, secrets,
  source adapters.
* Files and catalogues, archive, credentials, migrations, subprocess runners, network clients
  and the front end: they hold little state of their own, and their outcomes appear as
  nondeterministic results.
