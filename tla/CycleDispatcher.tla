--------------------------- MODULE CycleDispatcher ---------------------------
(***************************************************************************)
(* One continuous run as a process executes it: the dispatcher's workers   *)
(* (team_cycle_dispatcher.py), the tasks the orchestrator schedules for    *)
(* cycles (team_run_orchestrator.py, the outcomes of team_runtime.py), the *)
(* task registry (run_state.py), the periodic loop (team_cycle_loop.py),   *)
(* the handlers of api/team_runs.py, and start-up, graceful shutdown and   *)
(* crashes (app.py).  Every step is at most one transaction of CycleStore. *)
(*                                                                         *)
(* Workers, tasks and handlers share one event loop and lose control only  *)
(* at an await that suspends, so a section of code with two transactions   *)
(* can be cut by a crash, but no other section of the loop sees its middle. *)
(* LoopFree says that no section is in its middle.  What runs in a thread  *)
(* (a synchronous handler, the provider poll) does not wait for it.        *)
(*                                                                         *)
(* The model calls of a cycle (planning its work, then its tasks and its   *)
(* synthesis) are one repeated call with a nondeterministic answer.  Not   *)
(* modelled: contest requests, tasks and agents, and deletion of the run.  *)
(***************************************************************************)
EXTENDS Naturals, FiniteSets

CONSTANTS
  MaxRequests, MaxCycles, MaxSeries, Targets, Policy, HasGoal,  \* of CycleStore
  Workers,      \* worker ids of the dispatcher
  Events,       \* what users, providers and failures do: see AllEvents
  MaxStops      \* how often the process stops

AllEvents == {"trigger", "series", "continue", "pause", "resume", "answer", "cancel", "reopen",
              "retry_task",  \* users
              "wait", "ambiguous", "backoff", "decide", "plan_fails",  \* model calls
              "create_fails", "freeze_fails", "leaves_call",  \* failures
              "emergency",     \* POST /emergency-stop and /resume-intake
              "late_answers",  \* tasks go on while the stop waits for chat sessions
              "crash", "shutdown"}

ASSUME EventsAreKnown == Events \subseteq AllEvents /\ MaxStops \in Nat
ASSUME StoreConstants ==  \* what CycleStore assumes
  /\ MaxRequests \in Nat /\ MaxCycles \in Nat /\ MaxSeries \in Nat
  /\ Targets \subseteq Nat \ {0}
  /\ Policy \in {"auto", "triggered"} /\ HasGoal \in BOOLEAN

VARIABLES
  run, req, cyc, ser, dec,  \* the tables of CycleStore
  op,       \* the open model operation of each cycle
  pause,    \* team_runs.pause_requested_at is set
  server,   \* the phase of the process
  tokens,   \* entries of the dispatcher's queue
  wk,       \* the dispatcher's workers
  task,     \* the scheduled task of each cycle
  doomed,   \* tasks whose cancel() was called
  reg,      \* the cycle whose task TeamRunRegistry holds, 0 if none
  claim,    \* the recovery the tick's thread claimed for the loop, 0 if none
  waiter,   \* the cycle POST /cancel waits for, 0 if none
  marks,    \* resumed cycles whose marker has an ambiguous call to handle
  stops

store == <<run, req, cyc, ser, dec>>
ledger == <<op, pause>>
consumers == <<wk, marks>>
tasks == <<task, doomed, reg>>
vars == <<store, ledger, server, tokens, consumers, tasks, claim, waiter, stops>>

S == INSTANCE CycleStore

CycIds == S!CycIds

\* "completed" and "prepared" are open: their answer, or their call, is due.
NoCall == [st |-> "none", planning |-> FALSE]
Call(st, planning) == [st |-> st, planning |-> planning]
OpStatus == {"none", "prepared", "invoking", "completed", "waiting", "ambiguous"}

\* scheduled: not started yet; planning, working: suspended in a model call;
\* ended: the runtime returned and the observers are to be called; unfrozen: a
\* retried task's cycle before freeze_cycle
TaskStatus == {"none", "plan_due", "resume_due", "planning", "working", "ended", "unfrozen"}
WorkerPc == {"off", "idle", "claimed", "created", "awaiting", "settling"}
News == {"none", "ok", "waiting", "paused", "error", "canceled", "ambiguous"}
\* halting, canceled, gathering: an emergency stop waits for the workers, for chat
\* sessions, for registered tasks; halted: it has answered, the intake is closed
EmergencyPhases == {"halting", "canceled", "gathering"}
Phases == {"down", "interrupt_active", "reconcile_ops", "reconcile_decisions",
           "interrupt_cycles", "reconcile_requests", "enqueue_due", "up", "stopping",
           "canceling", "halted"} \cup EmergencyPhases

WorkerAt(pc, c) == [pc |-> pc, cycle |-> c, news |-> "none"]
Off == WorkerAt("off", 0)
IdleWorker == WorkerAt("idle", 0)

TypeOK ==
  /\ S!TypeOK
  /\ op \in [CycIds -> [st: OpStatus, planning: BOOLEAN]]
  /\ pause \in BOOLEAN
  /\ server \in Phases
  /\ tokens \in Nat
  /\ wk \in [Workers -> [pc: WorkerPc, cycle: CycIds \cup {0}, news: News]]
  /\ marks \subseteq CycIds
  /\ task \in [CycIds -> TaskStatus]
  /\ doomed \subseteq CycIds
  /\ {reg, claim, waiter} \subseteq CycIds \cup {0}
  /\ stops \in 0..MaxStops

Init ==
  /\ S!Init
  /\ op = [c \in CycIds |-> NoCall]
  /\ pause = FALSE
  /\ server = "down"
  /\ tokens = 0
  /\ wk = [w \in Workers |-> Off]
  /\ marks = {}
  /\ task = [c \in CycIds |-> "none"]
  /\ doomed = {}
  /\ reg = 0 /\ claim = 0 /\ waiter = 0
  /\ stops = 0

LoopFree ==
  /\ \A w \in Workers : wk[w].pc \notin {"claimed", "created", "settling"}
  /\ \A c \in CycIds : task[c] \notin {"ended", "unfrozen"}

\* The loop's ready queue is FIFO: what a task's end woke runs before
\* anything scheduled later.
Quiet == LoopFree /\ marks = {} /\ \A w \in Workers : wk[w].news = "none"

\* the task that POST /cancel waits for is over
CancelIsDue == waiter # 0 /\ waiter \notin doomed

\* A handler also runs after the first step of the tasks scheduled before it.
May(event) == event \in Events

\* the phases in which the event loop runs on
Running == {"up", "halted"} \cup (EmergencyPhases \ IF May("late_answers") THEN {} ELSE {"canceled"})
Listening ==
  /\ server \in Running /\ Quiet /\ ~CancelIsDue
  /\ \A c \in CycIds : task[c] \notin {"plan_due", "resume_due"}
Serving == server = "up" /\ Listening
Alive == server \in Running \cup {"stopping", "canceling"} /\ Quiet

NeverOver(c) == c \notin CycIds  \* mutant of Over

\* team_lifecycle's terminal statuses
Over(c) == cyc[c].status \in S!TerminalCycle

Parked(c) == cyc[c].status \in {"waiting_for_user", "interrupted"}

Dispatching(c) == cyc[c].request # 0 /\ req[cyc[c].request].status = "dispatching"

-----------------------------------------------------------------------------
(* Settlement: on_team_run_settled, shared by workers, observers, markers. *)

ForgetWakeup == tokens  \* mutant of TokensAfterSettlement

TokensAfterSettlement == tokens + (IF S!QueueReady(req') THEN 1 ELSE 0)

OnSettled(c) ==
  /\ pause' = (pause /\ ~Over(c))
  /\ IF Dispatching(c)
     THEN /\ S!SettleCycle(c) \/ S!PauseSeries(c)
          /\ tokens' = TokensAfterSettlement
     ELSE UNCHANGED <<store, tokens>>
  /\ UNCHANGED op

-----------------------------------------------------------------------------
(* The dispatcher's workers: run_one. *)

WorkerMoves(w, row) == wk' = [wk EXCEPT ![w] = row] /\ UNCHANGED marks

ToSettle(w) == WorkerMoves(w, [wk[w] EXCEPT !.pc = "settling"])

\* A token of a run that is canceled, or has nothing to claim, is spent.
Take(w) ==
  /\ Serving /\ wk[w].pc = "idle" /\ tokens > 0
  /\ tokens' = tokens - 1
  /\ IF run # "canceled" /\ S!NoneDispatching /\ \E r \in S!ReqIds : S!OldestQueued(r)
     THEN /\ \E r \in S!ReqIds : S!ClaimNext(r)
          /\ WorkerMoves(w, WorkerAt("claimed", 0))
     ELSE UNCHANGED <<store, consumers>>
  /\ UNCHANGED <<ledger, server, tasks, claim, waiter, stops>>

Create(w) ==
  /\ wk[w].pc = "claimed"
  /\ \E c \in CycIds, r \in S!ReqIds : /\ S!CreateCycle(c, r)
                                       /\ WorkerMoves(w, WorkerAt("created", c))
  /\ UNCHANGED <<ledger, server, tokens, tasks, claim, waiter, stops>>

\* create_cycle raises: the claim is given back, without a new token
CreateFails(w) ==
  /\ May("create_fails")
  /\ wk[w].pc = "claimed"
  /\ \E r \in S!ReqIds : S!RequeueClaim(r)
  /\ WorkerMoves(w, IdleWorker)
  /\ UNCHANGED <<ledger, server, tokens, tasks, claim, waiter, stops>>

\* freeze_cycle or a preparer raises
FreezeFails(w) ==
  /\ May("freeze_fails")
  /\ wk[w].pc = "created"
  /\ S!SetCycle(wk[w].cycle, "failed")
  /\ ToSettle(w)
  /\ UNCHANGED <<ledger, server, tokens, tasks, claim, waiter, stops>>

\* TeamRunOrchestrator._schedule: the new task replaces the registered one.
Schedule(c, kind) ==
  /\ task' = [task EXCEPT ![c] = kind]
  /\ doomed' = doomed \ {c}
  /\ reg' = c

Launch(w) ==
  /\ wk[w].pc = "created"
  /\ Schedule(wk[w].cycle, "plan_due")
  /\ WorkerMoves(w, [wk[w] EXCEPT !.pc = "awaiting"])
  /\ UNCHANGED <<store, ledger, server, tokens, claim, waiter, stops>>

AfterRun == IF server = "up" THEN IdleWorker ELSE Off

Wakes(w, news) ==
  /\ LoopFree /\ wk[w].pc = "awaiting" /\ wk[w].news \in news
  /\ UNCHANGED <<ledger, server, tokens, tasks, claim, waiter, stops>>

\* The cycle ended or stopped in a way that needs nothing of the worker, or the
\* worker is cancelled by stop(interrupt_active=False).
WakeDone(w) ==
  /\ Wakes(w, {"ok", "waiting", "paused"} \cup IF server = "halting" THEN {"canceled"} ELSE {})
  /\ WorkerMoves(w, AfterRun)
  /\ UNCHANGED store

WakeError(w) ==
  /\ Wakes(w, {"error"})
  /\ LET c == wk[w].cycle IN
     \/ /\ Over(c) /\ ~Dispatching(c)
        /\ WorkerMoves(w, AfterRun) /\ UNCHANGED store
     \/ /\ Over(c) /\ Dispatching(c)
        /\ ToSettle(w) /\ UNCHANGED store
     \/ /\ ~Over(c)
        /\ ToSettle(w) /\ S!SetCycle(c, "failed")

\* _interrupt_cycle, up to its call of on_team_run_settled
WakeInterrupted(w) ==
  /\ Wakes(w, {"ambiguous"} \cup IF server = "halting" THEN {} ELSE {"canceled"})
  /\ LET c == wk[w].cycle IN
     \/ /\ Over(c) /\ ~Dispatching(c)
        /\ WorkerMoves(w, AfterRun) /\ UNCHANGED store
     \/ /\ IF Over(c) THEN Dispatching(c) ELSE Parked(c)
        /\ ToSettle(w) /\ UNCHANGED store
     \/ /\ ~Over(c) /\ ~Parked(c)
        /\ ToSettle(w) /\ S!SetCycle(c, "interrupted")

WorkerSettles(w) ==
  /\ wk[w].pc = "settling"
  /\ OnSettled(wk[w].cycle)
  /\ WorkerMoves(w, AfterRun)
  /\ UNCHANGED <<server, tasks, claim, waiter, stops>>

Worker(w) ==
  \/ Take(w) \/ Create(w) \/ CreateFails(w) \/ FreezeFails(w) \/ Launch(w)
  \/ WakeDone(w) \/ WakeError(w) \/ WakeInterrupted(w) \/ WorkerSettles(w)

\* _consume_operation_marker of a resumed task, for an ambiguous call
MarkerInterrupts(c) ==
  /\ LoopFree /\ c \in marks
  /\ IF Over(c) \/ Parked(c)
     THEN OnSettled(c) /\ marks' = marks \ {c}
     ELSE S!SetCycle(c, "interrupted") /\ UNCHANGED <<ledger, tokens, marks>>
  /\ UNCHANGED <<wk, server, tasks, claim, waiter, stops>>

-----------------------------------------------------------------------------
(* Tasks: run_and_finish around the runtime's add_work and resume. *)

\* The task is over: registry.finish pops whatever is registered, and who
\* awaits the task will see `news`.  Only the marker of a resumed task is
\* left without a worker, and it minds nothing but an ambiguous call.
Awaits(w, c) == wk[w].pc = "awaiting" /\ wk[w].cycle = c /\ wk[w].news = "none"

Deliver(c, news) ==
  /\ wk' = [w \in Workers |-> IF Awaits(w, c) THEN [wk[w] EXCEPT !.news = news] ELSE wk[w]]
  /\ marks' = IF news = "ambiguous" /\ \A w \in Workers : ~Awaits(w, c)
              THEN marks \cup {c} ELSE marks

TaskEnds(c, news) ==
  /\ task' = [task EXCEPT ![c] = "none"]
  /\ doomed' = doomed \ {c}
  /\ reg' = 0
  /\ Deliver(c, news)

TaskMoves(c, status) == task' = [task EXCEPT ![c] = status] /\ UNCHANGED <<doomed, reg>>

SetOp(c, row) == op' = [op EXCEPT ![c] = row]

\* The runtime takes a step of the task of c.
Runs(c, statuses) ==
  /\ Alive /\ task[c] \in statuses /\ c \notin doomed
  /\ UNCHANGED <<server, claim, waiter, stops>>

\* what a failing cycle may leave of its open call: the exception may come
\* after the answer was stored, or cancel a sibling's call in flight
LeftOpen(c) ==
  {NoCall} \cup (IF May("leaves_call") /\ op[c].st = "invoking"
                 THEN {op[c], Call("completed", op[c].planning)} ELSE {})

\* _activate_cycle and set_run_status; a model call is open from here on
Works(c) ==
  /\ S!SetCycleAndRun(c, "running", "running")
  /\ SetOp(c, Call("invoking", FALSE))
  /\ TaskMoves(c, "working")
  /\ UNCHANGED <<pause, tokens, consumers>>

\* Nothing schedules a planning with a call in flight, waiting or ambiguous,
\* which the code would refuse.
StartPlan(c) ==
  /\ Runs(c, {"plan_due"})
  /\ op[c].st \in {"none", "prepared"}
  /\ SetOp(c, Call("invoking", TRUE))
  /\ TaskMoves(c, "planning")
  /\ UNCHANGED <<store, pause, tokens, consumers>>

\* the answer of the planning call was stored before a restart
ReplayPlan(c) == Runs(c, {"plan_due"}) /\ op[c].st = "completed" /\ Works(c)

PlanDone(c) == Runs(c, {"planning"}) /\ op[c].st = "invoking" /\ Works(c)

\* add_work lets its exceptions out, also that of a call canceled under it: the cycle
\* keeps its status
PlanFails(c) ==
  /\ May("plan_fails") \/ op[c].st = "none"
  /\ Runs(c, {"planning"})
  /\ \E row \in LeftOpen(c) : SetOp(c, row)
  /\ TaskEnds(c, "error")
  /\ UNCHANGED <<store, pause, tokens>>

StartResume(c) ==
  /\ Runs(c, {"resume_due"})
  /\ op[c].st \notin {"waiting", "ambiguous"} /\ Works(c)

ResumeRefused(c) ==
  /\ Runs(c, {"resume_due"})
  /\ \E news \in {"waiting", "ambiguous"} : op[c].st = news /\ TaskEnds(c, news)
  /\ UNCHANGED <<store, ledger, tokens>>

\* prepare_retry: the call failed and is repeated after a sleep
BackOff(c) ==
  /\ May("backoff")
  /\ Runs(c, {"planning", "working"}) /\ op[c].st = "invoking"
  /\ SetOp(c, Call("prepared", op[c].planning))
  /\ UNCHANGED <<store, pause, tokens, consumers, tasks>>

TryAgain(c) ==
  /\ Runs(c, {"planning", "working"}) /\ op[c].st = "prepared"
  /\ SetOp(c, Call("invoking", op[c].planning))
  /\ UNCHANGED <<store, pause, tokens, consumers, tasks>>

\* wait_for_operation, and the exception that ends the task
ProviderWaits(c) ==
  /\ May("wait")
  /\ Runs(c, {"planning", "working"})
  /\ op[c].st = "invoking" /\ Dispatching(c)
  /\ IF op[c].planning THEN cyc[c].status = "queued" /\ run # "canceled"
                       ELSE cyc[c].status = "running" /\ run = "running"
  /\ S!SetCycleAndRun(c, "waiting_for_provider", "waiting_for_provider")
  /\ SetOp(c, Call("waiting", op[c].planning))
  /\ TaskEnds(c, "waiting")
  /\ UNCHANGED <<pause, tokens>>

\* interrupt_ambiguous_operation, and the exception that ends the task
ProviderAmbiguous(c) ==
  /\ May("ambiguous")
  /\ Runs(c, {"planning", "working"})
  /\ op[c].st = "invoking"
  /\ S!SetCycleAndRun(c, "interrupted", "interrupted")
  /\ SetOp(c, Call("ambiguous", op[c].planning))
  /\ TaskEnds(c, "ambiguous")
  /\ UNCHANGED <<pause, tokens>>

\* defer_task_for_user_decision: the cycle works on
WorkDefers(c) ==
  /\ May("decide")
  /\ Runs(c, {"working"}) /\ op[c].st = "invoking"
  /\ S!DeferDecision(c)
  /\ UNCHANGED <<ledger, tokens, consumers, tasks>>

\* _publish_user_decision_request
WorkAsks(c) ==
  /\ Runs(c, {"working"}) /\ op[c].st = "invoking"
  /\ S!PublishDecision(c)
  /\ SetOp(c, NoCall)
  /\ TaskMoves(c, "ended")
  /\ UNCHANGED <<pause, tokens, consumers>>

\* _enter_pause at a batch boundary: RunPaused passes the observers by
WorkPauses(c) ==
  /\ pause /\ Runs(c, {"working"}) /\ op[c].st = "invoking"
  /\ S!SetCycleAndRun(c, "paused", "paused")
  /\ SetOp(c, NoCall) /\ pause' = FALSE
  /\ TaskEnds(c, "paused")
  /\ UNCHANGED tokens

\* synthesis, or a required task that failed or is blocked; a question that
\* waits to be published comes first
WorkEnds(c) ==
  /\ Runs(c, {"working"}) /\ op[c].st = "invoking" /\ dec[c] # "collecting"
  /\ \E status \in S!TerminalCycle \ {"canceled"} : S!SetCycleAndRun(c, status, status)
  /\ SetOp(c, NoCall) /\ pause' = FALSE
  /\ TaskMoves(c, "ended")
  /\ UNCHANGED <<tokens, consumers>>

\* _settle_failed, for any exception of the runtime
WorkFails(c) ==
  /\ Runs(c, {"working"})
  /\ S!SetCycleAndRun(c, "failed", "failed")
  /\ \E row \in LeftOpen(c) : SetOp(c, row)
  /\ pause' = FALSE
  /\ TaskMoves(c, "ended")
  /\ UNCHANGED <<tokens, consumers>>

\* the observers, then the task's end; settle_cycle raises for a cycle
\* without a request
TaskSettles(c) ==
  /\ task[c] = "ended"
  /\ IF cyc[c].request = 0
     THEN TaskEnds(c, "error") /\ UNCHANGED <<store, ledger, tokens>>
     ELSE TaskEnds(c, "ok") /\ OnSettled(c)
  /\ UNCHANGED <<server, claim, waiter, stops>>

CancelsWork(c) ==  \* mutant of CancelDelivered: planning swallows CancelledError
  /\ Alive /\ c \in doomed /\ task[c] = "working"
  /\ S!SetCycleAndRun(c, "canceled", "canceled") /\ pause' = FALSE
  /\ TaskEnds(c, "canceled")
  /\ UNCHANGED <<op, server, tokens, claim, waiter, stops>>

\* CancelledError reaches the task at its model call: _settle_canceled
CancelDelivered(c) ==
  /\ Alive /\ c \in doomed
  /\ IF task[c] = "working"
     THEN S!SetCycleAndRun(c, "canceled", "canceled") /\ pause' = FALSE
     ELSE UNCHANGED <<store, pause>>
  /\ TaskEnds(c, "canceled")
  /\ UNCHANGED <<op, server, tokens, claim, waiter, stops>>

Task(c) ==
  \/ StartPlan(c) \/ ReplayPlan(c) \/ PlanDone(c) \/ PlanFails(c)
  \/ StartResume(c) \/ ResumeRefused(c)
  \/ BackOff(c) \/ TryAgain(c) \/ ProviderWaits(c) \/ ProviderAmbiguous(c)
  \/ WorkDefers(c) \/ WorkAsks(c) \/ WorkPauses(c) \/ WorkEnds(c) \/ WorkFails(c)
  \/ TaskSettles(c) \/ CancelDelivered(c)

-----------------------------------------------------------------------------
(* The periodic loop: tick. *)

\* recover_due, in a thread; an emergency stop does not wait for it
RecoverDue ==
  /\ server \in {"up", "halting"} /\ claim = 0
  /\ \E c \in CycIds :
       /\ op[c].st = "waiting"
       /\ S!RecoverProvider(c, IF op[c].planning THEN "add_work" ELSE "later")
       /\ SetOp(c, Call("prepared", op[c].planning))
       /\ claim' = IF server = "up" THEN c ELSE 0
  /\ UNCHANGED <<pause, server, tokens, consumers, tasks, waiter, stops>>

\* resume_recovered_operation, back on the loop, unless the operation closed
ResumeClaim ==
  /\ Serving /\ claim # 0
  /\ IF op[claim].st = "none" THEN UNCHANGED tasks
     ELSE Schedule(claim, IF op[claim].planning THEN "plan_due" ELSE "resume_due")
  /\ claim' = 0
  /\ UNCHANGED <<store, ledger, server, tokens, consumers, waiter, stops>>

EnqueueDue ==
  /\ \/ \E s \in S!SerIds, r \in S!ReqIds, proposed \in BOOLEAN : S!EnqueueDue(s, r, proposed)
     \/ \E s \in S!SerIds : S!EndDueSeries(s)

TickEnqueues ==
  /\ Serving /\ EnqueueDue
  /\ tokens' = tokens + (IF req' # req THEN 1 ELSE 0)
  /\ UNCHANGED <<ledger, server, consumers, tasks, claim, waiter, stops>>

Tick == RecoverDue \/ ResumeClaim \/ TickEnqueues

-----------------------------------------------------------------------------
(* The handlers of api/team_runs.py. *)

\* trigger_cycle (with a repeat, it opens a series), and the commands of a series:
\* each leaves one request, and a token for it
TriggerCycle(r) ==
  \/ May("trigger") /\ S!EnqueueTriggered(r)
  \/ May("series") /\ \E s \in S!SerIds, t \in Targets : S!CreateAutoSeries(s, r, t)

RetryAutoCycle(r) == May("series") /\ \E s \in S!SerIds : S!RetryFailed(s, r)

RestartAutoSeries(r) == May("series") /\ \E s \in S!SerIds : S!RestartSeries(s, r)

Enqueue ==
  /\ Serving
  /\ \E r \in S!ReqIds : TriggerCycle(r) \/ RetryAutoCycle(r) \/ RestartAutoSeries(r)
  /\ tokens' = tokens + 1
  /\ UNCHANGED <<ledger, server, consumers, tasks, claim, waiter, stops>>

\* a synchronous handler: it runs in a thread
Continue ==
  /\ May("continue") /\ server = "up"
  /\ \E s \in S!SerIds : S!ContinueFailed(s)
  /\ UNCHANGED <<ledger, server, tokens, consumers, tasks, claim, waiter, stops>>

Answer ==
  /\ May("answer") /\ Serving /\ reg = 0
  /\ \E c \in CycIds : S!AnswerDecision(c) /\ Schedule(c, "resume_due")
  /\ UNCHANGED <<ledger, server, tokens, consumers, claim, waiter, stops>>

\* the first interrupted or paused cycle of list_cycles
ResumeCandidate(c) == S!InterruptedCycle({"interrupted", "paused"}, c)

Ambiguous == {c \in CycIds : op[c].st = "ambiguous"}

ResumePlain ==
  /\ Ambiguous = {}
  /\ \E c \in CycIds : ResumeCandidate(c) /\ Schedule(c, "resume_due")
  /\ UNCHANGED <<store, op>>

\* prepare_explicit_resume: the gateway's session list decides whether the
\* ambiguous call can be taken up again
ResumeAmbiguous ==
  /\ \E c \in CycIds : ResumeCandidate(c)
  /\ \E c \in CycIds :
       /\ Ambiguous = {c}
       /\ S!RecoverProvider(c, IF op[c].planning THEN "add_work" ELSE "later")
       /\ SetOp(c, Call("prepared", op[c].planning))
       /\ Schedule(c, IF op[c].planning THEN "plan_due" ELSE "resume_due")

Resume ==
  /\ May("resume") /\ Serving /\ reg = 0 /\ run \in {"interrupted", "paused"}
  /\ ResumePlain \/ ResumeAmbiguous
  /\ UNCHANGED <<pause, server, tokens, consumers, claim, waiter, stops>>

Pause ==
  /\ May("pause") /\ Listening /\ run = "running"
  /\ IF reg # 0 THEN pause' = TRUE /\ UNCHANGED store
                ELSE S!SetRun("paused") /\ UNCHANGED pause
  /\ UNCHANGED <<op, server, tokens, consumers, tasks, claim, waiter, stops>>

\* _cancel_run closes the open operations of the cycles it cancels with.
CancelWithCalls ==
  /\ S!CancelRun
  /\ op' = [c \in CycIds |-> IF op[c].st = "none" THEN op[c] ELSE NoCall]

CancelNow == CancelWithCalls /\ pause' = FALSE

\* cancel_and_wait cancels the registered task and waits for its end.
Cancel ==
  /\ May("cancel") /\ Listening /\ waiter = 0
  /\ IF reg # 0
     THEN doomed' = doomed \cup {reg} /\ waiter' = reg /\ UNCHANGED <<store, ledger>>
     ELSE CancelNow /\ UNCHANGED <<doomed, waiter>>
  /\ UNCHANGED <<task, reg, server, tokens, consumers, claim, stops>>

CancelReturns ==
  /\ server \in Running /\ Quiet /\ CancelIsDue
  /\ CancelNow /\ waiter' = 0
  /\ UNCHANGED <<server, tokens, consumers, tasks, claim, stops>>

Reopen ==
  /\ May("reopen") /\ Listening /\ reg = 0
  /\ S!ReopenRun
  /\ UNCHANGED <<ledger, server, tokens, consumers, tasks, claim, waiter, stops>>

\* retry_team_task: the cycle is created, then frozen
RetryTask ==
  /\ May("retry_task") /\ Serving /\ reg = 0
  /\ \E c \in CycIds : S!RetryFailedTask(c) /\ TaskMoves(c, "unfrozen")
  /\ UNCHANGED <<ledger, server, tokens, consumers, claim, waiter, stops>>

RetryFreezes(c) ==
  /\ task[c] = "unfrozen" /\ TaskMoves(c, "none")
  /\ UNCHANGED store \/ (May("freeze_fails") /\ S!SetCycle(c, "failed"))
  /\ UNCHANGED <<ledger, server, tokens, consumers, claim, waiter, stops>>

Handlers ==
  \/ Enqueue \/ Continue \/ Answer \/ Resume \/ Pause \/ Cancel \/ CancelReturns \/ Reopen
  \/ RetryTask \/ \E c \in CycIds : RetryFreezes(c)

-----------------------------------------------------------------------------
(* Stopping the process. *)

ProcessEnds ==
  /\ server' = "down"
  /\ tokens' = 0
  /\ wk' = [w \in Workers |-> Off]
  /\ marks' = {}
  /\ task' = [c \in CycIds |-> "none"]
  /\ doomed' = {} /\ reg' = 0
  /\ claim' = 0 /\ waiter' = 0

\* A crash may fall between the two writes of a pair, or between an answer
\* and its application.
CutShort(c) ==
  \/ /\ task[c] \in {"planning", "working"} /\ op[c].st = "invoking"
     /\ SetOp(c, Call("completed", op[c].planning)) /\ UNCHANGED store
  \/ /\ task[c] = "planning" /\ op[c].st = "invoking"
     /\ SetOp(c, NoCall) /\ S!SetCycle(c, "running")
  \/ /\ task[c] = "resume_due" /\ op[c].st \notin {"waiting", "ambiguous"}
     /\ S!SetCycle(c, "running") /\ UNCHANGED op
  \/ /\ task[c] = "working" /\ op[c].st # "none"
     /\ \/ S!SetRun("failed")
        \/ dec[c] # "collecting" /\ S!SetRun("blocked")
        \/ pause /\ S!SetRun("paused")
     /\ SetOp(c, NoCall)
  \/ /\ task[c] = "working" /\ c \in doomed
     /\ S!SetRun("canceled") /\ UNCHANGED op

Crash ==
  /\ May("crash") /\ server # "down" /\ stops < MaxStops
  /\ \/ UNCHANGED <<store, op>>
     \/ \E c \in CycIds : LoopFree /\ CutShort(c)
  /\ ProcessEnds /\ stops' = stops + 1
  /\ UNCHANGED pause

\* stop(interrupt_active=True) cancels every worker; one that awaits a task
\* cancels the task with itself.
Stopped(w) ==
  IF wk[w].pc = "idle" THEN Off ELSE wk[w]

StopWorkers ==
  /\ claim' = 0
  /\ wk' = [w \in Workers |-> Stopped(w)]
  /\ doomed' = doomed \cup {c \in CycIds : \E w \in Workers : Awaits(w, c)}
  /\ UNCHANGED <<store, ledger, tokens, marks, task, reg, waiter>>

WorkersAreGone == \A w \in Workers : wk[w].pc = "off"

Shutdown ==
  /\ May("shutdown") /\ Listening /\ server \in {"up", "halted"} /\ waiter = 0
  /\ stops < MaxStops
  /\ server' = "stopping" /\ stops' = stops + 1
  /\ StopWorkers

\* registry.cancel_all("shutdown"), once the workers are gone
CancelRegistered ==
  /\ server = "stopping" /\ Quiet /\ WorkersAreGone
  /\ IF reg = 0 THEN ProcessEnds
     ELSE /\ server' = "canceling"
          /\ doomed' = doomed \cup {reg}
          /\ UNCHANGED <<tokens, consumers, task, reg, claim, waiter>>
  /\ UNCHANGED <<store, ledger, stops>>

\* interrupt_run(include_canceled=True) for the runs that had a task
Exit ==
  /\ server = "canceling" /\ Quiet /\ doomed = {}
  /\ IF run \in {"running", "waiting_for_provider", "canceled"} THEN S!InterruptRun(TRUE)
                                                                ELSE UNCHANGED store
  /\ ProcessEnds
  /\ UNCHANGED <<ledger, stops>>

Stops == Crash \/ Shutdown \/ CancelRegistered \/ Exit

-----------------------------------------------------------------------------
(* EmergencyStopService: the intake is closed, the loop and the workers are *)
(* stopped, the run is canceled, and so is what is still registered.        *)

\* A second stop finds no workers.
EmergencyStop ==
  /\ May("emergency") /\ Listening /\ server \in {"up", "halted"}
  /\ server' = "halting" /\ UNCHANGED stops
  /\ StopWorkers

\* discard_pending; cancel_all_active looks for requests and series
HasActiveWork ==
  \/ \E r \in S!ReqIds : req[r].status \in S!Live
  \/ \E s \in S!SerIds : ser[s].status \in S!ActiveSeries

CancelActive ==
  /\ server = "halting" /\ server' = "canceled" /\ Quiet /\ WorkersAreGone
  /\ tokens' = 0
  /\ IF HasActiveWork THEN CancelWithCalls ELSE UNCHANGED <<store, op>>
  /\ UNCHANGED <<pause, consumers, tasks, claim, waiter, stops>>

LeavesTasks ==  \* mutant of CancelTasks: the workers' tasks were all there were
  /\ server = "canceled" /\ Quiet /\ server' = "halted"
  /\ UNCHANGED <<store, ledger, tokens, consumers, tasks, claim, waiter, stops>>

\* TeamRunRegistry.cancel_all
CancelTasks ==
  /\ server = "canceled" /\ Quiet
  /\ IF reg = 0 THEN server' = "halted" /\ UNCHANGED doomed
                 ELSE server' = "gathering" /\ doomed' = doomed \cup {reg}
  /\ UNCHANGED <<store, ledger, tokens, consumers, task, reg, claim, waiter, stops>>

StopAnswers ==
  /\ server = "gathering" /\ server' = "halted" /\ Quiet /\ doomed = {}
  /\ CancelWithCalls
  /\ UNCHANGED <<pause, tokens, consumers, tasks, claim, waiter, stops>>

ResumeIntake ==
  /\ Listening /\ server = "halted" /\ server' = "up"
  /\ wk' = [w \in Workers |-> IdleWorker]
  /\ UNCHANGED <<store, ledger, tokens, marks, tasks, claim, waiter, stops>>

Emergency == EmergencyStop \/ CancelActive \/ CancelTasks \/ StopAnswers \/ ResumeIntake

-----------------------------------------------------------------------------
(* Starting the process: the lifespan of app.py, one transaction a step.   *)

Phase(from, to) ==
  /\ server = from /\ server' = to
  /\ UNCHANGED <<pause, consumers, claim, waiter, stops>>

HasOpenCall == \E c \in CycIds : op[c].st # "none"

Boot == Phase("down", "interrupt_active") /\ UNCHANGED <<store, op, tokens, tasks>>

\* a run that waits for its provider keeps waiting
InterruptActive ==
  /\ Phase("interrupt_active", "reconcile_ops")
  /\ IF run = "running" /\ ~HasOpenCall THEN S!InterruptRun(FALSE) ELSE UNCHANGED store
  /\ UNCHANGED <<op, tokens, tasks>>

\* _cancel_for_canceled_source
SourceCanceled(c) ==
  "canceled" \in {run, cyc[c].status} \cup
                 (IF cyc[c].request = 0 THEN {} ELSE {req[cyc[c].request].status})

Unreconciled(c) ==
  op[c].st = "invoking" \/ (op[c].st # "none" /\ SourceCanceled(c))

\* reconcile_startup, one operation a transaction: a call in flight when the
\* process stopped is ambiguous
ReconcileOp(c) ==
  /\ server = "reconcile_ops" /\ Unreconciled(c)
  /\ IF SourceCanceled(c)
     THEN SetOp(c, NoCall) /\ UNCHANGED store
     ELSE /\ SetOp(c, Call("ambiguous", op[c].planning))
          /\ S!SetCycleAndRun(c, "interrupted", "interrupted")
  /\ UNCHANGED <<pause, server, tokens, consumers, tasks, claim, waiter, stops>>

OpsReconciled ==
  /\ Phase("reconcile_ops", "reconcile_decisions")
  /\ \A c \in CycIds : ~Unreconciled(c)
  /\ UNCHANGED <<store, op, tokens, tasks>>

\* the cycles start() resumes: runnable or locally applicable operations
Resumable == {c \in CycIds : op[c].st \in {"prepared", "completed"}}

ReconcileDecisions ==
  /\ Phase("reconcile_decisions", "interrupt_cycles")
  /\ IF S!OpenDecisions(Resumable) = {} THEN UNCHANGED store
                                        ELSE S!ReconcileLifecycle(Resumable)
  /\ UNCHANGED <<op, tokens, tasks>>

AllAreResumed(c) == c \notin CycIds  \* mutant of NotResumed

NotScheduled(c) ==  \* mutant of NotResumed: whatever the cycle waits for
  Dispatching(c) /\ c \notin Resumable /\ ~Over(c)

\* a dispatching request's cycle that nothing is going to run
NotResumed(c) ==
  Dispatching(c) /\ c \notin Resumable /\ cyc[c].status \in {"queued", "running"}

InterruptCycles ==
  /\ Phase("interrupt_cycles", "reconcile_requests")
  /\ IF \E c \in CycIds : NotResumed(c)
     THEN \E c \in CycIds : NotResumed(c) /\ S!SetCycle(c, "interrupted")
     ELSE UNCHANGED store
  /\ UNCHANGED <<op, tokens, tasks>>

\* TeamCycleService.reconcile
ReconcileRequests ==
  /\ Phase("reconcile_requests", "enqueue_due")
  /\ \/ \E r \in S!ReqIds : S!RequeueClaim(r)
     \/ \E c \in CycIds : S!SettleCycle(c) \/ S!PauseSeries(c)
     \/ /\ ~\E r \in S!ReqIds : req[r].status = "dispatching" /\ S!CycleOf(r) = {}
        /\ ~\E c \in CycIds : Dispatching(c) /\ (Over(c) \/ Parked(c))
        /\ UNCHANGED store
  /\ UNCHANGED <<op, tokens, tasks>>

BootEnqueues ==
  /\ server = "enqueue_due" /\ EnqueueDue
  /\ UNCHANGED <<ledger, server, tokens, consumers, tasks, claim, waiter, stops>>

\* The workers start, the resumable cycles are scheduled (the last one is
\* registered), and a runnable run gets its token.
Serve ==
  /\ server = "enqueue_due" /\ server' = "up"
  /\ wk' = [w \in Workers |-> IdleWorker]
  /\ task' = [c \in CycIds |-> IF c \notin Resumable THEN "none"
                               ELSE IF op[c].planning THEN "plan_due" ELSE "resume_due"]
  /\ reg' \in (IF Resumable = {} THEN {0} ELSE Resumable)
  /\ tokens' = IF run # "canceled" /\ S!QueueReady(req) THEN 1 ELSE 0
  /\ UNCHANGED <<store, ledger, marks, doomed, claim, waiter, stops>>

Starts ==
  \/ Boot \/ InterruptActive \/ (\E c \in CycIds : ReconcileOp(c)) \/ OpsReconciled
  \/ ReconcileDecisions \/ InterruptCycles \/ ReconcileRequests \/ BootEnqueues \/ Serve

Next ==
  \/ \E w \in Workers : Worker(w)
  \/ \E c \in CycIds : Task(c) \/ MarkerInterrupts(c)
  \/ Tick \/ Handlers \/ Stops \/ Emergency \/ Starts

Spec == Init /\ [][Next]_vars

\* The event loop runs every callback that stays ready (strongly: a handler
\* may put it off, but not for ever), the lifespan and the tick go on, and a
\* model call that is repeated or waited for again and again is answered.
Answered(c) == PlanDone(c) \/ WorkAsks(c) \/ WorkPauses(c) \/ WorkEnds(c)

TaskRuns(c) ==
  \/ StartPlan(c) \/ ReplayPlan(c) \/ StartResume(c) \/ ResumeRefused(c)
  \/ TryAgain(c) \/ TaskSettles(c) \/ CancelDelivered(c)

Fairness ==
  /\ \A w \in Workers : SF_vars(Worker(w))
  /\ \A c \in CycIds : /\ WF_vars(TaskRuns(c)) /\ SF_vars(Answered(c))
                        /\ WF_vars(MarkerInterrupts(c)) /\ WF_vars(RetryFreezes(c))
  /\ SF_vars(ResumeClaim) /\ SF_vars(CancelReturns) /\ WF_vars(RecoverDue)
  /\ WF_vars(TickEnqueues)
  /\ SF_vars(CancelActive) /\ SF_vars(CancelTasks) /\ SF_vars(StopAnswers)
  /\ WF_vars(CancelRegistered) /\ WF_vars(Exit) /\ WF_vars(Starts)

FairSpec == Spec /\ Fairness

-----------------------------------------------------------------------------
(* Properties. *)

\* Whatever the workers, tasks, handlers, crashes and restarts do, they use
\* the tables as CycleStore promises: set_cycle_status and set_run_status,
\* which check nothing, are only called along its table of transitions.
Implements == S!Spec

\* At most one cycle of a run is executed at a time.
Executing(c) == task[c] \in {"planning", "working"}

OneExecution == \A c, d \in CycIds : Executing(c) /\ Executing(d) => c = d

\* A wakeup is never lost: while a request can be claimed, a token is queued.
NoLostWakeup == Serving /\ run # "canceled" /\ S!QueueReady(req) => tokens > 0

\* A cycle that the tables call running is being run: it has a task, or its
\* recovery is claimed.
RunningIsRun ==
  Serving /\ waiter = 0 =>
    \A c \in CycIds : cyc[c].status = "running" => task[c] # "none" \/ claim = c

\* The tick finds every call that waits for its provider: it looks for runs
\* and cycles in waiting_for_provider that a dispatching request owns.
WaitingIsPolled ==
  Serving => \A c \in CycIds : op[c].st = "waiting" =>
               cyc[c].status = "waiting_for_provider" /\ run = cyc[c].status /\ Dispatching(c)

\* No cycle is stranded: what the tables call running is run, and what waits for
\* its provider is polled.
NoCycleIsStranded == RunningIsRun /\ WaitingIsPolled

\* What POST /cancel and POST /pause reach is what runs: the registry holds
\* the task that is being executed, and never one that is over.
RegistryIsExact ==
  Serving => \A c \in CycIds : task[c] # "none" <=> reg = c

\* What runs is known: one cycle at a time, and the one the registry holds.
ExecutionIsKnown == OneExecution /\ RegistryIsExact

\* When an emergency stop has answered and until the intake opens, nothing of the
\* run is executed, claimed or queued, and no wakeup is left, although recovered and
\* resumed tasks have no worker that would be stopped with them (stop, cancel_all).
EmergencyStopHolds ==
  server = "halted" /\ Quiet =>
    /\ tokens = 0 /\ \A c \in CycIds : task[c] = "none" /\ op[c].st # "invoking"
    /\ ~HasActiveWork /\ run # "running"

\* A question of a live cycle and run can be answered: whatever stopped in
\* between, the run, the cycle, its series and its request are where
\* answer_decision_request and the settlement of the answered cycle want them.
QuestionIsAnswerable ==
  Serving /\ run \notin S!TerminalRun =>
    \A c \in CycIds : dec[c] = "awaiting_user" /\ ~Over(c) =>
      /\ run = "waiting_for_user" /\ cyc[c].status = "waiting_for_user"
      /\ S!SeriesOf(c) # 0 => ser[S!SeriesOf(c)].status = "paused_user"
      /\ cyc[c].request # 0 => Dispatching(c)

\* A request that may be claimed is claimed, whatever stops and restarts.
Claimable == run # "canceled" /\ S!QueueReady(req)
QueueMovesOn == Claimable ~> ~Claimable

\* A dispatching request is settled, canceled or parked for the user: it is
\* never left to nobody while it blocks the FIFO.
LeftToUser(r) ==
  \E c \in S!CycleOf(r) : cyc[c].status \in {"waiting_for_user", "interrupted", "paused"}

RequestMovesOn ==
  \A r \in S!ReqIds :
    req[r].status = "dispatching" ~> req[r].status # "dispatching" \/ LeftToUser(r)

\* The FIFO moves: a request is claimed, and what was claimed settles or is left
\* to the user.
WorkMovesOn == QueueMovesOn /\ RequestMovesOn

CancelAnswers == waiter # 0 ~> waiter = 0
StopEnds == server \in {"stopping", "canceling"} ~> server = "down"
EmergencyStopEnds == server \in EmergencyPhases ~> server \notin EmergencyPhases

\* POST /cancel answers, a graceful stop ends and so does an emergency stop, although
\* they wait for tasks that may themselves be between two awaits (cancel_and_wait, stop).
CommandsEnd == CancelAnswers /\ StopEnds /\ EmergencyStopEnds
=============================================================================
