------------------------------ MODULE JobQueue ------------------------------
(***************************************************************************)
(* Jobs and schedules: the tables of jobs.py and schedules.py, the worker  *)
(* and its queue (job_worker.py), the scheduler loop (scheduler_loop.py),  *)
(* the handlers of api/jobs.py and api/schedules.py, the intake gate and   *)
(* the emergency stop's job part (intake.py, emergency_stop.py), start-up, *)
(* graceful shutdown and crashes (app.py).                                 *)
(*                                                                         *)
(* Every SQL statement commits by itself, so a method of JobService with   *)
(* two statements can be cut by a crash.  Worker, scheduler and the async  *)
(* handlers share the event loop: `loop` holds the section that is between *)
(* two statements, and no other section runs until it is free.  What runs  *)
(* in a thread (deny, pause, resume and delete of a schedule) does not     *)
(* wait for it.                                                            *)
(*                                                                         *)
(* Not modelled: chat jobs (history rows no action here touches), events,  *)
(* artifacts, cron arithmetic: one unit of the clock is one occurrence of  *)
(* every schedule.                                                         *)
(***************************************************************************)
EXTENDS Naturals, Sequences, FiniteSets, Functions

CONSTANTS
  MaxJobs,    \* rows of table jobs
  Schedules,  \* rows of table schedules
  Broken,     \* schedules whose capability the registry no longer has
  Guarded,    \* schedules whose capability requires approval
  MaxTime,    \* occurrences of the cron expressions
  MaxStops    \* how often the process ends

ASSUME BoundsAreNat == {MaxJobs, MaxTime, MaxStops} \subseteq Nat
ASSUME KindsOfSchedules == IsFiniteSet(Schedules) /\ Broken \cup Guarded \subseteq Schedules

VARIABLES
  status, guarded, approval,  \* jobs.status, whether approval_id is set, approvals.status
  origin,    \* of a job a tick made: the schedule, the occurrence, the process it ran in
  starts,    \* how often a job's runner was started
  sched, nextRun,  \* schedules.enabled, schedules.next_run_at
  clock,
  queue,     \* JobWorker._queue
  worker,    \* JobWorker._task: its job while a runner runs
  loop,      \* the section that holds the event loop between two statements
  deny,      \* the thread of POST /deny (bound: one at a time)
  gate,      \* IntakeGate._open
  stop,      \* EmergencyStopService.stop, and its targets
  stray,     \* queued jobs of a tick that failed before it enqueued them
  server     \* whether the process runs, and how often it was started

jobs == <<status, guarded, approval, origin, starts>>
plans == <<sched, nextRun, clock>>
consumer == <<queue, worker>>
intake == <<gate, stop>>
vars == <<jobs, plans, consumer, loop, deny, intake, stray, server>>

Jobs == 1..MaxJobs
Active == {"queued", "running"}
Retriable == {"failed", "canceled"}
Statuses == Active \cup Retriable \cup {"absent", "waiting_approval", "succeeded"}

NoJob == 0
Holds(section, j) == [at |-> section, job |-> j, due |-> <<>>, made |-> <<>>]
Free == Holds("free", NoJob)
NoDeny == [at |-> "none", job |-> NoJob]
NoStop == [at |-> "none", targets |-> {}]
NoOccurrence == <<"none", 0, 0>>  \* the origin of a job no tick made

LoopFree == server.up /\ loop = Free
AnyIntake == LoopFree  \* mutant of Serving: the gate is not asked
Serving == LoopFree /\ gate = "open"  \* require_intake_open lets a handler in
InState(states) == {j \in Jobs : status[j] \in states}
Listings(set) == [1..Cardinality(set) -> set]  \* rows a query returns, before `order by`
WithStatus(set, to) == [j \in Jobs |-> IF j \in set THEN to ELSE status[j]]

Init ==
  /\ status = [j \in Jobs |-> "absent"]
  /\ guarded = [j \in Jobs |-> FALSE]
  /\ approval = [j \in Jobs |-> "none"]
  /\ origin = [j \in Jobs |-> NoOccurrence]
  /\ starts = [j \in Jobs |-> 0]
  /\ sched = [s \in Schedules |-> IF s \in Broken THEN "enabled" ELSE "absent"]
  /\ nextRun = [s \in Schedules |-> 1]
  /\ clock = 0
  /\ queue = <<>>
  /\ worker = [at |-> "off", job |-> NoJob]
  /\ loop = Free
  /\ deny = NoDeny
  /\ gate = "open"
  /\ stop = NoStop
  /\ stray = {}
  /\ server = [up |-> FALSE, life |-> 0]

-----------------------------------------------------------------------------
(* JobService.create_job: the row, then its approval. *)

CreatedQueued(needsApproval) == "queued"  \* mutant of CreatedStatus
CreatedStatus(needsApproval) == IF needsApproval THEN "waiting_approval" ELSE "queued"

CreateRow(j, needsApproval, from) ==
  /\ status[j] = "absent" /\ \A i \in 1..(j - 1) : status[i] # "absent"
  /\ status' = [status EXCEPT ![j] = CreatedStatus(needsApproval)]
  /\ guarded' = [guarded EXCEPT ![j] = needsApproval]
  /\ origin' = [origin EXCEPT ![j] = from]
  /\ UNCHANGED <<approval, starts>>

\* A handler creates a job; without approval it is enqueued before the loop is free.
HandlerCreates(needsApproval) ==
  \E j \in Jobs :
    /\ CreateRow(j, needsApproval, NoOccurrence)
    /\ IF needsApproval
         THEN loop' = Holds("ask", j) /\ UNCHANGED queue
         ELSE queue' = Append(queue, j) /\ UNCHANGED loop
    /\ UNCHANGED <<plans, worker, deny, intake, stray, server>>

CreateJob == Serving /\ \E needsApproval \in BOOLEAN : HandlerCreates(needsApproval)

RetryJob(j) ==
  Serving /\ status[j] \in Retriable /\ HandlerCreates(guarded[j])

RunNow(s) ==
  /\ Serving /\ s \notin Broken /\ sched[s] \in {"enabled", "paused"}
  /\ HandlerCreates(s \in Guarded)

InsertApproval ==
  /\ loop.at = "ask"
  /\ approval' = [approval EXCEPT ![loop.job] = "pending"]
  /\ loop' = IF Len(loop.due) = 0 THEN Free ELSE [loop EXCEPT !.at = "move"]
  /\ UNCHANGED <<status, guarded, origin, starts, plans, consumer, deny, intake, stray, server>>

-----------------------------------------------------------------------------
(* Approve (on the loop) and deny (in a thread): read, decide, set status. *)

Decided(j, decision) == IF approval[j] = "none" THEN approval ELSE [approval EXCEPT ![j] = decision]

ApproveJob(j) ==
  /\ Serving /\ status[j] = "waiting_approval"
  /\ loop' = Holds("approve", j)
  /\ UNCHANGED <<jobs, plans, consumer, deny, intake, stray, server>>

ApproveDecides ==
  /\ loop.at = "approve"
  /\ approval' = Decided(loop.job, "approved")
  /\ loop' = [loop EXCEPT !.at = "release"]
  /\ UNCHANGED <<status, guarded, origin, starts, plans, consumer, deny, intake, stray, server>>

ApproveEnqueues ==
  /\ loop.at = "release"
  /\ status' = WithStatus({loop.job}, "queued")
  /\ queue' = Append(queue, loop.job)
  /\ loop' = Free
  /\ UNCHANGED <<guarded, approval, origin, starts, plans, worker, deny, intake, stray, server>>

DenyJob(j) ==
  /\ server.up /\ status[j] = "waiting_approval" /\ deny = NoDeny
  /\ deny' = [at |-> "read", job |-> j]
  /\ UNCHANGED <<jobs, plans, consumer, loop, intake, stray, server>>

DenyDecides ==
  /\ deny.at = "read"
  /\ approval' = Decided(deny.job, "denied")
  /\ deny' = [deny EXCEPT !.at = "decided"]
  /\ UNCHANGED <<status, guarded, origin, starts, plans, consumer, loop, intake, stray, server>>

DenyCancels ==
  /\ deny.at = "decided"
  /\ status' = WithStatus({deny.job}, "canceled")
  /\ deny' = NoDeny
  /\ UNCHANGED <<guarded, approval, origin, starts, plans, consumer, loop, intake, stray, server>>

-----------------------------------------------------------------------------
(* Schedules: the handlers, and the scheduler loop's tick. *)

SetSchedule(s, to) == sched' = [sched EXCEPT ![s] = to]
SetNextRun(s) == nextRun' = [nextRun EXCEPT ![s] = clock + 1]

CreateSchedule(s) ==
  /\ server.up /\ gate = "open" /\ sched[s] = "absent"
  /\ SetSchedule(s, "enabled") /\ SetNextRun(s)
  /\ UNCHANGED <<jobs, clock, consumer, loop, deny, intake, stray, server>>

PauseSchedule(s) ==
  /\ server.up /\ sched[s] = "enabled" /\ SetSchedule(s, "paused")
  /\ UNCHANGED <<jobs, nextRun, clock, consumer, loop, deny, intake, stray, server>>

ResumeSchedule(s) ==
  /\ server.up /\ gate = "open" /\ sched[s] \in {"enabled", "paused"}
  /\ SetSchedule(s, "enabled") /\ SetNextRun(s)
  /\ UNCHANGED <<jobs, clock, consumer, loop, deny, intake, stray, server>>

DeleteSchedule(s) ==
  /\ server.up /\ sched[s] \in {"enabled", "paused"}
  /\ SetSchedule(s, "deleted") /\ nextRun' = [nextRun EXCEPT ![s] = 1]  \* the row is gone
  /\ UNCHANGED <<jobs, clock, consumer, loop, deny, intake, stray, server>>

TimePasses ==
  /\ loop = Free /\ clock < MaxTime
  /\ clock' = clock + 1
  /\ UNCHANGED <<jobs, sched, nextRun, consumer, loop, deny, intake, stray, server>>

Due == {s \in Schedules : sched[s] = "enabled" /\ nextRun[s] <= clock}

Tick ==
  /\ Serving /\ Due # {} /\ Cardinality(Due) <= Cardinality(InState({"absent"}))  \* bound
  /\ \E order \in Listings(Due) :
       /\ \A a, b \in DOMAIN order :
            a < b => order[a] # order[b] /\ nextRun[order[a]] <= nextRun[order[b]]
       /\ loop' = [Holds("tick", NoJob) EXCEPT
                     !.due = [i \in DOMAIN order |-> <<order[i], nextRun[order[i]]>>]]
  /\ UNCHANGED <<jobs, plans, consumer, deny, intake, stray, server>>

TickCreates ==
  LET s == loop.due[1][1] IN
  /\ loop.at = "tick" /\ s \notin Broken
  /\ \E j \in Jobs :
       /\ CreateRow(j, s \in Guarded, <<s, loop.due[1][2], server.life>>)
       /\ loop' = [loop EXCEPT !.at = IF s \in Guarded THEN "ask" ELSE "move", !.job = j]
  /\ UNCHANGED <<plans, consumer, deny, intake, stray, server>>

\* The capability of the next due schedule is unknown: the whole tick ends here.
TickFails ==
  /\ loop.at = "tick" /\ loop.due[1][1] \in Broken
  /\ stray' = stray \cup Range(loop.made)
  /\ loop' = Free
  /\ UNCHANGED <<jobs, plans, consumer, deny, intake, server>>

AfterMoveAgain ==  \* mutant of AfterMove: the end of the due list is not seen
  /\ loop' = [loop EXCEPT !.at = "tick", !.job = NoJob, !.due = Tail(@)]
  /\ UNCHANGED queue

AfterMove ==
  LET made == IF guarded[loop.job] THEN loop.made ELSE Append(loop.made, loop.job) IN
  IF Len(loop.due) > 1
    THEN /\ loop' = [at |-> "tick", job |-> NoJob, due |-> Tail(loop.due), made |-> made]
         /\ UNCHANGED queue
    ELSE /\ loop' = Free
         /\ queue' = queue \o made

MovesOn(s) == IF sched[s] = "deleted" THEN UNCHANGED nextRun ELSE SetNextRun(s)

TickMoves ==
  /\ loop.at = "move" /\ MovesOn(loop.due[1][1])
  /\ AfterMove
  /\ UNCHANGED <<jobs, sched, clock, worker, deny, intake, stray, server>>

-----------------------------------------------------------------------------
(* JobWorker: run_one and the end of a run. *)

Idle == [at |-> "get", job |-> NoJob]
Off == [at |-> "off", job |-> NoJob]

\* A job that is not queued any more is skipped: mark_running raises, nothing is written.
WorkerTakes ==
  /\ LoopFree /\ worker.at = "get" /\ queue # <<>> /\ stop.at # "cancel"
  /\ queue' = Tail(queue)
  /\ IF status[Head(queue)] = "queued"
       THEN loop' = Holds("mark", Head(queue))
       ELSE UNCHANGED loop
  /\ UNCHANGED <<jobs, plans, worker, deny, intake, stray, server>>

WorkerStarts ==
  /\ loop.at = "mark"
  /\ status' = WithStatus({loop.job}, "running")
  /\ starts' = [starts EXCEPT ![loop.job] = @ + 1]
  /\ worker' = [at |-> "run", job |-> loop.job]
  /\ loop' = Free
  /\ UNCHANGED <<guarded, approval, origin, plans, queue, deny, intake, stray, server>>

\* run_one after the runner: its job may have been canceled meanwhile, then nothing is written.
RunnerEnds ==
  /\ LoopFree /\ worker.at = "run" /\ stop.at # "cancel"
  /\ worker' = Idle
  /\ IF status[worker.job] = "running"
       THEN loop' = Holds("settle", worker.job)
       ELSE UNCHANGED loop
  /\ UNCHANGED <<jobs, plans, queue, deny, intake, stray, server>>

WorkerSettles ==
  /\ loop.at = "settle"
  /\ \E outcome \in {"succeeded", "failed"} : status' = WithStatus({loop.job}, outcome)
  /\ loop' = Free
  /\ UNCHANGED <<guarded, approval, origin, starts, plans, consumer, deny, intake, stray, server>>

-----------------------------------------------------------------------------
(* Emergency stop, seen from the jobs: between StopCloses and StopCancels the *)
(* service stops cycles, sessions and teams, and awaits the worker.           *)

StopCloses ==
  /\ LoopFree /\ stop.at \in {"none", "done"}
  /\ gate' = "closed" /\ stop' = [at |-> "closing", targets |-> {}]
  /\ UNCHANGED <<jobs, plans, consumer, loop, deny, stray, server>>

StopCancels ==
  /\ LoopFree /\ stop.at = "closing"
  /\ stop' = [at |-> "cancel", targets |-> InState(Active)]
  /\ UNCHANGED <<jobs, plans, consumer, loop, deny, gate, stray, server>>

Cancellable == {"get", "run"}

\* The cancelled worker's handler: _mark_canceled_if_active, and the task ends.
WorkerCancelled ==
  /\ LoopFree /\ stop.at = "cancel" /\ worker.at \in Cancellable
  /\ status' = WithStatus({j \in Jobs : j = worker.job /\ status[j] \in Active}, "canceled")
  /\ worker' = Off
  /\ UNCHANGED <<guarded, approval, origin, starts, plans>>
  /\ UNCHANGED <<queue, loop, deny, intake, stray, server>>

StopDrains ==
  /\ LoopFree /\ stop.at = "cancel" /\ worker.at = "off"
  /\ queue' = <<>>
  /\ loop' = Holds("stop", NoJob)
  /\ UNCHANGED <<jobs, plans, worker, deny, intake, stray, server>>

StopCancelsJob(j) ==
  /\ loop.at = "stop" /\ j \in stop.targets
  /\ status' = IF status[j] \in Active THEN WithStatus({j}, "canceled") ELSE status
  /\ stop' = [stop EXCEPT !.targets = @ \ {j}]
  /\ UNCHANGED <<guarded, approval, origin, starts, plans>>
  /\ UNCHANGED <<consumer, loop, deny, gate, stray, server>>

WorkerStaysOff == Off  \* mutant of WorkerAfterStop: the worker is not started again
WorkerAfterStop == Idle

StopEnds ==
  /\ loop.at = "stop" /\ stop.targets = {}
  /\ worker' = WorkerAfterStop
  /\ stop' = [stop EXCEPT !.at = "done"]
  /\ loop' = Free
  /\ UNCHANGED <<jobs, plans, queue, deny, gate, stray, server>>

\* The owner opens the intake again after the stop was reported.
ResumeIntake ==
  /\ LoopFree /\ gate = "closed" /\ stop.at = "done"
  /\ gate' = "open" /\ stop' = NoStop
  /\ UNCHANGED <<jobs, plans, consumer, loop, deny, stray, server>>

-----------------------------------------------------------------------------
(* The process. *)

\* Start-up: what ran has failed, what is queued is enqueued, the youngest first.
RecoverNothing == status  \* mutants of Recovered
RecoverQueued == WithStatus(InState({"running"}), "queued")
RecoverStarted == WithStatus({j \in Jobs : starts[j] > 0}, "failed")
Recovered == WithStatus(InState({"running"}), "failed")
RequeueNothing == {}  \* mutant of Requeued
Requeued == {j \in Jobs : Recovered[j] = "queued"}

Start ==
  /\ ~server.up
  /\ server' = [up |-> TRUE, life |-> server.life + 1]
  /\ status' = Recovered
  /\ \E order \in Listings(Requeued) :
       /\ \A a, b \in DOMAIN order : a < b => order[a] > order[b]
       /\ queue' = order
  /\ worker' = Idle
  /\ UNCHANGED <<guarded, approval, origin, starts, plans, loop, deny, intake, stray>>

MemoryIsLost ==
  /\ server' = [server EXCEPT !.up = FALSE]
  /\ queue' = <<>> /\ worker' = Off /\ loop' = Free
  /\ deny' = NoDeny
  /\ gate' = "open" /\ stop' = NoStop /\ stray' = {}

Crash ==
  /\ server.up /\ server.life <= MaxStops
  /\ MemoryIsLost
  /\ UNCHANGED <<jobs, plans>>

\* A graceful stop waits for open requests; the cancelled worker fails its job.
Shutdown ==
  /\ LoopFree /\ server.life <= MaxStops
  /\ stop.at \in {"none", "done"} /\ deny = NoDeny
  /\ status' = WithStatus({j \in Jobs : j = worker.job /\ status[j] \in Active}, "failed")
  /\ MemoryIsLost
  /\ UNCHANGED <<guarded, approval, origin, starts, plans>>

-----------------------------------------------------------------------------
Section ==
  \/ InsertApproval \/ ApproveDecides \/ ApproveEnqueues
  \/ TickCreates \/ TickFails \/ TickMoves
  \/ WorkerStarts \/ WorkerSettles
  \/ (\E j \in Jobs : StopCancelsJob(j)) \/ StopEnds

User ==
  \/ CreateJob \/ DenyDecides \/ DenyCancels \/ StopCloses \/ ResumeIntake
  \/ \E j \in Jobs : RetryJob(j) \/ ApproveJob(j) \/ DenyJob(j)
  \/ \E s \in Schedules : \/ RunNow(s) \/ CreateSchedule(s) \/ PauseSchedule(s)
                          \/ ResumeSchedule(s) \/ DeleteSchedule(s)

Stopping == StopCancels \/ WorkerCancelled \/ StopDrains

Next ==
  \/ Section \/ User \/ Stopping \/ Tick \/ WorkerTakes \/ RunnerEnds
  \/ Start \/ Crash \/ Shutdown \/ TimePasses

\* The loop finishes a section it is in, returns to the worker again and again, and the
\* operator starts a process that ended.  Nothing makes a runner end or a user act.
Fairness ==
  /\ WF_vars(Section) /\ WF_vars(Stopping) /\ WF_vars(Start)
  /\ SF_vars(WorkerTakes)

Spec == Init /\ [][Next]_vars /\ Fairness

-----------------------------------------------------------------------------
HasJob == {"ask", "approve", "release", "move", "mark", "settle"}
Slots == Schedules \X (1..(MaxTime + 1))
Sections == [at : HasJob \cup {"free", "tick", "stop"}, job : Jobs \cup {NoJob},
             due : Seq(Slots), made : Seq(Jobs)]
Occurrences == (Schedules \cup {"none"}) \X (0..(MaxTime + 1)) \X (0..(MaxStops + 1))

TypesOfRows ==
  /\ status \in [Jobs -> Statuses] /\ guarded \in [Jobs -> BOOLEAN]
  /\ approval \in [Jobs -> {"none", "pending", "approved", "denied"}]
  /\ origin \in [Jobs -> Occurrences] /\ starts \in [Jobs -> Nat]
  /\ sched \in [Schedules -> {"absent", "enabled", "paused", "deleted"}]
  /\ nextRun \in [Schedules -> 1..(MaxTime + 1)] /\ clock \in 0..MaxTime

TypesInMemory ==
  /\ queue \in Seq(Jobs)
  /\ worker \in [at : {"off", "get"}, job : {NoJob}] \cup [at : {"run"}, job : Jobs]
  /\ loop \in Sections
  /\ deny \in {NoDeny} \cup [at : {"read", "decided"}, job : Jobs]
  /\ gate \in {"open", "closed"}
  /\ stop \in [at : {"none", "closing", "cancel", "done"}, targets : SUBSET Jobs]
  /\ stray \subseteq Jobs
  /\ server \in [up : BOOLEAN, life : 0..(MaxStops + 1)]

RowsAreAPrefix == \A i, j \in Jobs : i < j /\ status[j] # "absent" => status[i] # "absent"

\* A section that writes a job, the worker and a denial have one that exists; a tick under
\* way has a due schedule; a process that ended may be started again.
MemoryFitsRows ==
  /\ loop.at \in HasJob => loop.job \in Jobs /\ status[loop.job] # "absent"
  /\ worker.at = "run" => status[worker.job] # "absent"
  /\ deny # NoDeny => status[deny.job] # "absent"
  /\ loop.at \in {"tick", "move"} => Len(loop.due) > 0
  /\ ~server.up => server.life <= MaxStops

(* Types, and what memory holds fits the rows.                               *)
TypeOK == TypesOfRows /\ RowsAreAPrefix /\ TypesInMemory /\ MemoryFitsRows

(* While the process runs, a queued job is in the worker's queue, or in the  *)
(* hands of the tick that made it, or of a tick that failed: then only the   *)
(* next start enqueues it.  (SchedulerLoop.tick, JobWorker.enqueue)          *)
QueuedIsEnqueued ==
  server.up => \A j \in InState({"queued"}) :
    \/ j \in Range(queue) \cup Range(loop.made) \cup stray
    \/ loop.at \in {"mark", "move"} /\ loop.job = j
    \/ loop.at = "stop" /\ j \in stop.targets

(* A job marked running is the one the worker runs, or its process is gone.  *)
(* (JobWorker._run_loop, recover_interrupted_jobs)                           *)
RunningIsRun ==
  server.up => \A j \in InState({"running"}) :
    worker = [at |-> "run", job |-> j] \/ (loop.at = "settle" /\ loop.job = j)
                                       \/ (loop.at = "stop" /\ j \in stop.targets)

(* The tables say of a job what the worker, the queue and the event loop do  *)
(* with it, at every await of each of them.                                  *)
TablesMatchWorker == QueuedIsEnqueued /\ RunningIsRun

(* No restart, approval, denial or stop makes the command of a job run a     *)
(* second time: doing it again takes a new job.  (JobService.retry_job)      *)
RunsAtMostOnce == \A j \in Jobs : starts[j] <= 1

(* A command that needs approval does not run while its approval is pending: *)
(* not when retried, not when a schedule makes it, not after a restart.      *)
DecidedBeforeRun == \A j \in Jobs : guarded[j] /\ starts[j] > 0 => approval[j] # "pending"

(* One process makes one job for an occurrence of a schedule, whatever users *)
(* do to the schedule meanwhile.  (ScheduleService.create_due_jobs)          *)
OneJobPerOccurrence ==
  \A i, j \in Jobs : origin[i][2] > 0 /\ origin[i] = origin[j] => i = j

(* No job runs that nobody wanted: it was approved where that is asked for,  *)
(* and it is the only one of its occurrence.                                 *)
JobsAreJustified == DecidedBeforeRun /\ OneJobPerOccurrence

(* A settled job keeps its outcome, except against a section or a denial     *)
(* that read its status before it was settled.  (JobService._set_status      *)
(* writes without looking)                                                   *)
SettledStaysSettled ==
  [][\A j \in InState(Retriable \cup {"succeeded"}) :
       j \notin {loop.job, deny.job} => status'[j] = status[j]]_vars

(* From the answer of an emergency stop until the intake is opened again, no *)
(* job is queued or runs.  (EmergencyStopService.stop, IntakeGate)           *)
EmergencyStopHolds ==
  gate = "closed" /\ stop.at = "done" => InState(Active) = {} /\ worker.at # "run"

(* Unless a runner never ends, every queued job leaves the queue, across     *)
(* failed ticks' restarts, emergency stops and canceled jobs.                *)
QueueDrains ==
  <>[](worker.at = "run")
  \/ \A j \in Jobs :
       (status[j] = "queued" /\ j \notin stray) ~> (status[j] # "queued" \/ j \in stray)

(* An emergency stop is answered unless the process ends first, also while a *)
(* runner runs that would never end.  (JobWorker.emergency_stop)             *)
StopAnswers == (stop.at = "closing") ~> (stop.at \in {"none", "done"})

(* Neither queued jobs nor emergency stops wait for ever.                    *)
JobsMoveOn == QueueDrains /\ StopAnswers
=============================================================================
