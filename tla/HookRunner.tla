----------------------------- MODULE HookRunner -----------------------------
(***************************************************************************)
(* Hooks: polling of sources and their cursors (hooks.py, hook_loop.py,    *)
(* api/hooks.py), the runs recorded for their events (hook_runs.py), the   *)
(* worker that handles a run by a turn of an agent or by a cycle of a team *)
(* run, and the pairing of a run with its cycle (hook_runner.py), together *)
(* with the emergency stop (emergency_stop.py), start-up and shutdown.     *)
(*                                                                         *)
(* A run is named by its event, <<hook, number>>: the table is unique in   *)
(* (hook_id, dedup_key).  Polls run in threads, everything else on the     *)
(* event loop; `loop` holds the section that is between two transactions.  *)
(* The cycle of a run is CycleDispatcher's business: here its status       *)
(* moves as that module lets it, and what matters is who tells the hook    *)
(* run.  Not modelled: prompts, secrets, events, the projection of mails,  *)
(* the drafts of knowledge requests.                                       *)
(***************************************************************************)
EXTENDS Naturals, Sequences, FiniteSets, SequencesExt

CONSTANTS
  AgentHooks,  \* hooks whose events an agent or a persona handles by one turn
  TeamHooks,   \* hooks whose events become cycles of one triggered team run
  MaxEvents,   \* events of a source
  Arrivals,    \* the numbers of events the sources may have together
  MaxStops,    \* how often the process ends
  Mishaps      \* which of "user" (deletes, answers, resumes, cancels), "stop" occur

Hooks == AgentHooks \cup TeamHooks

ASSUME HooksAreFinite == IsFiniteSet(Hooks) /\ AgentHooks \cap TeamHooks = {}
ASSUME BoundsAreNat == {MaxEvents, MaxStops} \subseteq Nat
ASSUME ArrivalsAreBounded == Arrivals \subseteq [Hooks -> 0..MaxEvents]
ASSUME MishapsAreKnown == Mishaps \subseteq {"user", "stop"}

VARIABLES
  hook,     \* whether the row of table hooks is there
  coming,   \* events the source of a hook is going to have (bound)
  sent,     \* events it has
  cursor,   \* hooks.cursor_json
  status,   \* hook_runs.status
  links,    \* which of team_cycle_request_id and team_run_cycle_id are set
  team,     \* the request and the cycle of a run's event
  target,   \* whether the team run accepts requests
  turns,    \* turns an agent has begun for a run
  polls,    \* the polls in progress: the loop's tick and POST /run-now
  queue,    \* HookRunner._queue
  worker,   \* HookRunner._task
  loop,     \* the section that holds the event loop between two transactions
  gate,     \* IntakeGate._open
  stop,     \* EmergencyStopService.stop
  stray,    \* queued runs nobody enqueues before the next start
  late,     \* runs a poll recorded while the intake was closed
  server, lives  \* the phase of the process, and how often it was started

sources == <<hook, coming, sent, cursor>>
runs == <<status, links, turns>>
cycles == <<team, target>>
consumer == <<queue, worker>>
intake == <<gate, stop>>
ghosts == <<stray, late>>
process == <<server, lives>>
vars == <<sources, runs, cycles, polls, consumer, loop, intake, ghosts, process>>

Runs == Hooks \X (1..MaxEvents)
TeamRuns == TeamHooks \X (1..MaxEvents)
Pollers == {"tick", "now"}
Pending == {"queued", "running"}

\* Of `team`: a request's cycle that occupies the run, and its final states.
Occupying == {"running", "waiting_for_provider", "waiting_for_user", "interrupted"}
Finished == {"completed", "failed", "canceled"}

NoRun == <<"none", 0>>
NoPoll == [at |-> "none", todo |-> {}, hook |-> "none", next |-> 0, upto |-> 0, made |-> <<>>]
Free == [at |-> "free", run |-> NoRun]
Section(at, r) == [at |-> at, run |-> r]
NoStop == [at |-> "none", targets |-> {}]

Up == server = "up"
LoopFree == Up /\ loop = Free
InState(states) == {r \in Runs : status[r] \in states}
Linked(what) == {r \in Runs : what \in links[r]}

\* An update finds no row once the hook is deleted with its runs.
SetStatus(set, to) ==
  status' = [r \in Runs |-> IF r \in set /\ status[r] # "deleted" THEN to ELSE status[r]]
Link(r, what) ==
  links' = [links EXCEPT ![r] = IF status[r] = "deleted" THEN @ ELSE @ \cup {what}]

\* Every hook has been polled once: the first poll only sets the cursor.
Init ==
  /\ hook = [h \in Hooks |-> "kept"]
  /\ coming \in Arrivals /\ sent = [h \in Hooks |-> 0] /\ cursor = [h \in Hooks |-> 0]
  /\ status = [r \in Runs |-> "absent"] /\ links = [r \in Runs |-> {}]
  /\ turns = [r \in Runs |-> 0]
  /\ team = [r \in Runs |-> "none"] /\ target = "open"
  /\ polls = [p \in Pollers |-> NoPoll]
  /\ queue = <<>> /\ worker = [at |-> "off", run |-> NoRun]
  /\ loop = Free /\ gate = "open" /\ stop = NoStop
  /\ stray = {} /\ late = {}
  /\ server = "down" /\ lives = 0

-----------------------------------------------------------------------------
(* Hooks and their sources. *)

Arrive(h) ==
  /\ sent[h] < coming[h]
  /\ sent' = [sent EXCEPT ![h] = @ + 1]
  /\ UNCHANGED <<hook, coming, cursor, runs, cycles, polls, consumer, loop, intake, ghosts, process>>

\* Bound: users meddle with hooks and targets once there is an event.
Meddled(hooks) == "user" \in Mishaps /\ \E h \in hooks : sent[h] > 0

\* in a thread; hook_runs refer to the hook `on delete cascade`
DeleteHook(h) ==
  /\ Up /\ Meddled({h}) /\ hook[h] # "deleted"
  /\ hook' = [hook EXCEPT ![h] = "deleted"]
  /\ status' = [r \in Runs |-> IF r[1] = h THEN "deleted" ELSE status[r]]
  /\ links' = [r \in Runs |-> IF r[1] = h THEN {} ELSE links[r]]
  /\ UNCHANGED <<coming, sent, cursor, turns, cycles, polls, consumer, loop, intake, ghosts, process>>

-----------------------------------------------------------------------------
(* Polls.  A tick polls the due hooks one after the other and enqueues what  *)
(* all of them recorded; which hooks are enabled and due is up to users and  *)
(* time.                                                                     *)

Polling(p, state) ==
  /\ polls' = [polls EXCEPT ![p] = state]
  /\ UNCHANGED <<cycles, worker, loop, intake, process>>

\* Bound: a poll begins when it has something to find; others change nothing.
Begin(p, due) ==
  /\ LoopFree /\ gate = "open" /\ polls[p] = NoPoll
  /\ \E h \in due : sent[h] > cursor[h]
  /\ Polling(p, [NoPoll EXCEPT !.at = "next", !.todo = due])
  /\ UNCHANGED <<sources, runs, queue, ghosts>>

DueHooks == SUBSET {h \in Hooks : hook[h] = "kept"}

Tick == \E due \in DueHooks : Begin("tick", due)
RunNow(h) == hook[h] # "deleted" /\ Begin("now", {h})

\* a source's answer: what lies behind the cursor
Found(h) == [next |-> cursor[h] + 1, upto |-> sent[h]]

\* poll_hook reads the cursor and asks the source
PollReads(p, h) ==
  /\ polls[p].at = "next" /\ h \in polls[p].todo /\ hook[h] # "deleted"
  /\ Polling(p, [polls[p] EXCEPT !.at = "record", !.todo = @ \ {h}, !.hook = h,
                                 !.next = Found(h).next, !.upto = Found(h).upto])
  /\ UNCHANGED <<sources, runs, queue, ghosts>>

\* the adapter raises: only last_error is written
PollFails(p, h) ==
  /\ polls[p].at = "next" /\ h \in polls[p].todo /\ hook[h] # "deleted"
  /\ Polling(p, [polls[p] EXCEPT !.todo = @ \ {h}])
  /\ UNCHANGED <<sources, runs, queue, ghosts>>

\* get_hook of a deleted hook ends the poll; what it recorded is not enqueued
PollAborts(p) ==
  /\ polls[p].at = "next" /\ \E h \in polls[p].todo : hook[h] = "deleted"
  /\ Polling(p, NoPoll)
  /\ stray' = stray \cup ToSet(polls[p].made)
  /\ UNCHANGED <<sources, runs, queue, late>>

\* create_run: the event's run, unless it exists or its hook is gone
IsNew(r) == status[r] = "absent"

PollRecords(p) ==
  LET r == <<polls[p].hook, polls[p].next>> IN
  /\ polls[p].at = "record" /\ polls[p].next <= polls[p].upto
  /\ IF IsNew(r)
     THEN /\ SetStatus({r}, "queued")
          /\ Polling(p, [polls[p] EXCEPT !.next = @ + 1, !.made = Append(@, r)])
          /\ late' = IF gate = "open" THEN late ELSE late \cup {r}
     ELSE /\ Polling(p, [polls[p] EXCEPT !.next = @ + 1])
          /\ UNCHANGED <<status, late>>
  /\ UNCHANGED <<sources, links, turns, queue, stray>>

NewestNow(p) == sent[polls[p].hook]  \* mutant of NextCursor: the source is asked again
NextCursor(p) == polls[p].upto

PollEnds(p) ==
  /\ polls[p].at = "record" /\ polls[p].next > polls[p].upto
  /\ cursor' = [cursor EXCEPT ![polls[p].hook] =
                   IF hook[polls[p].hook] = "deleted" THEN @ ELSE NextCursor(p)]
  /\ Polling(p, [polls[p] EXCEPT !.at = "next"])
  /\ UNCHANGED <<hook, coming, sent, runs, queue, ghosts>>

PollEnqueues(p) ==
  /\ LoopFree /\ polls[p].at = "next" /\ polls[p].todo = {}
  /\ queue' = queue \o polls[p].made
  /\ Polling(p, NoPoll)
  /\ UNCHANGED <<sources, runs, ghosts>>

-----------------------------------------------------------------------------
(* The worker. *)

WorkerTo(at, r) == worker' = [at |-> at, run |-> r]
WorkerRuns == LoopFree /\ stop.at # "awaiting"  \* its task is not being cancelled

Dequeue ==
  /\ WorkerRuns /\ worker.at = "idle" /\ queue # <<>>
  /\ queue' = Tail(queue)
  /\ UNCHANGED <<sources, cycles, polls, intake, ghosts, process>>

\* run_one reads the run: one that is settled, or deleted, is passed over
SkipRun ==
  /\ Dequeue /\ status[Head(queue)] \notin Pending
  /\ UNCHANGED <<runs, worker, loop>>

BeginTurn ==
  /\ Dequeue /\ status[Head(queue)] \in Pending /\ Head(queue)[1] \in AgentHooks
  /\ SetStatus({Head(queue)}, "running")
  /\ turns' = [turns EXCEPT ![Head(queue)] = @ + 1]
  /\ WorkerTo("turn", Head(queue))
  /\ UNCHANGED <<links, loop>>

\* A completed turn succeeds; a pending approval, another termination and an
\* exception (_fail_if_active) are failures.
TurnEnds(to) ==
  /\ WorkerRuns /\ worker.at = "turn"
  /\ SetStatus({worker.run}, to)
  /\ WorkerTo("idle", NoRun)
  /\ UNCHANGED <<sources, links, turns, cycles, polls, queue, loop, intake, ghosts, process>>

\* A team hook's run becomes a request of the target run: enqueue_request,
\* which returns the request an earlier process left unlinked ...
RequestCycle ==
  LET r == Head(queue) IN
  /\ WorkerRuns /\ worker.at = "idle" /\ queue # <<>>
  /\ status[r] \in Pending /\ r[1] \in TeamHooks /\ target = "open"
  /\ queue' = Tail(queue)
  /\ team' = [team EXCEPT ![r] = IF @ = "none" THEN "queued" ELSE @]
  /\ loop' = Section("link", r)
  /\ UNCHANGED <<sources, runs, target, polls, worker, intake, ghosts, process>>

\* ... and a token for the dispatcher
LinkRequest ==
  /\ loop.at = "link"
  /\ Link(loop.run, "request")
  /\ loop' = Free
  /\ UNCHANGED <<sources, status, turns, cycles, polls, consumer, intake, ghosts, process>>

\* the target refuses the request: _interrupt_linked_pair
RequestRefused ==
  /\ Dequeue /\ status[Head(queue)] \in Pending /\ Head(queue)[1] \in TeamHooks
  /\ target = "canceled"
  /\ SetStatus({Head(queue)}, "interrupted")
  /\ UNCHANGED <<links, turns, worker, loop>>

-----------------------------------------------------------------------------
(* The cycle of a run, as the dispatcher and the runtime move it.           *)

Cycle(r, to) == team' = [team EXCEPT ![r] = to]
OnlyCycle == UNCHANGED <<sources, runs, target, polls, consumer, intake, ghosts, process>>

\* run_one of the dispatcher: claim_next, create_cycle and freeze_cycle
ClaimCycle(r) ==
  /\ LoopFree /\ gate = "open" /\ target = "open" /\ team[r] = "queued"
  /\ \A other \in TeamRuns : team[other] \notin Occupying
  /\ \/ Cycle(r, "running") /\ loop' = Section("prepare", r)
     \/ Cycle(r, "failed") /\ UNCHANGED loop
  /\ OnlyCycle

\* prepare_team_cycle: the run is linked, and a mail may fail to be taken in
PrepareCycle ==
  LET r == loop.run IN
  /\ loop.at = "prepare"
  /\ \/ loop' = Free
     \/ status[r] # "deleted" /\ loop' = Section("reject", r)
  /\ Link(r, "cycle")
  /\ IF status[r] = "deleted" THEN Cycle(r, "failed") /\ UNCHANGED status
     ELSE UNCHANGED <<status, team>>
  /\ UNCHANGED <<sources, turns, target, polls, consumer, intake, ghosts, process>>

RejectMail ==
  LET r == loop.run IN
  /\ loop.at = "reject" /\ loop' = Section("fail", r)
  /\ SetStatus({r}, "failed")
  /\ UNCHANGED <<sources, links, turns, cycles, polls, consumer, intake, ghosts, process>>

FailCycle ==
  /\ loop.at = "fail" /\ loop' = Free
  /\ Cycle(loop.run, "failed")
  /\ OnlyCycle

\* The runtime returns: the cycle has settled or waits, and the observers are
\* called.  They are not when it waits for its provider, or when a call of it
\* is ambiguous.
CycleEnds(r, to) ==
  /\ LoopFree /\ team[r] = "running"
  /\ Cycle(r, to) /\ loop' = Section("observe", r)
  /\ OnlyCycle

CycleStops(r, to) ==
  /\ LoopFree /\ team[r] = "running"
  /\ Cycle(r, to) /\ UNCHANGED loop
  /\ OnlyCycle

\* What a hook run shows of its cycle.
Observed == {"completed", "waiting_for_user", "interrupted", "canceled", "failed"}
OnlySuccess ==  \* mutant of OutcomeOf: an interrupted cycle is a failure
  [s \in Observed |-> IF s = "completed" THEN "succeeded" ELSE
                      IF s = "interrupted" THEN "failed" ELSE s]
OutcomeOf == [s \in Observed |-> IF s = "completed" THEN "succeeded" ELSE s]

\* on_team_run_settled finds the run by its request
Observe ==
  LET r == loop.run IN
  /\ loop.at = "observe" /\ loop' = Free
  /\ IF r \in Linked("request") THEN SetStatus({r}, OutcomeOf[team[r]]) ELSE UNCHANGED status
  /\ UNCHANGED <<sources, links, turns, cycles, polls, consumer, intake, ghosts, process>>

\* the provider is back; the user answers or resumes: no word to the hook run
CycleGoesOn(r) ==
  /\ LoopFree /\ gate = "open"
  /\ \/ team[r] = "waiting_for_provider"
     \/ "user" \in Mishaps /\ team[r] \in {"waiting_for_user", "interrupted"}
  /\ Cycle(r, "running") /\ UNCHANGED loop
  /\ OnlyCycle

-----------------------------------------------------------------------------
(* Cancellation of the team run, with the hook runs linked to its requests. *)

CanceledRuns ==
  Linked("request") \cap InState({"queued", "running", "waiting_for_user", "interrupted"})

CancelTarget ==
  /\ team' = [r \in Runs |-> IF team[r] = "queued" THEN "withdrawn"
                             ELSE IF team[r] \in Occupying THEN "canceled" ELSE team[r]]
  /\ SetStatus(CanceledRuns, "canceled")
  /\ target' = "canceled"

CancelRun ==
  /\ LoopFree /\ Meddled(TeamHooks) /\ target = "open"
  /\ CancelTarget
  /\ UNCHANGED <<sources, links, turns, polls, consumer, loop, intake, ghosts, process>>

ReopenRun ==
  /\ Up /\ Meddled(TeamHooks) /\ target = "canceled"
  /\ target' = "open"
  /\ UNCHANGED <<sources, runs, team, polls, consumer, loop, intake, ghosts, process>>

-----------------------------------------------------------------------------
(* Emergency stop.  A tick and a run-now that passed the gate go on.         *)

StopTo(at, targets) == stop' = [at |-> at, targets |-> targets]

CloseIntake ==
  /\ LoopFree /\ "stop" \in Mishaps /\ stop.at \in {"none", "answered"}
  /\ gate' = "closed" /\ StopTo("closed", {})
  /\ UNCHANGED <<sources, runs, cycles, polls, consumer, loop, ghosts, process>>

\* cancel_all_active: runs with a request that is queued or dispatching
CancelAllActive ==
  /\ LoopFree /\ stop.at = "closed"
  /\ StopTo("canceled", {})
  /\ IF \E r \in TeamRuns : team[r] \in Occupying \cup {"queued"}
     THEN CancelTarget ELSE UNCHANGED <<team, status, target>>
  /\ UNCHANGED <<sources, links, turns, polls, consumer, loop, gate, ghosts, process>>

\* HookRunner.emergency_stop lists the active runs and cancels the worker ...
RunningRuns == InState({"running"})  \* mutant of ActiveRuns: queued runs are not listed
ActiveRuns == InState(Pending)

CancelWorker ==
  /\ LoopFree /\ stop.at = "canceled"
  /\ StopTo("awaiting", ActiveRuns)
  /\ UNCHANGED <<sources, runs, cycles, polls, consumer, loop, gate, ghosts, process>>

Failed(set) == SetStatus(set \cap ActiveRuns, "failed")

WorkerCanceled ==
  /\ LoopFree /\ stop.at = "awaiting" /\ worker.at # "off"
  /\ Failed({worker.run})  \* _fail_if_active: a turn's run has no cycle
  /\ WorkerTo("off", NoRun)
  /\ UNCHANGED <<sources, links, turns, cycles, polls, queue, loop, intake, ghosts, process>>

\* ... and then drains the queue, interrupts what it listed and starts again.
\* A run that came meanwhile is in neither.
DrainQueue ==
  /\ LoopFree /\ stop.at = "awaiting" /\ worker.at = "off"
  /\ StopTo("answered", {})
  /\ SetStatus(stop.targets \cap ActiveRuns, "interrupted")
  /\ queue' = <<>> /\ WorkerTo("idle", NoRun)
  /\ stray' = stray \cup (ToSet(queue) \ stop.targets)
  /\ UNCHANGED <<sources, links, turns, cycles, polls, loop, gate, late, process>>

ResumeIntake ==
  /\ LoopFree /\ gate = "closed"
  /\ gate' = "open" /\ late' = {}
  /\ stop' = IF stop.at = "answered" THEN NoStop ELSE stop
  /\ UNCHANGED <<sources, runs, cycles, polls, consumer, loop, stray, process>>

-----------------------------------------------------------------------------
(* The process. *)

Gone ==
  /\ server' = "down"
  /\ polls' = [p \in Pollers |-> NoPoll]
  /\ queue' = <<>> /\ WorkerTo("off", NoRun)
  /\ loop' = Free /\ gate' = "open" /\ stop' = NoStop
  /\ stray' = {} /\ late' = {}
  /\ UNCHANGED <<sources, links, turns, cycles, lives>>

Crash == server # "down" /\ lives <= MaxStops /\ UNCHANGED status /\ Gone

\* the worker's stop() marks its run; the tasks of cycles end like calls that fail
Shutdown == LoopFree /\ lives <= MaxStops /\ Failed({worker.run}) /\ Gone

Starting(from, to) ==
  /\ server = from /\ server' = to
  /\ UNCHANGED <<sources, turns, target, polls, loop, intake, ghosts>>

\* The dispatcher's part of the start-up: a running cycle goes on if its open
\* call can be taken up, else it is interrupted.
StartCycles ==
  /\ Starting("down", "cycles") /\ lives <= MaxStops
  /\ lives' = lives + 1
  /\ \E kept \in SUBSET {r \in TeamRuns : team[r] = "running"} :
       team' = [r \in Runs |-> IF team[r] = "running" /\ r \notin kept THEN "interrupted"
                               ELSE team[r]]
  /\ UNCHANGED <<status, links, consumer>>

\* recover_interrupted_runs
Recovered(r) == IF "cycle" \in links[r] THEN "interrupted" ELSE "failed"

RecoverRuns ==
  /\ Starting("cycles", "runs")
  /\ status' = [r \in Runs |-> IF status[r] = "running" THEN Recovered(r) ELSE status[r]]
  /\ UNCHANGED <<links, team, consumer, lives>>

\* reconcile_linked_runs: every run with a cycle is linked to it and its
\* request; then _reconcile_pair, in which a settled cycle decides, and else a
\* settled run interrupts its cycle.
Paired == {r \in TeamRuns : team[r] \in Occupying \cup Finished /\ status[r] # "deleted"}
Diverged(r) ==
  team[r] \in {"running", "waiting_for_provider"}
  /\ status[r] \in {"failed", "interrupted", "succeeded"}

CycleDecides(r) == team[r] \in DOMAIN OutcomeOf

Reconciled(r) ==
  CASE r \notin Paired -> status[r]
    [] r \in Paired /\ CycleDecides(r) -> OutcomeOf[team[r]]
    [] r \in Paired /\ ~CycleDecides(r) /\ Diverged(r) -> "interrupted"
    [] OTHER -> IF team[r] = "running" /\ status[r] = "queued" THEN "running" ELSE status[r]

ReconcileLinked ==
  /\ Starting("runs", "linked")
  /\ links' = [r \in Runs |-> IF r \in Paired THEN {"request", "cycle"} ELSE links[r]]
  /\ status' = [r \in Runs |-> Reconciled(r)]
  /\ team' = [r \in Runs |-> IF r \in Paired /\ Diverged(r) THEN "interrupted" ELSE team[r]]
  /\ UNCHANGED <<consumer, lives>>

\* the worker starts, and every queued run is enqueued, the oldest first
StartWorker ==
  /\ Starting("linked", "up")
  /\ queue' \in SetToSeqs(InState({"queued"}))
  /\ WorkerTo("idle", NoRun)
  /\ UNCHANGED <<status, links, team, lives>>

-----------------------------------------------------------------------------
Sources == \E h \in Hooks : Arrive(h) \/ DeleteHook(h)

PollStep(p) ==
  \/ \E h \in Hooks : PollReads(p, h) \/ PollFails(p, h)
  \/ PollAborts(p) \/ PollRecords(p) \/ PollEnds(p) \/ PollEnqueues(p)

Polls == Tick \/ (\E h \in Hooks : RunNow(h)) \/ \E p \in Pollers : PollStep(p)

TakesUp == SkipRun \/ BeginTurn \/ RequestCycle \/ RequestRefused
Turns == \E to \in {"succeeded", "failed"} : TurnEnds(to)

Sections == LinkRequest \/ PrepareCycle \/ RejectMail \/ FailCycle \/ Observe

Cycles ==
  \E r \in TeamRuns :
    \/ ClaimCycle(r) \/ CycleGoesOn(r)
    \/ \E to \in {"completed", "failed", "waiting_for_user", "interrupted"} : CycleEnds(r, to)
    \/ \E to \in {"waiting_for_provider", "interrupted"} : CycleStops(r, to)

EmergencyStop == CancelAllActive \/ CancelWorker \/ WorkerCanceled \/ DrainQueue

StartUp == StartCycles \/ RecoverRuns \/ ReconcileLinked \/ StartWorker

Next ==
  \/ Sources \/ Polls \/ TakesUp \/ Turns \/ Sections \/ Cycles
  \/ CancelRun \/ ReopenRun
  \/ CloseIntake \/ EmergencyStop \/ ResumeIntake
  \/ Crash \/ Shutdown \/ StartUp

Spec == Init /\ [][Next]_vars

-----------------------------------------------------------------------------
(* Properties. *)

\* Every event is handled once, whatever polls, restarts and stops do: a
\* cursor never passes an event that was not recorded (poll_hook writes it
\* last, and two polls may interleave), a recorded run that waits for the
\* worker is in its queue, in the hands of the section that will enqueue it or
\* known to wait for the next start, and no agent begins a turn for it twice.
CursorIsBehind == \A r \in Runs : r[2] <= cursor[r[1]] => status[r] # "absent"
InHand ==
  ToSet(queue) \cup stray \cup UNION {ToSet(polls[p].made) : p \in Pollers}
QueuedIsEnqueued ==
  Up => \A r \in InState({"queued"}) : team[r] # "none" \/ r \in InHand
HandledOnce == \A r \in Runs : turns[r] <= 1
EveryEventOnce == CursorIsBehind /\ QueuedIsEnqueued /\ HandledOnce

\* Once an emergency stop has answered and until the intake opens again, no
\* hook run is pending, no agent turn runs and no cycle of a hook goes on,
\* except for runs that a poll in flight recorded after the intake was closed
\* (the poll asks the gate before it starts, and the worker never does).
EmergencyStopHolds ==
  stop.at = "answered" /\ gate = "closed" =>
    /\ InState(Pending) \subseteq late
    /\ worker.run \in late \cup {NoRun}
    /\ \A r \in TeamRuns : team[r] # "running"

\* A hook run never shows an outcome its cycle contradicts, whichever of
\* observer, cancellation, rejected mail and start-up wrote it: it has succeeded
\* only if the cycle completed, and once it failed or was canceled no cycle of
\* it goes on.
OutcomeIsTrue ==
  LoopFree => \A r \in TeamRuns :
    /\ status[r] = "succeeded" => team[r] = "completed"
    /\ status[r] \in {"failed", "canceled"} => team[r] \notin Occupying \cup {"queued"}

=============================================================================
