--------------------------- MODULE OperationLedger ---------------------------
(***************************************************************************)
(* The ledger of model calls of one cycle, below the task loop: tasks are  *)
(* worked off one by one, each by a call of its worker and at most one     *)
(* repair.  Every statement that the code commits on its own is a step:    *)
(* binding notes to the call (radio), reserving it, recording the          *)
(* workspace baseline, starting an attempt, storing the answer, applying   *)
(* it, storing the notes it carries.  Between any two of them the process  *)
(* may stop.  Sources: team_model_operations.py, team_model_invoker.py,    *)
(* team_provider_recovery.py, team_collaboration_service.py and            *)
(* _invoke_operation and _execute_batches of team_runtime.py.              *)
(***************************************************************************)
EXTENDS Naturals, Sequences, FiniteSets, CallStatus

CONSTANTS Tasks,         \* the number of tasks of the cycle
          MaxAttempts,   \* attempts of a call before it waits for its provider (_MAX_ATTEMPTS)
          Batch,         \* notes bound to a call at most (MENTION_BATCH_LIMIT)
          MaxMishaps,    \* bound: crashes, provider and radio failures, cancellations
          MaxEdits       \* bound: changes of the workspace

ASSUME LedgerConstants ==
  /\ {Tasks, MaxAttempts, Batch} \subseteq Nat \ {0} /\ {MaxMishaps, MaxEdits} \subseteq Nat

VARIABLES ops,         \* team_model_operations: key -> status, attempts, prompt, answer
          baselines,   \* the workspace baselines recorded: key -> workspace
          deliveries,  \* team_collaboration_deliveries: key -> the notes bound to it
          notes,       \* messages: the worker a note is addressed to, 0 for one given up
          files,       \* the workspace, as the number of changes it has seen
          tasks,       \* team_tasks.status
          source,      \* the status of run and cycle, which move together here
          request,     \* the request the cycle was made for
          pc, call,    \* the runtime's coroutine and the call it is at
          mishaps

vars == <<ops, baselines, deliveries, notes, files, tasks, source, request, pc, call, mishaps>>
ledger == <<ops, baselines, deliveries>>
status == <<tasks, source, request>>

-----------------------------------------------------------------------------
Workers == 1 .. 2
Owner(i) == IF i = Tasks THEN 2 ELSE 1

\* operation keys: the worker_execution call of a task and, next ordinal, its repair
Keys == (1 .. Tasks) \X {0, 1}
Worker(key) == Owner(key[1])

OpenKeys == {k \in DOMAIN ops : ops[k].st \in OpenOp}
With(k, st) == [ops EXCEPT ![k].st = st]
Move(k, from, to) == ops[k].st = from /\ ops' = With(k, to)

\* What is put before the messages of a call: nothing, or the roster and notes.
Plain == [plain |-> TRUE, notes |-> {}]
Prefix(ns) == [plain |-> FALSE, notes |-> ns]
Prompts == {Plain} \cup {Prefix(ns) : ns \in SUBSET (DOMAIN notes)}

CallOf(key, recovered) == [key |-> key, recovered |-> recovered, prompt |-> Plain]
NoCall == CallOf(<<0, 0>>, FALSE)

InProgress == {i \in DOMAIN tasks : tasks[i] = "in_progress"}
Ready == {i \in DOMAIN tasks : tasks[i] = "pending"}

-----------------------------------------------------------------------------
(* Notes.  A note is delivered when a call it was bound to is applied. *)

Delivered == UNION {deliveries[k] : k \in {k \in DOMAIN deliveries \cap DOMAIN ops :
                                              ops[k].st = "applied"}}
Undelivered(w) == {n \in DOMAIN notes : notes[n] = w} \ Delivered
Oldest(ns) == {n \in ns : Cardinality({m \in ns : m < n}) < Batch}

-----------------------------------------------------------------------------
TypeOK ==
  /\ DOMAIN ops \subseteq Keys /\ DOMAIN baselines \subseteq Keys /\ DOMAIN deliveries \subseteq Keys
  /\ \A k \in DOMAIN ops :
       /\ ops[k].st \in OpStatus /\ ops[k].prompt \in Prompts
       /\ ops[k].attempts \in 0 .. MaxAttempts + 1 + MaxMishaps
       /\ ops[k].answer \in {"none", "done", "noted"}
  /\ \A k \in DOMAIN baselines : baselines[k] \in 0 .. MaxEdits
  /\ \A k \in DOMAIN deliveries : deliveries[k] \subseteq DOMAIN notes
  /\ notes \in Seq({0} \cup Workers) /\ files \in 0 .. MaxEdits
  /\ tasks \in [1 .. Tasks -> {"pending", "in_progress", "waiting", "completed", "failed",
                               "canceled"}]
  /\ source \in {"running", "waiting", "interrupted", "canceled", "failed", "completed"}
  /\ request \in {"dispatching", "settled"}
  /\ mishaps \in 0 .. MaxMishaps

Init ==
  /\ ops = <<>> /\ baselines = <<>> /\ deliveries = <<>> /\ notes = <<>> /\ files = 0
  /\ tasks = [i \in 1 .. Tasks |-> "pending"] /\ source = "running" /\ request = "dispatching"
  /\ pc = "loop" /\ call = NoCall /\ mishaps = 0

Mishap == mishaps < MaxMishaps /\ mishaps' = mishaps + 1

Enter(key, recovered) ==
  pc' = "radio" /\ call' = CallOf(key, recovered)

Stops == pc' = "idle" /\ call' = NoCall
Settles(st) == source' = st /\ request' = "settled"

-----------------------------------------------------------------------------
(* The loop over the tasks: what a restart left open goes first. *)

RecoverOpen ==
  /\ pc = "loop" /\ OpenKeys # {}
  /\ LET key == CHOOSE k \in OpenKeys : TRUE IN
     CASE ops[key].st = "prepared" -> Enter(key, TRUE)
       [] ops[key].st = "completed" -> pc' = "apply" /\ call' = CallOf(key, TRUE)
       [] OTHER -> pc' = "error" /\ call' = CallOf(key, TRUE)
  /\ UNCHANGED <<ledger, notes, files, status, mishaps>>

StartTask ==
  /\ pc = "loop" /\ OpenKeys = {}
  /\ \E i \in Ready : /\ \A j \in Ready : i <= j
                     /\ tasks' = [tasks EXCEPT ![i] = "in_progress"]
                     /\ Enter(<<i, 0>>, FALSE)
  /\ UNCHANGED <<ledger, notes, files, source, request, mishaps>>

Finish ==
  /\ pc = "loop" /\ OpenKeys = {} /\ Ready = {} /\ Stops
  /\ Settles(IF \A i \in DOMAIN tasks : tasks[i] = "completed" THEN "completed" ELSE "failed")
  /\ UNCHANGED <<ledger, notes, files, tasks, mishaps>>

-----------------------------------------------------------------------------
(* _invoke_operation *)

\* open_delivery: the notes bound to a call stay, a new one gets the oldest of its worker.
Bound(key) ==
  IF key \in DOMAIN deliveries THEN deliveries[key] ELSE Oldest(Undelivered(Worker(key)))

\* _with_radio: a call that was reserved without notes is asked again without.
Radio ==
  LET key == call.key IN
  /\ pc = "radio" /\ pc' = "reserve"
  /\ IF key \in DOMAIN ops \ DOMAIN deliveries THEN UNCHANGED <<call, deliveries>>
     ELSE /\ call' = [call EXCEPT !.prompt = Prefix(Bound(key))]
          /\ deliveries' = Inserted(deliveries, key, Bound(key))
  /\ UNCHANGED <<ops, baselines, notes, files, status, mishaps>>

\* Reading or writing the notes fails: a call that is known to be bound to none
\* goes out plain, any other is given up (PinnedNotesUnavailable).
Degrade(pinned) ==
  /\ pc = "radio" /\ Mishap
  /\ pc' = (IF pinned THEN "error" ELSE "reserve")
  /\ pinned \/ call.key \notin DOMAIN deliveries
  /\ UNCHANGED <<ledger, notes, files, status, call>>

DegradeAnyCall == \E pinned \in BOOLEAN : pc = "radio" /\ Mishap  \* mutant of RadioFails
                    /\ pc' = "reserve" /\ UNCHANGED <<ledger, notes, files, status, call>>
RadioFails == \E pinned \in BOOLEAN : Degrade(pinned)

\* _validate_existing_spec
AsksTheSame(key) == ops[key].prompt = call.prompt

\* reserve: the row of the key, if it asks for the same; its status decides.
Reserve ==
  LET key == call.key IN
  /\ pc = "reserve"
  /\ IF key \in DOMAIN ops
     THEN /\ UNCHANGED ops
          /\ pc' = (CASE ~AsksTheSame(key) -> "error"
                      [] OTHER -> CASE ops[key].st = "prepared" -> "baseline"
                                    [] ops[key].st \in {"completed", "applied"} -> "apply"
                                    [] OTHER -> "error")
     ELSE IF OpenKeys # {} THEN pc' = "error" /\ UNCHANGED ops
     ELSE /\ pc' = "baseline"
          /\ ops' = Inserted(ops, key, [st |-> "prepared", attempts |-> 0,
                                         prompt |-> call.prompt, answer |-> "none"])
  /\ UNCHANGED <<baselines, deliveries, notes, files, status, call, mishaps>>

\* The workspace a call is to be compared with: a repair made in the same breath is
\* compared with that of the call it repairs.
StartsFrom(key) ==
  IF key[2] = 1 /\ ~call.recovered THEN baselines[<<key[1], 0>>] ELSE files

\* A baseline that is there already must be the same.
RecordBaseline(key, now) ==
  IF key \in DOMAIN baselines
  THEN UNCHANGED baselines /\ pc' = (IF baselines[key] = now THEN "begin" ELSE "error")
  ELSE baselines' = Inserted(baselines, key, now) /\ pc' = "begin"

Baseline ==
  /\ pc = "baseline" /\ RecordBaseline(call.key, StartsFrom(call.key))
  /\ UNCHANGED <<ops, deliveries, notes, files, status, call, mishaps>>

-----------------------------------------------------------------------------
(* The invoker *)

BeginAttempt ==
  /\ pc = "begin" /\ ops[call.key].st = "prepared" /\ pc' = "invoking"
  /\ ops' = [ops EXCEPT ![call.key].st = "invoking", ![call.key].attempts = @ + 1]
  /\ UNCHANGED <<baselines, deliveries, notes, files, status, call, mishaps>>

\* The provider refuses before anything was streamed: try again, or wait for it.
PrepareRetry ==
  /\ pc = "invoking" /\ Mishap /\ ops[call.key].attempts < MaxAttempts
  /\ Move(call.key, "invoking", "prepared") /\ pc' = "begin"
  /\ UNCHANGED <<baselines, deliveries, notes, files, status, call>>

\* _validate_single_open_operation
OnlyOpen(key) == OpenKeys = {key}

\* wait_for_operation: the run, the task and the call are parked in one
\* transaction, unless run or task have been settled before.
WaitForOperation ==
  LET i == call.key[1] IN
  /\ pc = "invoking" /\ Mishap /\ ops[call.key].attempts >= MaxAttempts
  /\ IF source = "running" /\ tasks[i] = "in_progress" /\ request = "dispatching"
        /\ OnlyOpen(call.key)
     THEN /\ Move(call.key, "invoking", "waiting") /\ Stops
          /\ tasks' = [tasks EXCEPT ![i] = "waiting"] /\ source' = "waiting"
     ELSE UNCHANGED <<ops, tasks, source, call>> /\ pc' = "error"
  /\ UNCHANGED <<baselines, deliveries, notes, files, request>>

KeepsTasks(sts) == tasks                       \* mutants of Interrupted
AsTheRun(sts) == [i \in DOMAIN tasks |-> IF tasks[i] \in sts THEN "interrupted" ELSE tasks[i]]
Interrupted(sts) == [i \in DOMAIN tasks |-> IF tasks[i] \in sts THEN "pending" ELSE tasks[i]]

\* What the provider did is not known: interrupt_ambiguous_operation.
Ambiguous ==
  /\ pc = "invoking" /\ Mishap /\ Move(call.key, "invoking", "ambiguous") /\ Stops
  /\ tasks' = Interrupted({"in_progress", "waiting"}) /\ source' = "interrupted"
  /\ UNCHANGED <<baselines, deliveries, notes, files, request>>

Complete(answer) ==
  /\ pc = "invoking" /\ ops[call.key].st = "invoking" /\ pc' = "apply"
  /\ ops' = [ops EXCEPT ![call.key].st = "completed", ![call.key].answer = answer]
  /\ UNCHANGED <<baselines, deliveries, notes, files, status, call, mishaps>>

MarkFailed ==
  /\ pc = "invoking" /\ Move(call.key, "invoking", "failed") /\ pc' = "invalid"
  /\ UNCHANGED <<baselines, deliveries, notes, files, status, call, mishaps>>

\* A call made for its task is repaired once, one that was recovered is not.
Repair ==
  /\ pc = "invalid"
  /\ IF call.recovered \/ call.key[2] = 1 THEN pc' = "error" /\ UNCHANGED call
     ELSE Enter(<<call.key[1], 1>>, FALSE)
  /\ UNCHANGED <<ledger, notes, files, status, mishaps>>

-----------------------------------------------------------------------------
(* apply_worker_outcome, and the notes once it is committed *)

ForgetsToMark ==                               \* mutant of ApplyOutcome
  /\ pc = "apply" /\ pc' = "mentions" /\ tasks' = [tasks EXCEPT ![call.key[1]] = "completed"]
  /\ UNCHANGED <<ledger, notes, files, source, request, call, mishaps>>

ApplyOutcome ==
  LET i == call.key[1] IN
  /\ pc = "apply"
  /\ CASE ops[call.key].st = "applied" -> pc' = "mentions" /\ UNCHANGED <<ops, tasks>>
       [] ops[call.key].st = "completed" /\ tasks[i] = "in_progress" ->
            /\ pc' = "mentions" /\ Move(call.key, "completed", "applied")
            /\ tasks' = [tasks EXCEPT ![i] = "completed"]
       [] OTHER -> pc' = "error" /\ UNCHANGED <<ops, tasks>>
  /\ UNCHANGED <<baselines, deliveries, notes, files, source, request, call, mishaps>>

\* record_mentions: a note goes to a worker other than its sender.
RecordMention(i) == Append(notes, CHOOSE w \in Workers : w # Owner(i))

\* A note that cannot be stored is written down as lost.
StoreMentions ==
  LET i == call.key[1] IN
  /\ pc = "mentions" /\ pc' = "loop" /\ call' = NoCall
  /\ \/ /\ ops[call.key].answer = "noted" /\ UNCHANGED mishaps
        /\ notes' = RecordMention(i)
     \/ ops[call.key].answer = "noted" /\ Mishap /\ notes' = Append(notes, 0)
     \/ ops[call.key].answer # "noted" /\ UNCHANGED <<notes, mishaps>>
  /\ UNCHANGED <<ledger, files, status>>

-----------------------------------------------------------------------------
(* An error of a call the loop started fails its task, one of a recovered  *)
(* call the run; either leaves the call as it is.                          *)

TaskFails ==
  /\ pc = "error" /\ ~call.recovered /\ pc' = "loop" /\ call' = NoCall
  /\ tasks' = [tasks EXCEPT ![call.key[1]] = "failed"]
  /\ UNCHANGED <<ledger, notes, files, source, request, mishaps>>

RunFails ==
  /\ pc = "error" /\ call.recovered /\ Stops /\ Settles("failed")
  /\ tasks' = [i \in DOMAIN tasks |-> IF i \in InProgress THEN "failed" ELSE tasks[i]]
  /\ UNCHANGED <<ledger, notes, files, mishaps>>

-----------------------------------------------------------------------------
(* The world around the coroutine *)

\* A worker under way, the user or another run changes the workspace; the code
\* looks at it only when a call starts, so the moments between do not matter.
Edit ==
  /\ pc \in {"invoking", "idle", "down"} /\ files < MaxEdits /\ files' = files + 1
  /\ UNCHANGED <<ledger, notes, status, pc, call, mishaps>>

\* The user cancels: the coroutine is cancelled where it awaits; the call stays
\* as it is until the next start.
Cancel ==
  /\ \/ pc \in {"idle", "loop", "invoking"}
     \/ pc = "begin" /\ ops[call.key].attempts > 0
  /\ source \notin {"completed", "failed", "canceled"}
  /\ Mishap /\ Stops /\ Settles("canceled")
  /\ tasks' = [i \in DOMAIN tasks |-> IF i \in InProgress THEN "canceled" ELSE tasks[i]]
  /\ UNCHANGED <<ledger, notes, files>>

Crash ==
  /\ pc # "down" /\ Mishap /\ pc' = "down" /\ call' = NoCall
  /\ UNCHANGED <<ledger, notes, files, status>>

AsksAgain(k) == IF k \in OpenKeys THEN "prepared" ELSE ops[k].st   \* mutant of Reconciled
\* reconcile_startup, row by row
Reconciled(k) ==
  CASE k \in OpenKeys /\ source = "canceled" -> "canceled"
    [] ops[k].st = "invoking" /\ source # "canceled" -> "ambiguous"
    [] OTHER -> ops[k].st

\* Start-up: a call that is prepared or answered is taken up again whatever
\* became of its cycle; a cycle without one is interrupted.
Restart ==
  LET due == {k \in OpenKeys : ops[k].st \in {"prepared", "completed"}}
      lost == {k \in OpenKeys : ops[k].st = "invoking"}
  IN /\ pc = "down"
     /\ ops' = [k \in DOMAIN ops |-> [ops[k] EXCEPT !.st = Reconciled(k)]]
     /\ CASE source # "canceled" /\ due # {} ->
               pc' = "loop" /\ source' = "running" /\ UNCHANGED tasks
          [] source # "canceled" /\ lost # {} ->
               /\ pc' = "idle" /\ source' = "interrupted"
               /\ tasks' = Interrupted({"in_progress", "waiting"})
          [] source = "running" /\ due \cup lost = {} ->
               pc' = "idle" /\ source' = "interrupted" /\ tasks' = Interrupted({"in_progress"})
          [] source # "running" /\ (source = "canceled" \/ due \cup lost = {}) ->
               pc' = "idle" /\ UNCHANGED <<source, tasks>>
     /\ UNCHANGED <<baselines, deliveries, notes, files, request, call, mishaps>>

\* The poll finds the provider ready (claim_operation), or the user resumes a
\* call whose session is known (prepare_explicit_resume).
Reclaim(from, mode, task) ==
  \E k \in OpenKeys :
    /\ pc = "idle" /\ OnlyOpen(k) /\ source = mode /\ request = "dispatching" /\ tasks[k[1]] = task
    /\ Move(k, from, "prepared") /\ pc' = "loop" /\ source' = "running"
    /\ tasks' = [tasks EXCEPT ![k[1]] = "in_progress"]
    /\ UNCHANGED <<baselines, deliveries, notes, files, request, call, mishaps>>

ClaimOperation == Reclaim("waiting", "waiting", "waiting")
ExplicitResume == Reclaim("ambiguous", "interrupted", "pending")

UserResumes ==
  /\ pc = "idle" /\ source = "interrupted" /\ OpenKeys = {} /\ pc' = "loop" /\ source' = "running"
  /\ UNCHANGED <<ledger, notes, files, tasks, request, call, mishaps>>

-----------------------------------------------------------------------------
Step ==
  \/ RecoverOpen \/ StartTask \/ Finish
  \/ Radio \/ Reserve \/ Baseline \/ BeginAttempt \/ MarkFailed \/ Repair
  \/ \E a \in {"done", "noted"} : Complete(a)
  \/ ApplyOutcome \/ StoreMentions \/ TaskFails \/ RunFails

World ==
  \/ RadioFails \/ PrepareRetry \/ WaitForOperation \/ Ambiguous
  \/ Edit \/ Cancel \/ Crash \/ ClaimOperation \/ ExplicitResume \/ UserResumes

Next == Step \/ Restart \/ World

Spec == Init /\ [][Next]_vars

-----------------------------------------------------------------------------
(* Properties *)

Calls == INSTANCE ModelCalls
           WITH calls <- [k \in DOMAIN ops |-> [at |-> Stage(ops[k].st), answer |-> ops[k].answer]]

\* The ledger keeps what ModelCalls promises: across retries, waits, crashes,
\* cancellations and resumes no second call is opened beside an open one, and an
\* answer is stored once, never changed and applied once (reserve,
\* _validate_existing_spec, the compare-and-set of every transition).
CallsAreOnce == Calls!Spec

\* A note counted as delivered was in the prompt of the call that was applied:
\* binding notes before the call is reserved loses none, whatever fails or stops
\* in between (_with_radio, open_delivery, the query of undelivered notes).
NotesReachThePrompt ==
  \A k \in DOMAIN ops \cap DOMAIN deliveries :
    ops[k].st = "applied" => ops[k].prompt = Prefix(deliveries[k])

\* A call that is taken up again asks exactly what it asked before, though notes
\* have arrived since: reserve never refuses it for its digest.
SameRequest ==
  pc = "reserve" /\ call.key \in DOMAIN ops => AsksTheSame(call.key)

\* What a call asks is exact: it holds the notes that count as delivered with it,
\* and asks the same again when it is taken up.
PromptIsExact == NotesReachThePrompt /\ SameRequest

\* When nothing runs and the request is not settled, someone can go on: the poll
\* has a waiting call whose task waits too, or the user an interrupted cycle
\* whose call, if there is one, is ambiguous and its task pending; what the claim
\* and the explicit resume validate is always given.
RestIsActionable ==
  pc = "idle" /\ request = "dispatching" =>
    \/ source = "waiting" /\ \E k \in OpenKeys : ops[k].st = "waiting" /\ tasks[k[1]] = "waiting"
    \/ /\ source = "interrupted"
       /\ \A k \in OpenKeys : ops[k].st = "ambiguous" /\ tasks[k[1]] = "pending"

\* A task is completed by the one transaction that applies an answer, so an applied
\* call and a completed task go together through every crash, failure and cancel
\* (apply_worker_outcome, _mark_applied).
AppliedIsCompleted ==
  \A i \in DOMAIN tasks :
    (tasks[i] = "completed") <=> \E c \in {0, 1} : <<i, c>> \in DOMAIN ops
                                               /\ ops[<<i, c>>].st = "applied"

\* The ledger and the tables it works for agree: what is applied is completed, and
\* what is parked can be taken up.
LedgerMatchesTables == AppliedIsCompleted /\ RestIsActionable

=============================================================================
