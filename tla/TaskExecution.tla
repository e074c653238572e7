----------------------------- MODULE TaskExecution -----------------------------
(***************************************************************************)
(* How one cycle executes its tasks and sums them up (team_runtime.py from *)
(* _execute_and_synthesize down, the effects of team_model_effects.py on   *)
(* tasks, the task and decision tables of teams.py).  A worker executes    *)
(* its task and may ask: a peer (consult_peer) or the leader               *)
(* (mediation_lead) answers, or the leader asks the user.  An outcome that *)
(* fails its acceptance is reviewed by the leader (acceptance_lead), who   *)
(* has it done again, revises the criteria, asks the user or gives up.     *)
(* When nothing is left to do the leader sums up (cycle_synthesis).        *)
(*                                                                         *)
(* Every step is one transaction, and the process may stop between any     *)
(* two; what a restart finds is the ledger of calls (OperationLedger has   *)
(* its details), the tasks and the questions.  A call is "prepared" from   *)
(* its reservation to its answer; "waiting" stands for a call that is      *)
(* parked, for its provider or because what became of it is not known.     *)
(* Tasks are worked off one by one, as with a batch size of one; pausing   *)
(* and cancelling are in CycleDispatcher and OperationLedger.              *)
(***************************************************************************)
EXTENDS Naturals, FiniteSets, FiniteSetsExt, CallStatus, Lifecycle

CONSTANTS
  NTasks,      \* tasks of the cycle
  Cap,         \* ACCEPTANCE_RECOVERY_CAP
  Rounds,      \* rounds_budget of the cycle
  ReCap,       \* AGENT_REINVOCATION_CAP; one worker owns all tasks
  Required,    \* the sets of required tasks a plan may have
  Helped,      \* bound: the sets of tasks whose worker may ask, be rejected or answer
               \* nonsense; 0 for the synthesis, which may not parse
  MaxAsks,     \* bound on the questions of a synthesis
  MaxMishaps   \* bound on crashes and parked calls

ASSUME ExecutionConstants ==
  /\ {NTasks, Cap} \subseteq Nat \ {0} /\ {Rounds, ReCap, MaxAsks, MaxMishaps} \subseteq Nat
  /\ \A r \in Required : r \subseteq 1 .. NTasks
  /\ \A h \in Helped : h \subseteq 0 .. NTasks

Tasks == 1 .. NTasks

AnyDependencies(deps) == DOMAIN deps = Tasks   \* mutant of ValidDependencies
\* no task waits for itself, directly or through others
ValidDependencies(deps) == \A s \in SUBSET Tasks \ {{}} : \E t \in s : deps[t] \cap s = {}

\* The plans that parse: which tasks are required, what each waits for, and (a bound)
\* which have trouble.
Plans == {p \in [required : Required, deps : [Tasks -> SUBSET Tasks], helped : Helped] :
            ValidDependencies(p.deps)}

VARIABLES
  plan,
  ops,       \* the cycle's operations: key -> [st, about, answer, no], no in order of creation
  tasks,     \* team_tasks.status
  attempts,  \* acceptance_recovery_attempts of a task
  stored,    \* the operation whose outcome and acceptance a task holds
  rounds,    \* rounds_used of the cycle
  reinv,     \* reinvocations of the worker
  request,   \* the active decision request: none, collecting or awaiting an answer
  items,     \* what it asks: the operations that asked, or System
  resolved,  \* the items answered
  left,      \* tasks whose worker left a file in the workspace that the contract lacks
  run,       \* the status of run and cycle, which move together here
  pc, call,  \* the coroutine, and the call it is at
  mishaps

vars == <<plan, ops, tasks, attempts, stored, rounds, reinv, request, items, resolved, left, run,
          pc, call, mishaps>>
counters == <<attempts, stored, rounds, reinv>>
questions == <<request, items, resolved>>
contract == <<plan, left>>

-----------------------------------------------------------------------------
(* Calls.  A key is a stage, a task (0 for the cycle) and an ordinal.      *)
(* "about" tells apart the prompts that can be made for one key, as the    *)
(* digest of the request does.                                             *)

Workers == {"worker", "mediation_worker", "acceptance_worker", "acceptance_worker_repair"}
Reviews == {"acceptance_lead", "acceptance_lead_repair"}
Mediations == {"mediation_lead", "consult_peer"}
Syntheses == {"synthesis", "synthesis_repair"}
Key(stage, t, n) == <<stage, t, n>>
NoKey == Key("none", 0, 0)
System == Key("system", 0, 0)

\* What a worker reports: it delivered what its contract says ("plain"), or a file
\* besides ("extra"), or fell short in another way ("rejected"), or is blocked; or
\* its delivery cannot be taken, its inputs changed or its files not published ("lost").
Outcomes == {"plain", "extra", "rejected", "blocked", "lost"}
Queries == {"query", "consult"}
Asks == {"ask_task", "ask_run"}

\* have the work done again: as it was, with other criteria, or with the file that was
\* too many admitted to the contract
Again == {"retry", "revise", "admit"}
ReviewAnswers == Again \cup {"fail"} \cup Asks
MediationAnswers == {"answer"} \cup Asks
SynthesisAnswers == {"summary", "ask_run"}

\* The answers that parse; a worker told to finish within the budget cannot ask.
Parsed(stage, about) ==
  CASE stage = "worker" -> Outcomes \cup Queries
    [] stage = "mediation_worker" ->
         IF about[1] = "budget" THEN Outcomes ELSE Outcomes \cup Queries
    [] stage \in {"acceptance_worker", "acceptance_worker_repair"} -> Outcomes
    [] stage = "mediation_lead" -> MediationAnswers
    [] stage = "consult_peer" -> {"answer"}
    [] stage \in Reviews -> ReviewAnswers
    [] stage \in Syntheses -> SynthesisAnswers
    [] OTHER -> {}

\* A bound on the answers: what each call is given of those that parse.  Only a task
\* that is not helped has its delivery lost; a review answers less before the last
\* attempt, and less after a mediation; only a synthesis that is helped asks.
Tried(key, about) ==
  LET n == key[3] IN
  CASE key[1] = "worker" -> IF key[2] \in plan.helped THEN {"plain", "extra", "blocked"} \cup Queries
                            ELSE {"plain", "lost"}
    [] key[1] = "mediation_worker" -> IF about[1] = "budget" THEN {"plain", "extra"}
                                      ELSE {"plain", "query"}
    [] key[1] \in {"acceptance_worker", "acceptance_worker_repair"} ->
         {"plain"} \cup (IF rounds = 0 THEN {"extra"} ELSE {})
                  \cup (IF rounds = 0 /\ n >= Cap THEN {"rejected"} ELSE {})
    [] key[1] \in Reviews -> IF rounds > 0 THEN {"retry", "fail"}
                            ELSE IF n < Cap THEN {"retry", "admit", "ask_task"}
                            ELSE {"revise", "admit", "fail", "ask_run"}
    [] key[1] \in Syntheses ->
         {"summary"} \cup (IF n < MaxAsks /\ 0 \in plan.helped THEN {"ask_run"} ELSE {})
    [] OTHER -> Parsed(key[1], about)
Answers(key, about) == Parsed(key[1], about) \cap Tried(key, about)

OpenKeys == {k \in DOMAIN ops : ops[k].st \in OpenOp}
AppliedKeys == {k \in DOMAIN ops : ops[k].st = "applied"}
Of(ks, stages, t) == {k \in ks : k[1] \in stages /\ k[2] = t}
Answered(ks, kinds) == {k \in ks : ops[k].answer \in kinds}
Is(k, st) == k \in DOMAIN ops /\ ops[k].st = st
With(k, st) == [ops EXCEPT ![k].st = st]

\* the newest of a set of calls, NoKey of none
Newest(ks) == IF ks = {} THEN NoKey
              ELSE CHOOSE k \in ks : \A l \in ks : ops[l].no <= ops[k].no

\* What the prompt of a task says besides the task: its criteria, as often as they
\* were revised, and the user's decisions about it.
Version(t) == Cardinality(Answered(Of(AppliedKeys, Reviews, t), {"revise", "admit"}))
              + Cardinality({k \in resolved : k[2] = t})

\* The leader's words about the newest query of a task; the rejection under review.
QueryPrompt(t) ==
  LET query == Newest(Answered(Of(AppliedKeys, Workers, t), Queries))
  IN IF query = NoKey THEN <<"none", 0>> ELSE <<"query", ops[query].no>>
ReviewPrompt(outcome) == <<"review", ops[outcome].no>>

NoCall == [key |-> NoKey, about |-> <<"none", 0>>, guarded |-> FALSE, fresh |-> FALSE]

TypeOK ==
  /\ plan \in Plans
  /\ \A k \in DOMAIN ops :
       /\ ops[k].st \in OpStatus /\ ops[k].no \in 1 .. Cardinality(DOMAIN ops)
       /\ ops[k].answer \in {"none"} \cup Parsed(k[1], ops[k].about)
  /\ tasks \in [Tasks -> TaskStatus]
  /\ attempts \in [Tasks -> 0 .. Cap] /\ rounds \in 0 .. Rounds /\ reinv \in Nat
  /\ \A t \in Tasks : stored[t] = NoKey \/ stored[t] \in DOMAIN ops
  /\ request \in {"none", "collecting", "awaiting"}
  /\ items \cup resolved \subseteq DOMAIN ops \cup {System} /\ left \subseteq Tasks
  /\ run \in {"running", "summarizing", "interrupted", "waiting_for_user",
              "waiting_for_provider", "completed", "completed_with_failures", "failed",
              "blocked"}
  /\ mishaps \in 0 .. MaxMishaps

Init ==
  /\ plan \in Plans /\ ops = <<>> /\ tasks = [t \in Tasks |-> "pending"]
  /\ attempts = [t \in Tasks |-> 0] /\ stored = [t \in Tasks |-> NoKey]
  /\ rounds = 0 /\ reinv = 0 /\ request = "none" /\ items = {} /\ resolved = {}
  /\ left = {} /\ run = "running" /\ pc = "loop" /\ call = NoCall /\ mishaps = 0

-----------------------------------------------------------------------------
(* Acceptance of what a worker delivered *)

Admitted(t) == Answered(Of(AppliedKeys, Reviews, t), {"admit"}) # {}

\* The rejections of a task that the messages of its reviews tell of; the task itself
\* holds the last.
Reviewed(t) == {ops[Key("acceptance_lead", t, k[3])].about[2] : k \in Of(AppliedKeys, Reviews, t)}
Blamed(t) ==
  \E w \in Answered(Of(AppliedKeys, Workers, t), {"extra"}) :
    w = stored[t] \/ ops[w].no \in Reviewed(t)

\* _reject_lingering_undeclared_paths: the file a former outcome was rejected for is
\* still there and still not in the contract.
Lingers(t) == t \in left /\ Blamed(t) /\ ~Admitted(t)

\* the outcome delivers what the contract says, and nothing it was rejected for remains
AsDelivered(t, answer) ==                      \* mutant of AsContracted
  answer = (IF Admitted(t) THEN "extra" ELSE "plain")
AsContracted(t, answer) ==
  answer = (IF Admitted(t) THEN "extra" ELSE "plain") /\ ~Lingers(t)

\* Whether the rejection of an outcome is about files that the contract lacks.
NamesFiles(t) ==
  LET answer == ops[stored[t]].answer IN
  ~Admitted(t) /\ (answer = "extra" \/ (answer = "plain" /\ Lingers(t)))

\* What becomes of the task: a rejection is reviewed as long as there are attempts,
\* unless nothing the worker does can mend it.
Verdict(t, answer) ==
  CASE AsContracted(t, answer) -> "completed"
    [] answer = "lost" -> "failed"
    [] OTHER -> IF attempts[t] < Cap THEN "review"
                ELSE IF answer = "blocked" THEN "blocked" ELSE "failed"

-----------------------------------------------------------------------------
Goto(at) == pc' = at /\ call' = NoCall
Fails == pc' = "error" /\ UNCHANGED call

\* A call to be made next: guarded if an error of it fails only its task, fresh if
\* it is not one that a restart found.
Invoking(key, about, guarded) ==
  pc' = "invoke" /\ call' = [key |-> key, about |-> about, guarded |-> guarded, fresh |-> TRUE]

\* _invoke_operation as far as the ledger is concerned
Invoke ==
  LET k == call.key IN
  /\ pc = "invoke"
  /\ IF k \in DOMAIN ops
     THEN /\ UNCHANGED ops
          /\ pc' = (CASE ~(OpenKeys \subseteq {k}) \/ ops[k].about # call.about -> "error"
                      [] OTHER -> CASE ops[k].st = "prepared" -> "call"
                                    [] ops[k].st \in {"completed", "applied"} -> "apply"
                                    [] OTHER -> "error")
     ELSE IF OpenKeys # {} THEN pc' = "error" /\ UNCHANGED ops
     ELSE /\ pc' = "call"
          /\ ops' = Inserted(ops, k, [st |-> "prepared", about |-> call.about,
                                       answer |-> "none", no |-> Cardinality(DOMAIN ops) + 1])
  /\ UNCHANGED <<contract, tasks, counters, questions, run, call, mishaps>>

\* The worker leaves the file it is not to deliver, or removes it (a bound: when it is
\* done; and the leader admits only a file an outcome was rejected for).
FilesAfter(key, answer) ==
  IF key[1] \notin Workers \/ answer \notin Outcomes THEN {left}
  ELSE IF answer = "extra" THEN {left \cup {key[2]}}
  ELSE IF answer = "plain" THEN {left, left \ {key[2]}} ELSE {left}

Complete(answer) ==
  /\ pc = "call" /\ pc' = "apply" /\ left' \in FilesAfter(call.key, answer)
  /\ answer = "admit" => Blamed(call.key[2])
  /\ ops' = [ops EXCEPT ![call.key].st = "completed", ![call.key].answer = answer]
  /\ UNCHANGED <<plan, tasks, counters, questions, run, call, mishaps>>

\* the answer does not parse
MarkFailed ==
  /\ pc = "call" /\ pc' = "invalid" /\ ops' = With(call.key, "failed")
  /\ call.key[2] \in plan.helped
  /\ UNCHANGED <<contract, tasks, counters, questions, run, call, mishaps>>

\* A retry that does not name the files to remove cannot clear a rejection for them: in
\* the ledger it is an answer that does not parse.
RefuseFutileRetry ==
  /\ pc = "call" /\ call.key[1] \in Reviews /\ NamesFiles(call.key[2])
  /\ pc' = "invalid" /\ ops' = With(call.key, "failed")
  /\ UNCHANGED <<contract, tasks, counters, questions, run, call, mishaps>>

\* wait_for_operation
Park ==
  /\ pc = "call" /\ mishaps < MaxMishaps /\ mishaps' = mishaps + 1
  /\ ops' = With(call.key, "waiting") /\ run' = "waiting_for_provider"
  /\ tasks' = [t \in Tasks |-> IF t = call.key[2] THEN "waiting_for_provider" ELSE tasks[t]]
  /\ Goto("idle") /\ UNCHANGED <<contract, counters, questions>>

\* One repair for the stages that have one: a task's own, a review's and a
\* synthesis' also when a restart took up the call.
Repair ==
  LET stage == call.key[1]  t == call.key[2]  n == call.key[3] IN
  /\ pc = "invalid" /\ stage \notin Syntheses
  /\ CASE stage = "worker" /\ n = 0 /\ call.fresh ->
            Invoking(Key("worker", t, 1), call.about, call.guarded)
       [] stage = "acceptance_lead" ->
            Invoking(Key("acceptance_lead_repair", t, n), <<"repair", 0>>, call.guarded)
       [] stage = "acceptance_lead_repair" -> pc' = "consume" /\ UNCHANGED call
       [] stage = "acceptance_worker" /\ call.fresh ->
            Invoking(Key("acceptance_worker_repair", t, n), <<"repair", 0>>, call.guarded)
       [] OTHER -> Fails
  /\ UNCHANGED <<contract, ops, tasks, counters, questions, run, mishaps>>

RepairSynthesis ==
  /\ pc = "invalid" /\ call.key[1] \in Syntheses
  /\ IF call.key[1] = "synthesis_repair" THEN Fails
     ELSE Invoking(Key("synthesis_repair", 0, call.key[3]), <<"repair", 0>>, FALSE)
  /\ UNCHANGED <<contract, ops, tasks, counters, questions, run, mishaps>>

\* finish_task and start_task
FinishTask(t, status) == tasks' = [tasks EXCEPT ![t] = status]
BeginTask(t) == tasks' = [tasks EXCEPT ![t] = "in_progress"]

\* An error of a call that the loop started fails its task, any other the run;
\* either leaves the call as it is.
Error ==
  /\ pc = "error"
  /\ IF call.guarded
     THEN /\ Goto("loop") /\ UNCHANGED run
          /\ FinishTask(call.key[2], "failed")
     ELSE /\ Goto("idle") /\ run' = "failed"
          /\ tasks' = [t \in Tasks |-> IF tasks[t] = "in_progress" THEN "failed" ELSE tasks[t]]
  /\ UNCHANGED <<contract, ops, counters, questions, mishaps>>

-----------------------------------------------------------------------------
(* _escalate_unparsable_lead_output: a review that was no use twice uses   *)
(* an attempt and makes the run ask the user.                              *)

Consume ==
  LET t == call.key[2] IN
  /\ pc = "consume"
  /\ IF attempts[t] >= Cap THEN Fails /\ UNCHANGED attempts
     ELSE attempts' = [attempts EXCEPT ![t] = @ + 1] /\ pc' = "raise" /\ UNCHANGED call
  /\ UNCHANGED <<contract, ops, tasks, stored, rounds, reinv, questions, run, mishaps>>

Raise ==
  /\ pc = "raise" /\ Goto("publish")
  /\ request' = "collecting" /\ items' = items \cup {System}
  /\ UNCHANGED <<contract, ops, tasks, counters, resolved, run, mishaps>>

\* publish_decision_request
Publish ==
  /\ pc = "publish" /\ Goto("idle") /\ request' = "awaiting" /\ run' = "waiting_for_user"
  /\ UNCHANGED <<contract, ops, tasks, counters, items, resolved, mishaps>>

-----------------------------------------------------------------------------
(* Effects: the tables and the call in one transaction.  Where the tables  *)
(* are not as the effect expects, it raises and nothing is written.        *)

Replayed == Is(call.key, "applied")
Working(t) == tasks[t] = "in_progress"

OutcomeFits(t) == IF Replayed THEN stored[t] = call.key /\ Verdict(t, ops[call.key].answer) = "review"
                  ELSE Working(t)
RoundFits(t, n) == rounds + 1 = n /\ rounds < Rounds /\ Working(t)
ReviewFits(t, n) ==
  /\ Working(t) /\ attempts[t] + 1 = n
  /\ ops[call.key].answer \in Again => n <= Cap
SynthesisFits == run = "summarizing" /\ EffectStatus(tasks, plan.required) # "conflict"

Fits ==
  LET stage == call.key[1]  t == call.key[2]  n == call.key[3] IN
  CASE stage \in Workers -> IF ops[call.key].answer \in Queries THEN Working(t) ELSE OutcomeFits(t)
    [] stage \in Mediations -> RoundFits(t, n)
    [] stage \in Reviews -> ReviewFits(t, n)
    [] stage \in Syntheses -> SynthesisFits

RefuseEffect ==
  /\ pc = "apply" /\ ~Fits /\ Fails
  /\ UNCHANGED <<contract, ops, tasks, counters, questions, run, mishaps>>

\* The effect of the call that the coroutine is at, if it is of one of these stages
\* and has one of these answers.
Applies(stages, answers) ==
  /\ pc = "apply" /\ call.key[1] \in stages /\ ops[call.key].answer \in answers /\ Fits
  /\ ops' = With(call.key, "applied")

\* A worker asks again: a mediation's answer counts as a reinvocation.
Reinvoked == IF call.key[1] = "mediation_worker" /\ ~Replayed THEN reinv + 1 ELSE reinv

\* a question that names a teammate goes to that one, any other to the leader
Respondent(kind) == IF kind = "consult" THEN "consult_peer" ELSE "mediation_lead"

\* _run_cycle_mediation: who is asked next, or the worker told to finish
Mediate(t, kind, used) ==
  IF rounds >= Rounds \/ used >= ReCap
  THEN Invoking(Key("mediation_worker", t, Max({rounds, used}) + 1), <<"budget", 0>>,
                call.guarded)
  ELSE Invoking(Key(Respondent(kind), t, rounds + 1), <<"query", ops[call.key].no>>, call.guarded)

ApplyQuery ==
  /\ Applies(Workers, Queries) /\ reinv' = Reinvoked
  /\ Mediate(call.key[2], ops[call.key].answer, Reinvoked)
  /\ UNCHANGED <<contract, tasks, attempts, stored, rounds, questions, run, mishaps>>

\* _run_cycle_acceptance
Review(t, guarded) ==
  Invoking(Key("acceptance_lead", t, attempts[t] + 1), ReviewPrompt(stored'[t]), guarded)

ApplyOutcome ==
  LET t == call.key[2]  verdict == Verdict(t, ops[call.key].answer) IN
  /\ Applies(Workers, Outcomes) /\ reinv' = Reinvoked
  /\ stored' = [stored EXCEPT ![t] = call.key]
  /\ IF verdict = "review" THEN Review(t, call.guarded) /\ UNCHANGED tasks
     ELSE Goto("loop") /\ FinishTask(t, verdict)
  /\ UNCHANGED <<contract, attempts, rounds, questions, run, mishaps>>

\* Its question joins the request being collected.
AppendItem == request' = "collecting" /\ items' = items \cup {call.key}

\* The task waits for the user.
AsksUser(t) ==
  /\ tasks' = [tasks EXCEPT ![t] = "waiting_for_user"] /\ AppendItem
  /\ Goto(IF ops[call.key].answer = "ask_run" THEN "settle" ELSE "loop")

ForgetsTheRound(n) == UNCHANGED rounds         \* mutant of CountRound
CountRound(n) == rounds' = n

\* The worker is told what the leader, or the peer it asked, says.
Tell ==
  LET t == call.key[2]  n == call.key[3] IN
  /\ CountRound(n) /\ Invoking(Key("mediation_worker", t, n), <<"answer", 0>>, call.guarded)
  /\ UNCHANGED <<contract, tasks, attempts, stored, reinv, questions, run, mishaps>>

ApplyMediation == Applies({"mediation_lead"}, {"answer"}) /\ Tell
ApplyConsult == Applies({"consult_peer"}, {"answer"}) /\ Tell

MediationAsksUser ==
  /\ Applies({"mediation_lead"}, Asks) /\ CountRound(call.key[3]) /\ AsksUser(call.key[2])
  /\ UNCHANGED <<contract, attempts, stored, reinv, resolved, run, mishaps>>

\* _continue_cycle_acceptance_effect: the worker is told what to do otherwise.
HaveItDone(t, n) == Invoking(Key("acceptance_worker", t, n), <<"lead", 0>>, call.guarded)

\* A retry and a revision use an attempt, a question for the user does not.
ApplyReview ==
  LET t == call.key[2]  n == call.key[3] IN
  /\ Applies(Reviews, Again) /\ attempts' = [attempts EXCEPT ![t] = n]
  /\ HaveItDone(t, n)
  /\ UNCHANGED <<contract, tasks, stored, rounds, reinv, questions, run, mishaps>>

ReviewAsksUser ==
  /\ Applies(Reviews, Asks) /\ AsksUser(call.key[2])
  /\ UNCHANGED <<contract, counters, resolved, run, mishaps>>

ReviewGivesUp ==
  /\ Applies(Reviews, {"fail"}) /\ FinishTask(call.key[2], "failed") /\ Goto("loop")
  /\ UNCHANGED <<contract, counters, questions, run, mishaps>>

ApplySynthesis ==
  /\ Applies(Syntheses, {"summary"}) /\ Goto("idle")
  /\ run' = EffectStatus(tasks, plan.required)
  /\ UNCHANGED <<contract, tasks, counters, questions, mishaps>>

\* the leader asks the user before it sums up
ApplySynthesisDecision ==
  /\ Applies(Syntheses, {"ask_run"}) /\ Goto("publish")
  /\ AppendItem
  /\ UNCHANGED <<contract, tasks, counters, resolved, run, mishaps>>

-----------------------------------------------------------------------------
(* The loop over the tasks.  A call that is still open goes first: its     *)
(* prompt is made again from the tables and must be what it was.           *)

\* The prompt of a call found open, <<"none", 0>> where none can be made.
Rebuilt(k) ==
  LET t == k[2]  n == k[3]
      helps == {l \in Of(AppliedKeys, Mediations, t) : l[3] = n}
      lead == Key("acceptance_lead", t, n)
  IN CASE k[1] = "worker" -> <<"task", Version(t)>>
       [] k[1] \in Mediations -> QueryPrompt(t)
       [] k[1] = "mediation_worker" ->
            IF helps = {} /\ (rounds >= Rounds \/ reinv >= ReCap) THEN <<"budget", 0>>
            ELSE IF helps = {} \/ Answered(helps, Asks) # {} THEN <<"none", 0>>
            ELSE <<"answer", 0>>
       [] k[1] \in Reviews -> ReviewPrompt(stored[t])
       [] k[1] = "acceptance_worker" ->
            IF Is(lead, "applied") /\ ops[lead].answer \notin Asks THEN <<"lead", 0>>
            ELSE <<"none", 0>>
       [] k[1] = "acceptance_worker_repair" ->
            IF Is(Key("acceptance_worker", t, n), "failed") THEN <<"repair", 0>> ELSE <<"none", 0>>

Recoverable(k) ==
  IF ops[k].st = "prepared" THEN Rebuilt(k) = ops[k].about ELSE Rebuilt(k) # <<"none", 0>>

TakeUp(k, works) ==
  /\ call' = [key |-> k, about |-> ops[k].about, guarded |-> FALSE, fresh |-> FALSE]
  /\ pc' = (IF ~works THEN "error" ELSE IF ops[k].st = "prepared" THEN "call" ELSE "apply")

TakesUpSyntheses(k) ==                         \* mutant of TakeUpInLoop
  IF k[1] \in Syntheses THEN Goto("loop") ELSE TakeUp(k, Recoverable(k))
\* a synthesis is left to the end of the loop
TakeUpInLoop(k) == IF k[1] \in Syntheses THEN Goto("settle") ELSE TakeUp(k, Recoverable(k))

RecoverOpen ==
  /\ pc = "loop" /\ OpenKeys # {} /\ TakeUpInLoop(CHOOSE k \in OpenKeys : TRUE)
  /\ UNCHANGED <<contract, ops, tasks, counters, questions, run, mishaps>>

\* _recover_applied_operation_chain: the answer of the user to a leader's question
\* is handed to the worker, a review that was escalated is asked for again.
Last(t) == Newest({k \in AppliedKeys : k[2] = t})
UserDecided(t) ==
  tasks[t] \in {"pending", "in_progress"} /\ Last(t)[1] \in Mediations \cup Reviews
  /\ Last(t) \in resolved
ReviewDue(t) ==
  tasks[t] = "in_progress" /\ Last(t)[1] \in Workers /\ ops[Last(t)].answer \in Outcomes
\* The last call is a review that was applied, although the task has not moved since:
\* the process stopped before the worker was told, the outcome was reviewed once more,
\* and that review was no use, which made the run ask the user.
ReviewGiven(t) ==
  tasks[t] = "in_progress" /\ Last(t)[1] \in Reviews /\ Last(t) \notin resolved
Chained == {t \in Tasks : UserDecided(t) \/ ReviewDue(t) \/ ReviewGiven(t)}

\* The review is applied again, which its own attempt must allow.  Where a task of a
\* larger batch, in progress with a mediation's answer or a query as its last call,
\* would come: with one task at a time the loop finds none.
Chain ==
  LET t == Min(Chained)  last == Last(t) IN
  /\ pc = "loop" /\ OpenKeys = {} /\ Chained # {}
  /\ BeginTask(t) /\ UNCHANGED stored
  /\ CASE ReviewDue(t) -> Review(t, FALSE)
       [] UserDecided(t) ->
            Invoking(Key(IF last[1] \in Reviews THEN "acceptance_worker" ELSE "mediation_worker",
                         t, last[3]), <<"user", 0>>, FALSE)
       [] ReviewGiven(t) ->
            IF ops[last].answer \in Again /\ attempts[t] = last[3]
            THEN HaveItDone(t, last[3]) ELSE Fails
  /\ UNCHANGED <<contract, ops, attempts, rounds, reinv, questions, run, mishaps>>

Ready == {t \in Tasks : /\ tasks[t] = "pending"
                        /\ Prerequisites({tasks[d] : d \in plan.deps[t]}) = "ready"}

StartTask ==
  LET t == Min(Ready) IN
  /\ pc = "loop" /\ OpenKeys = {} /\ Chained = {} /\ Ready # {}
  /\ BeginTask(t)
  /\ Invoking(Key("worker", t, 0), <<"task", Version(t)>>, TRUE)
  /\ UNCHANGED <<contract, ops, counters, questions, run, mishaps>>

LeaveLoop ==
  /\ pc = "loop" /\ OpenKeys = {} /\ Chained = {} /\ Ready = {} /\ Goto("settle")
  /\ UNCHANGED <<contract, ops, tasks, counters, questions, run, mishaps>>

-----------------------------------------------------------------------------
(* _execute_and_synthesize below its loop *)

Skippable == {t \in Tasks : /\ tasks[t] = "pending"
                            /\ Prerequisites({tasks[d] : d \in plan.deps[t]}) = "skip"}

SettleQuestions ==
  /\ pc = "settle" /\ request = "collecting" /\ Goto("publish")
  /\ UNCHANGED <<contract, ops, tasks, counters, questions, run, mishaps>>

\* skip_pending_dependency_failures; what it skips makes more skippable
SkipDependents ==
  /\ pc = "settle" /\ request # "collecting" /\ Skippable # {}
  /\ tasks' = [t \in Tasks |-> IF t \in Skippable THEN "skipped" ELSE tasks[t]]
  /\ UNCHANGED <<contract, ops, counters, questions, run, pc, call, mishaps>>

Settle ==
  LET status == Disposition(tasks, plan.required, plan.deps) IN
  /\ pc = "settle" /\ request # "collecting" /\ Skippable = {}
  /\ CASE status \in {"incomplete", "unresolved"} -> Fails /\ UNCHANGED run
       [] status \in {"failed", "blocked"} -> run' = status /\ Goto("idle")
       [] OTHER -> run' = "summarizing" /\ Goto("synthesize")
  /\ UNCHANGED <<contract, ops, tasks, counters, questions, mishaps>>

\* _leader_synthesis: an open synthesis first, else the next
Synthesize ==
  /\ pc = "synthesize"
  /\ IF OpenKeys # {} THEN TakeUp(CHOOSE k \in OpenKeys : TRUE, TRUE)
     ELSE Invoking(Key("synthesis", 0, Cardinality(Of(resolved, Syntheses, 0))), <<"results", 0>>,
                   FALSE)
  /\ UNCHANGED <<contract, ops, tasks, counters, questions, run, mishaps>>

-----------------------------------------------------------------------------
(* The world of the coroutine *)

Crash ==
  /\ pc # "down" /\ mishaps < MaxMishaps /\ mishaps' = mishaps + 1 /\ Goto("down")
  /\ UNCHANGED <<contract, ops, tasks, counters, questions, run>>

Interrupted == [t \in Tasks |-> IF tasks[t] = "in_progress" THEN "pending" ELSE tasks[t]]

\* A question being collected is published, unless a call is taken up again.
PublishAtStart(else) ==
  IF request = "collecting" THEN request' = "awaiting" /\ run' = "waiting_for_user"
  ELSE request' = request /\ run' = else

\* Start-up: an open call is taken up, or parked if it was under way; a run without
\* one is interrupted and its task is to be done again.
Restart ==
  LET k == CHOOSE k \in OpenKeys : TRUE
      due == OpenKeys # {} /\ ops[k].st \in {"prepared", "completed"}
  IN /\ pc = "down" /\ UNCHANGED call
     /\ \/ due /\ pc' = "loop" /\ run' = "running" /\ UNCHANGED <<ops, tasks, request>>
        \/ /\ due /\ ops[k].st = "prepared" /\ pc' = "idle" /\ ops' = With(k, "waiting")
           /\ tasks' = [t \in Tasks |-> IF t = k[2] THEN "waiting_for_provider" ELSE tasks[t]]
           /\ PublishAtStart("waiting_for_provider")
        \/ /\ ~due /\ pc' = "idle" /\ UNCHANGED ops
           /\ IF OpenKeys = {} /\ run \in {"running", "summarizing"}
              THEN tasks' = Interrupted /\ PublishAtStart("interrupted")
              ELSE UNCHANGED tasks /\ PublishAtStart(run)
     /\ UNCHANGED <<contract, counters, items, resolved, mishaps>>

\* The provider is back, or the user resumes a call whose session is known.
Reclaim ==
  \E k \in OpenKeys :
    /\ pc = "idle" /\ run = "waiting_for_provider" /\ ops[k].st = "waiting"
    /\ ops' = With(k, "prepared") /\ run' = "running" /\ Goto("loop")
    /\ tasks' = [t \in Tasks |-> IF t = k[2] THEN "in_progress" ELSE tasks[t]]
    /\ UNCHANGED <<contract, counters, questions, mishaps>>

UserResumes ==
  /\ pc = "idle" /\ run = "interrupted" /\ run' = "running" /\ Goto("loop")
  /\ UNCHANGED <<contract, ops, tasks, counters, questions, mishaps>>

\* the mutant of Released wakes every task that waits
AllReleased == [t \in Tasks |-> IF tasks[t] = "waiting_for_user" THEN "in_progress" ELSE tasks[t]]
Released == [t \in Tasks |-> IF \E k \in items : k[2] = t /\ tasks[t] = "waiting_for_user"
                              THEN "pending" ELSE tasks[t]]

\* answer_decision_request; a cycle with a parked call does not get far
UserAnswers ==
  /\ pc = "idle" /\ run = "waiting_for_user" /\ request = "awaiting"
  /\ request' = "none" /\ items' = {} /\ resolved' = resolved \cup items /\ run' = "running"
  /\ tasks' = Released
  /\ Goto(IF \E k \in OpenKeys : ops[k].st = "waiting" THEN "idle" ELSE "loop")
  /\ UNCHANGED <<contract, ops, counters, mishaps>>

-----------------------------------------------------------------------------
Step ==
  \/ Invoke \/ MarkFailed \/ RefuseFutileRetry \/ Repair \/ RepairSynthesis \/ Error
  \/ Consume \/ Raise \/ Publish
  \/ \E a \in Answers(call.key, call.about) : Complete(a)
  \/ RefuseEffect \/ ApplyQuery \/ ApplyOutcome
  \/ ApplyMediation \/ ApplyConsult \/ MediationAsksUser
  \/ ApplyReview \/ ReviewAsksUser \/ ReviewGivesUp
  \/ ApplySynthesis \/ ApplySynthesisDecision
  \/ RecoverOpen \/ Chain \/ StartTask \/ LeaveLoop
  \/ SettleQuestions \/ SkipDependents \/ Settle \/ Synthesize

World == Park \/ Crash \/ Reclaim \/ UserResumes \/ UserAnswers

Next == Step \/ Restart \/ World

\* The event loop runs the coroutine and the process is started again; neither the
\* provider nor the user owes anything.
Spec == Init /\ [][Next]_vars /\ WF_vars(Step) /\ WF_vars(Restart)

-----------------------------------------------------------------------------
(* Properties *)

Calls == INSTANCE ModelCalls
           WITH calls <- [k \in DOMAIN ops |-> [at |-> Stage(ops[k].st), answer |-> ops[k].answer]]

\* The loop, the chain of effects and the recovery share one ledger and use it as
\* ModelCalls promises: never two open calls, no answer applied twice, though an
\* interrupted task starts from its first call again.
CallsAreOnce == Calls!Spec

\* Only the transitions of team_lifecycle.py happen while the process runs: the
\* effects write the status of a task without asking that table.
LegalTransitions ==
  [][pc # "down" => \A t \in Tasks : CanTransition(tasks[t], tasks'[t])]_vars

\* No step, whichever part of the coroutine takes it, does to a task or to a call what
\* the lifecycle rules and the ledger do not allow.
StepsAreLegal == LegalTransitions /\ CallsAreOnce

\* The budgets count what was really spent and are never overdrawn: each round is
\* a leader's or a peer's applied answer, each retry or revision an attempt.
BudgetsAreCounted ==
  /\ rounds = Cardinality({k \in AppliedKeys : k[1] \in Mediations}) /\ rounds <= Rounds
  /\ \A t \in Tasks :
       /\ Cardinality(Answered(Of(AppliedKeys, Reviews, t), Again)) <= attempts[t]
       /\ attempts[t] <= Cap

\* A task is completed by the outcome it holds: that one was applied and delivers what
\* the contract, as revised, says; and an outcome that does so from the start is enough.
CompletedHasAcceptedOutcome ==
  \A t \in Tasks :
    LET held == stored[t] # NoKey /\ ops[stored[t]].st = "applied"
        delivers == ops[stored[t]].answer = (IF Admitted(t) THEN "extra" ELSE "plain")
    IN /\ tasks[t] = "completed" => held /\ delivers
       /\ held /\ delivers /\ Answered(Of(AppliedKeys, Workers, t), {"extra"}) = {} =>
            tasks[t] = "completed"

\* No file that an outcome was rejected for in a review is left behind by a completed
\* task, unless the leader admitted it, however many outcomes, questions and restarts
\* later.  (A rejection that an interruption kept from its review may be forgotten.)
FilesAreDeclared ==
  \A t \in Tasks :
    tasks[t] = "completed" /\ t \in left
      /\ (\E w \in Answered(Of(AppliedKeys, Workers, t), {"extra"}) : ops[w].no \in Reviewed(t))
    => Admitted(t)

\* A task waits for the user exactly as long as its question is in the request that
\* is collected or published: the answer finds it, and nothing else can.
WaitingIsAsked ==
  \A t \in Tasks :
    (tasks[t] = "waiting_for_user") <=> request # "none" /\ \E k \in items : k[2] = t

\* A status that ends or parks a task is earned: completed by an accepted outcome that
\* leaves no undeclared file, waiting by a question that is asked.
StatusIsEarned == CompletedHasAcceptedOutcome /\ FilesAreDeclared /\ WaitingIsAsked

\* A run that reports completion reports what the tasks amount to, although the
\* status is decided once before the synthesis and again when it is applied.
FinalStatusAgrees ==
  run \in {"completed", "completed_with_failures"} =>
    /\ \A t \in plan.required : tasks[t] = "completed"
    /\ run = Disposition(tasks, plan.required, plan.deps)

\* No prerequisite is bypassed: a task that was ever started had all it waits for
\* completed, and none of those is undone.
PrerequisitesAreDone ==
  \A t \in Tasks : tasks[t] \notin {"pending", "skipped"} =>
    \A d \in plan.deps[t] : tasks[d] = "completed"

\* No plan that was accepted gets stuck: when the loop is left and what cannot be done
\* is skipped, no task remains whose turn never came.
NothingRemains ==
  pc = "settle" /\ request # "collecting" /\ Skippable = {} =>
    Disposition(tasks, plan.required, plan.deps) # "incomplete"

\* The plan's order and its required tasks are kept from the first task to the
\* status of the run, and its tasks all get an end.
PlanIsKept == PrerequisitesAreDone /\ FinalStatusAgrees /\ NothingRemains

\* The coroutine of a cycle comes to an end: queries, reviews, repairs and replays
\* are all bounded.
ExecutionEnds == []<>(pc \in {"idle", "down"})

=============================================================================
