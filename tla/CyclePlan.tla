------------------------------ MODULE CyclePlan ------------------------------
(***************************************************************************)
(* How one cycle of a team run comes by the tasks it executes              *)
(* (team_runtime.py, team_plan_negotiation.py, the planning effects of     *)
(* team_model_effects.py, the plan revisions of teams.py): a plan, added   *)
(* work or the verdict on an objection becomes tasks; the owners of the    *)
(* tasks review the plan, and a refused plan is cancelled and replaced     *)
(* until all approve or the budget of revisions is spent.                  *)
(*                                                                         *)
(* Every step is one transaction, so that the process can stop between     *)
(* any two.  A restart and the continuations after it see only the tables. *)
(* The schedulers of a cycle (worker, marker, loop, handlers) are those of *)
(* CycleDispatcher, here reduced to the one coroutine that runs; a user's  *)
(* cancel is left to that module.                                          *)
(***************************************************************************)
EXTENDS Naturals, Sequences, FiniteSets, FiniteSetsExt, SequencesExt, CallStatus

CONSTANTS
  Sources,       \* the kinds of the request: see AllSources
  Negotiation,   \* plan_negotiation_enabled
  NApprovers,    \* workers that own the plan
  PlanSize,      \* tasks of a plan
  MaxRevisions,  \* PLAN_NEGOTIATION_MAX_REVISIONS
  MaxMishaps     \* bound on crashes, waits for the provider and ambiguous calls

AllSources == {"resume", "add_work", "contest"}  \* resume: a run whose cycle is started

ASSUME PlanConstants ==
  /\ Sources \subseteq AllSources /\ Negotiation \in BOOLEAN
  /\ {NApprovers, PlanSize, MaxRevisions} \subseteq Nat \ {0} /\ MaxMishaps \in Nat

VARIABLES
  run, cycle, request,  \* the statuses of the run, the cycle and its request
  ops,      \* the cycle's model operations: key -> [st, answer]
  tasks,    \* the cycle's task rows in order of creation: their statuses
  revs,     \* the cycle's plan revisions: [status, tasks, reviews]
  asked,    \* the decision raised for the verdict ask_back
  pc, call, \* where the coroutine is, and the call it makes
  entry,    \* the coroutine: "add_work", "add_work_again", "contest" or "resume"
  mishaps

vars == <<run, cycle, request, ops, tasks, revs, asked, pc, call, entry, mishaps>>
status == <<run, cycle, request>>
tables == <<status, tasks, revs, asked>>

Approvers == 1 .. NApprovers

Terminal == {"completed", "completed_with_failures", "failed"}
Parked == {"waiting_for_user", "waiting_for_provider", "interrupted"}

-----------------------------------------------------------------------------
(* Operation keys: a stage and an ordinal.  A review is keyed by revision  *)
(* and reviewer, a replan by the revision it replaces.                     *)

Stride == 100
\* _require_keyable_approvers refuses more owners than the ordinals have room for.
ASSUME ApproversAreKeyable == NApprovers <= Stride

ReviewKey(r, i) == <<"review", r * Stride + i - 1>>
ReplanKey(r) == <<"planning", 10 * (r + 1)>>

\* worker stages apart, a repair has a stage of its own; added work is repaired
\* as planning with ordinal 2
RepairKey(key) ==
  CASE key[1] = "add_work" -> <<"planning_repair", 2>>
    [] key[1] = "planning" -> <<"planning_repair", key[2] + 1>>
    [] key[1] = "contest" -> <<"contest_repair", key[2]>>
    [] key[1] = "review" -> <<"review_repair", key[2]>>

Repairs == {"planning_repair", "contest_repair", "review_repair"}
Planning == {"planning", "planning_repair", "add_work"}
Contests == {"contest", "contest_repair"}
Reviews == {"review", "review_repair"}

\* the revision a planning operation replaces, 0 for a first plan
ReplanSource(key) ==
  LET base == IF key[1] = "planning_repair" THEN key[2] - 1 ELSE key[2] IN
  IF key[1] \in Planning /\ base >= 10 /\ base % 10 = 0 THEN (base \div 10) - 1 ELSE 0

IsAddWork(key) == key[1] = "add_work" \/ key = <<"planning_repair", 2>>

Answers(stage) ==
  CASE stage \in Planning -> {"plan"}
    [] stage \in Contests -> {"amend", "reject", "ask_back"}
    [] stage \in Reviews -> {"approve", "object"}
    [] OTHER -> {}

OpenKeys == {k \in DOMAIN ops : ops[k].st \in OpenOp}
Status(k) == IF k \in DOMAIN ops THEN ops[k].st ELSE "none"
With(k, st) == [ops EXCEPT ![k].st = st]

-----------------------------------------------------------------------------
(* Tasks and revisions *)

Live == {t \in DOMAIN tasks : tasks[t] # "canceled"}
Pending == {t \in DOMAIN tasks : tasks[t] = "pending"}
Active == {r \in DOMAIN revs : revs[r].status = "awaiting_approval"}
Approved == {r \in DOMAIN revs : revs[r].status = "approved"}
Superseded == {r \in DOMAIN revs : revs[r].status = "superseded"}

\* discarded_task_ids: the tasks that only a discarded plan proposed; the others
\* decide how the cycle ends.
Discarded ==
  LET listed(rs) == UNION {revs[r].tasks : r \in rs}
      dead == {r \in DOMAIN revs : revs[r].status \in {"superseded", "abandoned"}}
  IN listed(dead) \ listed(DOMAIN revs \ dead)

EveryTask == DOMAIN tasks                      \* mutant of Counted
Counted == DOMAIN tasks \ Discarded

\* next_revision: 0 when the budget is spent
NextRevision(current) == IF current >= MaxRevisions THEN 0 ELSE current + 1

Verdict(r) ==
  CASE \E i \in Approvers : revs[r].reviews[i] = "object" -> "objected"
    [] \A i \in Approvers : revs[r].reviews[i] = "approve" -> "approved"
    [] OTHER -> "waiting"

NoCall == [key |-> <<"none", 0>>, plain |-> FALSE]
NoReviews == [i \in Approvers |-> "none"]

NeedsNegotiation == Negotiation /\ Approved = {}

-----------------------------------------------------------------------------
TypeOK ==
  /\ cycle \in {"queued", "running"} \cup Parked \cup Terminal
  /\ run \in {"draft", "planning", "running"} \cup Parked \cup Terminal
  /\ request \in {"dispatching", "settled"}
  /\ \A k \in DOMAIN ops : /\ ops[k].st \in OpStatus
                           /\ ops[k].answer \in {"none"} \cup Answers(k[1])
  /\ \A t \in DOMAIN tasks : tasks[t] \in {"pending", "canceled", "completed"}
  /\ \A r \in DOMAIN revs :
       /\ revs[r].status \in {"awaiting_approval", "approved", "superseded", "abandoned"}
       /\ revs[r].tasks \subseteq DOMAIN tasks
       /\ revs[r].reviews \in [Approvers -> {"none", "approve", "object"}]
  /\ asked \in {"no", "collecting", "published", "answered"}
  /\ entry \in {"none", "add_work_again"} \cup AllSources
  /\ mishaps \in 0 .. MaxMishaps

Init ==
  /\ run = "draft" /\ cycle = "queued" /\ request = "dispatching" /\ ops = <<>> /\ tasks = <<>>
  /\ revs = <<>> /\ asked = "no" /\ pc \in Sources /\ entry = pc /\ call = NoCall /\ mishaps = 0

-----------------------------------------------------------------------------
(* Model calls.  Ask is _invoke_operation: another open operation or an    *)
(* operation whose status cannot be invoked is a conflict; an answer that  *)
(* was stored before is used again.  A "plain" call, made for an operation *)
(* that a restart found, has no repair.                                    *)

Ask(key) ==
  /\ call' = [key |-> key, plain |-> FALSE]
  /\ IF OpenKeys \subseteq {key} /\ key \notin DOMAIN ops
     THEN ops' = Inserted(ops, key, [st |-> "prepared", answer |-> "none"]) /\ pc' = "call"
     ELSE /\ UNCHANGED ops
          /\ pc' = (IF ~(OpenKeys \subseteq {key}) THEN "error"
                    ELSE CASE ops[key].st = "prepared" -> "call"
                           [] ops[key].st \in {"completed", "applied"} -> "apply"
                           [] OTHER -> "error")

\* _recover_open_operation: the stored answer is applied, a prepared call made
Recover(key) ==
  /\ call' = [key |-> key, plain |-> TRUE]
  /\ pc' = (IF ops[key].st = "completed" THEN "apply" ELSE "call")
  /\ UNCHANGED ops

Ends == pc' = "idle" /\ call' = NoCall

Settles(st) == cycle' = st /\ request' = "settled"

Raise == pc' = "error" /\ UNCHANGED <<ops, call>>

BeginAttempt ==
  /\ pc = "call" /\ pc' = "invoking" /\ ops' = With(call.key, "invoking")
  /\ UNCHANGED <<tables, call, entry, mishaps>>

Complete(answer) ==
  /\ pc = "invoking" /\ pc' = "apply"
  /\ ops' = [ops EXCEPT ![call.key] = [st |-> "completed", answer |-> answer]]
  /\ UNCHANGED <<tables, call, entry, mishaps>>

MarkFailed ==
  /\ pc = "invoking" /\ pc' = "invalid" /\ ops' = With(call.key, "failed")
  /\ UNCHANGED <<tables, call, entry, mishaps>>

\* _validate_active_source: where the run and the cycle must be for a call to be
\* parked; _restore_operation_source puts them back there.
ActiveSource(key) ==
  CASE IsAddWork(key) -> [run |-> {"draft", "planning", "running"}, cycle |-> "queued"]
    [] key[1] \in Contests -> [run |-> {"running"}, cycle |-> "running"]
    [] OTHER -> [run |-> {"planning"}, cycle |-> "running"]

RestoredRun(key) ==
  IF IsAddWork(key) THEN "draft" ELSE IF key[1] \in Contests THEN "running" ELSE "planning"

BothBecome(st) == run' = st /\ cycle' = st /\ UNCHANGED request

\* The provider is unavailable after all attempts; a run that is not where the
\* stage expects it makes the wait itself fail.
Park ==
  LET source == ActiveSource(call.key) IN
  /\ pc = "invoking" /\ mishaps < MaxMishaps /\ mishaps' = mishaps + 1
  /\ IF run \in source.run /\ cycle = source.cycle
     THEN Ends /\ ops' = With(call.key, "waiting") /\ BothBecome("waiting_for_provider")
     ELSE Raise /\ UNCHANGED status
  /\ UNCHANGED <<tasks, revs, asked, entry>>

Ambiguous ==
  /\ pc = "invoking" /\ Ends /\ mishaps < MaxMishaps /\ mishaps' = mishaps + 1
  /\ ops' = With(call.key, "ambiguous") /\ BothBecome("interrupted")
  /\ UNCHANGED <<tasks, revs, asked, entry>>

Invalid ==
  /\ pc = "invalid"
  /\ IF call.plain \/ call.key[1] \in Repairs
     THEN /\ pc' = (IF call.key[1] \in Reviews THEN "verdict" ELSE "error")
          /\ UNCHANGED <<ops, call>>
     ELSE Ask(RepairKey(call.key))
  /\ UNCHANGED <<tables, entry, mishaps>>

\* In start and resume an error settles the cycle; what add_work and the
\* adjudication raise is the worker's to settle, and an add_work that a restart
\* continued only leaves the dispatcher's last_error behind.
Error ==
  /\ pc = "error" /\ Ends
  /\ run' = (IF entry = "resume" THEN "failed" ELSE run)
  /\ IF entry = "add_work_again" THEN UNCHANGED <<cycle, request>> ELSE Settles("failed")
  /\ UNCHANGED <<ops, tasks, revs, asked, entry, mishaps>>

-----------------------------------------------------------------------------
(* Effects: the tables and the operation in one transaction; on an applied *)
(* operation they only read.                                               *)

AddTasks(n) == tasks' = tasks \o [i \in 1 .. n |-> "pending"]
Applied == ops' = With(call.key, "applied")
Replayed == Status(call.key) = "applied"

AfterPlan ==
  IF IsAddWork(call.key) /\ entry # "resume" THEN "resume"
  ELSE IF Negotiation THEN "negotiate" ELSE "execute"

ApplyPlan ==
  /\ pc = "apply" /\ call.key[1] \in Planning
  /\ IF Replayed THEN UNCHANGED tasks ELSE AddTasks(PlanSize)
  /\ Applied /\ pc' = AfterPlan
  /\ entry' = (IF AfterPlan = "resume" THEN "resume" ELSE entry)
  /\ UNCHANGED <<status, revs, asked, call, mishaps>>

\* _apply_contest_outcome, and what the orchestrator does with the verdict
AfterVerdict(kind) ==
  CASE kind = "amend" -> "resume" [] kind = "reject" -> "settle" [] kind = "ask_back" -> "raise"

ApplyContestVerdict ==
  LET kind == ops[call.key].answer IN
  /\ pc = "apply" /\ call.key[1] \in Contests
  /\ IF Replayed \/ kind # "amend" THEN UNCHANGED tasks ELSE AddTasks(PlanSize)
  /\ Applied /\ pc' = AfterVerdict(kind)
  /\ entry' = (IF kind = "amend" THEN "resume" ELSE entry)
  /\ UNCHANGED <<status, revs, asked, call, mishaps>>

ReviewOf(key) == [rev |-> key[2] \div Stride, agent |-> (key[2] % Stride) + 1]

ApplyPlanReview ==
  LET w == ReviewOf(call.key)  decision == ops[call.key].answer IN
  /\ pc = "apply" /\ call.key[1] \in Reviews
  /\ revs' = (IF Replayed THEN revs
              ELSE [revs EXCEPT ![w.rev].reviews[w.agent] = decision])
  /\ Applied
  /\ pc' = (IF decision = "object" THEN "verdict" ELSE "review")
  /\ UNCHANGED <<status, tasks, asked, call, entry, mishaps>>

-----------------------------------------------------------------------------
(* Entries *)

Planned(first) ==    \* _invoke_plan_with_repair
  IF OpenKeys = {} THEN Ask(first)
  ELSE LET open == CHOOSE k \in OpenKeys : TRUE IN
       IF open[1] \in Planning
          /\ (ops[open].st = "completed" \/ open[1] = first[1] \/ open = RepairKey(first))
       THEN Recover(open) ELSE Raise

AddWork ==
  /\ pc = "add_work" /\ Planned(<<"add_work", 0>>)
  /\ UNCHANGED <<tables, entry, mishaps>>

AdjudicateContest ==
  /\ pc = "contest" /\ BothBecome("running")
  /\ Ask(<<"contest", Cardinality({k \in DOMAIN ops : k[1] = "contest"})>>)
  /\ UNCHANGED <<tasks, revs, asked, entry, mishaps>>

Start ==
  /\ pc = "start" /\ Planned(<<"planning", 0>>)
  /\ run' = "planning" /\ cycle' = "running"
  /\ UNCHANGED <<request, tasks, revs, asked, entry, mishaps>>

OpenContests == {k \in OpenKeys : k[1] \in Contests}

\* A cycle without tasks is planned from the start, unless a verdict is still open.
StartAgain ==
  /\ pc = "resume" /\ tasks = <<>> /\ OpenContests = {} /\ pc' = "start"
  /\ UNCHANGED <<tables, ops, call, entry, mishaps>>

ResumeContest ==
  /\ pc = "resume" /\ tasks = <<>> /\ OpenContests # {}
  /\ BothBecome("running") /\ Recover(CHOOSE k \in OpenContests : TRUE)
  /\ UNCHANGED <<tasks, revs, asked, entry, mishaps>>

Resume ==
  /\ pc = "resume" /\ tasks # <<>> /\ BothBecome("running")
  /\ pc' = (IF NeedsNegotiation THEN "negotiate" ELSE "execute")
  /\ UNCHANGED <<tasks, revs, asked, ops, call, entry, mishaps>>

-----------------------------------------------------------------------------
(* Negotiation.  The loop reads the tables only at its top and acts on the *)
(* plan it found there.                                                    *)

\* _resume_interrupted_replan: only the replan itself can be issued again
ReplanIsOpen == \E k \in OpenKeys : ReplanSource(k) # 0

ResumeReplan ==
  LET open == CHOOSE k \in OpenKeys : TRUE IN
  /\ pc = "negotiate" /\ ReplanIsOpen
  /\ IF open[1] = "planning" THEN Ask(open) ELSE Raise
  /\ UNCHANGED <<tables, entry, mishaps>>

\* Nothing is proposed: ask for a new plan, give up, or there never was one.
ReplanAgain ==
  /\ pc = "negotiate" /\ ~ReplanIsOpen /\ Active = {} /\ Live = {}
  /\ CASE Superseded # {} /\ NextRevision(Len(revs)) # 0 -> Ask(ReplanKey(Max(Superseded)))
       [] revs # <<>> /\ (Superseded = {} \/ NextRevision(Len(revs)) = 0) ->
            pc' = "abandon" /\ UNCHANGED <<ops, call>>
       [] revs = <<>> -> Raise
  /\ UNCHANGED <<tables, entry, mishaps>>

CreateRevision ==
  /\ pc = "negotiate" /\ ~ReplanIsOpen /\ Active = {} /\ Live # {}
  /\ IF NextRevision(Len(revs)) = 0
     THEN pc' = "abandon" /\ UNCHANGED revs
     ELSE /\ pc' = "review"
          /\ revs' = revs \o <<[status |-> "awaiting_approval", tasks |-> Live,
                               reviews |-> NoReviews]>>
  /\ UNCHANGED <<status, tasks, asked, ops, call, entry, mishaps>>

ContinueRevision ==
  /\ pc = "negotiate" /\ ~ReplanIsOpen /\ Active # {} /\ pc' = "review"
  /\ UNCHANGED <<tables, ops, call, entry, mishaps>>

\* The next owner that has not reviewed; a repair that a restart caught is
\* entered in place of the review it repairs.
Unreviewed(r) == {i \in Approvers : revs[r].reviews[i] = "none"}

AskReview ==
  /\ pc = "review"
  /\ LET r == Max(Active) IN
     IF Unreviewed(r) = {} THEN pc' = "verdict" /\ UNCHANGED <<ops, call>>
     ELSE LET key == ReviewKey(r, Min(Unreviewed(r)))
              repairing == RepairKey(key) \in OpenKeys /\ Status(key) = "failed"
          IN Ask(IF repairing THEN RepairKey(key) ELSE key)
  /\ UNCHANGED <<tables, entry, mishaps>>

Decide ==
  /\ pc = "verdict"
  /\ LET r == Max(Active) IN
     CASE Verdict(r) = "approved" ->
            pc' = "execute" /\ revs' = [revs EXCEPT ![r].status = "approved"]
       [] Verdict(r) # "approved" /\ NextRevision(r) = 0 ->
            pc' = "abandon" /\ UNCHANGED revs
       [] Verdict(r) # "approved" /\ NextRevision(r) # 0 ->
            pc' = "discard" /\ revs' = [revs EXCEPT ![r].status = "superseded"]
  /\ UNCHANGED <<status, tasks, asked, ops, call, entry, mishaps>>

RewriteTask(t) == t \in DOMAIN tasks /\ UNCHANGED tasks  \* mutant of CancelTask
CancelTask(t) == tasks' = [tasks EXCEPT ![t] = "canceled"]

\* The tasks of the refused plan are cancelled one by one, then the plan is
\* asked for again.
Discard ==
  /\ pc = "discard"
  /\ IF Pending # {} THEN CancelTask(Min(Pending)) /\ UNCHANGED <<ops, call, pc>>
     ELSE Ask(ReplanKey(Max(Superseded))) /\ UNCHANGED tasks
  /\ UNCHANGED <<status, revs, asked, entry, mishaps>>

\* _abandon_negotiation
Abandon ==
  /\ pc = "abandon"
  /\ \/ /\ Pending # {} /\ CancelTask(Min(Pending)) /\ UNCHANGED <<status, revs, pc, call>>
     \/ /\ Pending = {} /\ Active # {} /\ UNCHANGED <<status, tasks, pc, call>>
        /\ revs' = [revs EXCEPT ![Max(Active)].status = "abandoned"]
     \/ /\ Pending = {} /\ Active = {} /\ UNCHANGED <<tasks, revs>>
        /\ run' = "completed_with_failures" /\ Settles("completed_with_failures") /\ Ends
  /\ UNCHANGED <<asked, ops, entry, mishaps>>

\* The tasks of the cycle are executed (TaskExecution has the details) and those
\* that count decide.
Execute ==
  LET end == IF \E t \in Counted : tasks[t] = "canceled" THEN "failed" ELSE "completed" IN
  /\ pc = "execute" /\ Ends /\ run' = end /\ Settles(end)
  /\ tasks' = [t \in DOMAIN tasks |-> IF tasks[t] = "pending" THEN "completed" ELSE tasks[t]]
  /\ UNCHANGED <<revs, asked, ops, entry, mishaps>>

-----------------------------------------------------------------------------
(* The end of a contest without work *)

RaiseDecision ==    \* raise_system_decision, then publish_decision_request
  /\ pc = "raise"
  /\ \/ asked # "collecting" /\ asked' = "collecting" /\ UNCHANGED <<status, pc>>
     \/ /\ asked = "collecting" /\ asked' = "published"
        /\ BothBecome("waiting_for_user") /\ pc' = "settle"
  /\ UNCHANGED <<tasks, revs, ops, call, entry, mishaps>>

LeavesOpen == pc = "settle" /\ Ends /\ UNCHANGED <<tables, ops, entry, mishaps>>
\* LeavesOpen is a mutant of SettleContest.
SettleContest ==
  /\ pc = "settle" /\ Ends
  /\ IF cycle = "running" THEN run' = "completed" /\ Settles("completed") ELSE UNCHANGED status
  /\ UNCHANGED <<tasks, revs, asked, ops, entry, mishaps>>

-----------------------------------------------------------------------------
(* The world of the coroutine: the process stops and starts again, the     *)
(* provider comes back, the user resumes or answers.                       *)

Crash ==
  /\ pc # "down" /\ mishaps < MaxMishaps /\ mishaps' = mishaps + 1
  /\ pc' = "down" /\ call' = NoCall /\ entry' = "none"
  /\ UNCHANGED <<tables, ops>>

\* _resume_operation
Continue(key) ==
  /\ pc' = (IF IsAddWork(key) THEN "add_work" ELSE "resume")
  /\ entry' = (IF IsAddWork(key) THEN "add_work_again" ELSE "resume")

\* Start-up: a call under way becomes ambiguous, a prepared or answered one is
\* continued, a question is published, a cycle with neither is interrupted.
Restart ==
  LET due == {k \in OpenKeys : ops[k].st \in {"prepared", "completed"}}
      lost == {k \in OpenKeys : ops[k].st = "invoking"}
  IN /\ pc = "down"
     /\ ops' = [k \in DOMAIN ops |->
                  IF k \in lost THEN [ops[k] EXCEPT !.st = "ambiguous"] ELSE ops[k]]
     /\ IF due # {} THEN Continue(CHOOSE k \in due : TRUE) ELSE pc' = "idle" /\ UNCHANGED entry
     /\ asked' = (IF due = {} /\ asked = "collecting" THEN "published" ELSE asked)
     /\ CASE lost # {} -> BothBecome("interrupted")
          [] due # {} -> UNCHANGED status
          [] due \cup lost = {} /\ asked = "collecting" -> BothBecome("waiting_for_user")
          [] OTHER ->
               /\ cycle' = (IF cycle \in {"queued", "running"} THEN "interrupted" ELSE cycle)
               /\ run' = (IF run \in {"planning", "running"} THEN "interrupted" ELSE run)
               /\ UNCHANGED request
     /\ UNCHANGED <<tasks, revs, call, mishaps>>

\* A waiting call is claimed when the provider is back, an ambiguous one when
\* the user resumes it and its session is known.
Reclaim ==
  \E k \in OpenKeys :
    /\ pc = "idle" /\ ops[k].st \in {"waiting", "ambiguous"} /\ request = "dispatching"
    /\ ops' = With(k, "prepared") /\ Continue(k)
    /\ run' = RestoredRun(k) /\ cycle' = ActiveSource(k).cycle
    /\ UNCHANGED <<request, tasks, revs, asked, call, mishaps>>

UserResumes ==
  /\ pc = "idle" /\ cycle = "interrupted" /\ OpenKeys = {}
  /\ pc' = "resume" /\ entry' = "resume"
  /\ UNCHANGED <<tables, ops, call, mishaps>>

UserAnswers ==
  /\ pc = "idle" /\ cycle = "waiting_for_user" /\ asked = "published"
  /\ asked' = "answered" /\ BothBecome("running") /\ pc' = "resume" /\ entry' = "resume"
  /\ UNCHANGED <<tasks, revs, ops, call, mishaps>>

-----------------------------------------------------------------------------
Step ==
  \/ AddWork \/ AdjudicateContest \/ Start \/ StartAgain \/ ResumeContest \/ Resume
  \/ BeginAttempt \/ MarkFailed \/ Invalid \/ Error
  \/ \E a \in Answers(call.key[1]) : Complete(a)
  \/ ApplyPlan \/ ApplyContestVerdict \/ ApplyPlanReview
  \/ ResumeReplan \/ ReplanAgain \/ CreateRevision \/ ContinueRevision
  \/ AskReview \/ Decide \/ Discard \/ Abandon \/ Execute
  \/ RaiseDecision \/ SettleContest

World == Park \/ Ambiguous \/ Crash \/ Reclaim \/ UserResumes \/ UserAnswers

Next == Step \/ Restart \/ World

\* The event loop runs the coroutine, the process is started again; neither the
\* provider nor the user owes anything.
Fairness == WF_vars(Step) /\ WF_vars(Restart)

Spec == Init /\ [][Next]_vars /\ Fairness

-----------------------------------------------------------------------------
(* Properties *)

\* A plan under negotiation is executed only when every owner approved it, and
\* what is executed is the plan they approved: an approved revision lists
\* exactly the tasks that are left to do, whatever crashes, repairs and replans
\* came before (the loop of _negotiate_plan, the resume that re-enters it).
ApprovedBeforeExecution ==
  Negotiation /\ pc = "execute" =>
    \E r \in Approved : /\ revs[r].tasks = Pending
                       /\ \A i \in Approvers : revs[r].reviews[i] = "approve"

\* A review is on its revision exactly when its operation is applied, with the
\* answer the operation holds: no verdict is lost in a crash and no reviewer is
\* asked twice for the same revision (apply_plan_review, the repair on resume).
ReviewsMatchLedger ==
  \A r \in DOMAIN revs, i \in Approvers :
    LET keys == {ReviewKey(r, i), RepairKey(ReviewKey(r, i))}
        given == {k \in keys \cap DOMAIN ops : ops[k].st = "applied"}
    IN \/ revs[r].reviews[i] = "none" /\ given = {}
       \/ \E k \in given : given = {k} /\ ops[k].answer = revs[r].reviews[i]

\* A plan that was negotiated and carried out completes the cycle: the tasks of the
\* plans that were refused before it do not fail it (_live_plan_tasks).
RefusedPlansDoNotCount ==
  (\E t \in DOMAIN tasks : tasks[t] = "completed") => run = "completed" /\ cycle = "completed"

\* The budget of revisions holds across restarts, a revision is opened only when
\* none is open, and it is replaced at most once: each revision has at most one
\* replan in the ledger (create_plan_revision, next_revision, _replan_ordinals).
BudgetHolds ==
  /\ Len(revs) <= MaxRevisions /\ Cardinality(Active) <= 1
  /\ \A k \in DOMAIN ops : ReplanSource(k) # 0 =>
       ReplanSource(k) \in Superseded /\ ReplanSource(k) < MaxRevisions

\* The reviewers' approval is real: the plan that is executed is the one they
\* approved, each verdict on it is the one that was applied, within the budget of
\* revisions, and the plans refused before it do not decide how the cycle ends.
PlanIsApproved ==
  ApprovedBeforeExecution /\ ReviewsMatchLedger /\ BudgetHolds /\ RefusedPlansDoNotCount

\* When no coroutine runs, the request is settled or someone can move it on: the
\* provider poll has a waiting call, the user has an interrupted cycle whose
\* call, if any, is ambiguous, or a published question.  The exception is an
\* added-work call continued by a restart, whose error nobody handles.
RestIsActionable ==
  pc = "idle" /\ request = "dispatching" =>
    \/ cycle = "waiting_for_provider" /\ \E k \in OpenKeys : ops[k].st = "waiting"
    \/ cycle = "interrupted" /\ \A k \in OpenKeys : ops[k].st = "ambiguous"
    \/ cycle = "waiting_for_user" /\ asked = "published" /\ OpenKeys = {}
    \/ entry = "add_work_again" /\ OpenKeys = {}

\* A planning coroutine comes to an end: it executes, gives up or parks, and
\* does not negotiate for ever.
PlanningEnds == []<>(pc = "idle")

=============================================================================
