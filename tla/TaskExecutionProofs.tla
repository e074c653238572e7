-------------------------- MODULE TaskExecutionProofs --------------------------
(* Theorems about TaskExecution, for every number of tasks, every plan and  *)
(* every budget, and for every number of crashes and parked calls.          *)
EXTENDS TaskExecution, TLAPS, FiniteSetTheorems, WellFoundedInduction

-----------------------------------------------------------------------------
(* Least and greatest elements, for Min and Newest.                        *)

LEMMA Least == \A S \in SUBSET Nat : S # {} => \E m \in S : \A x \in S : m <= x
<1> SUFFICES ASSUME NEW S \in SUBSET Nat, S # {} PROVE \E m \in S : \A x \in S : m <= x
  OBVIOUS
<1> DEFINE less == {ss \in Nat \X Nat : ss[1] < ss[2]}
<1>1. IsWellFoundedOn(less, Nat)
  BY NatLessThanWellFounded DEF OpToRel
<1>2. PICK m \in S : \A y \in S : ~(<<y, m>> \in less)
  <2> HIDE DEF less
  <2> QED BY <1>1, WFMin
<1>3. \A y \in S : ~(y < m)
  BY <1>2
<1> QED BY <1>3

LEMMA MinIsIn == \A S \in SUBSET Tasks : S # {} => Min(S) \in S
<1> SUFFICES ASSUME NEW S \in SUBSET Tasks, S # {} PROVE Min(S) \in S
  OBVIOUS
<1>1. S \in SUBSET Nat
  BY ExecutionConstants DEF Tasks
<1> QED BY <1>1, Least DEF Min

LEMMA Greatest ==
  ASSUME NEW N \in Nat, NEW S \in SUBSET Nat, S # {}, \A x \in S : x <= N
  PROVE  \E m \in S : \A x \in S : x <= m
<1> DEFINE rests == {n \in Nat : \E x \in S : n = N - x}
<1>1. rests \in SUBSET Nat /\ \A x \in S : N - x \in rests
  OBVIOUS
<1>2. PICK r \in rests : \A y \in rests : r <= y
  <2> HIDE DEF rests
  <2> QED BY <1>1, Least
<1>3. PICK m \in S : r = N - m
  OBVIOUS
<1>4. ASSUME NEW x \in S PROVE x <= m
  <2>1. N - m <= N - x
    BY <1>1, <1>2, <1>3
  <2> QED BY <2>1
<1> QED BY <1>4

-----------------------------------------------------------------------------
(* What the calls look like, and where the call the coroutine is at stands. *)

Stages == Workers \cup Reviews \cup Mediations \cup Syntheses

\* the key of a call: of a task, or of the cycle's synthesis
IsKey(k) ==
  /\ k = <<k[1], k[2], k[3]>> /\ k[1] \in Stages /\ k[2] \in 0 .. NTasks
  /\ (k[1] \in Syntheses <=> k[2] = 0)

\* the statuses a call of this cycle takes
Statuses == {"prepared", "completed", "applied", "waiting", "failed"}

IsRow(k, r) ==
  /\ r = [st |-> r.st, about |-> r.about, answer |-> r.answer, no |-> r.no]
  /\ r.st \in Statuses /\ r.no \in Nat
  /\ IF r.st \in {"completed", "applied"} THEN r.answer \in Parsed(k[1], r.about)
     ELSE r.answer = "none"

OpsShape ==
  /\ ops = [k \in DOMAIN ops |-> ops[k]] /\ IsFiniteSet(DOMAIN ops)
  /\ \A k \in DOMAIN ops : IsKey(k) /\ IsRow(k, ops[k])

\* A cycle has at most one call that is not done.
OneOpen == \A k, l \in OpenKeys : k = l

InCall == {"invoke", "call", "apply", "invalid", "consume", "raise", "error"}
Free == {"invoke", "invalid", "consume", "raise"}
Late == {"settle", "publish", "synthesize"}
Rest == {"idle", "down"}

CallShape ==
  /\ pc \in InCall \cup Late \cup Rest \cup {"loop"}
  /\ call = [key |-> call.key, about |-> call.about, guarded |-> call.guarded,
             fresh |-> call.fresh]
  /\ call.guarded \in BOOLEAN /\ (pc \notin InCall => call = NoCall)
  /\ pc \in InCall => IsKey(call.key) \/ (pc = "error" /\ call = NoCall)

\* Between two commits the row of the call is where the code thinks it is, and no other
\* call is open.
CallFits ==
  /\ pc = "call" => Is(call.key, "prepared") /\ ops[call.key].about = call.about
  /\ pc = "apply" => Is(call.key, "completed") \/ (Is(call.key, "applied") /\ OpenKeys = {})
  /\ pc = "invalid" => Is(call.key, "failed")
  /\ pc \in Free => OpenKeys = {}
  /\ pc \in Late => \A k \in OpenKeys : k[2] = 0
  /\ \A k \in OpenKeys : ops[k].st = "waiting" => pc \in Rest /\ run # "interrupted"

TasksShape ==
  /\ tasks \in [Tasks -> TaskStatus] /\ attempts \in [Tasks -> Nat]
  /\ stored = [t \in Tasks |-> stored[t]] /\ rounds \in Nat /\ reinv \in Nat

CallInv == OpsShape /\ OneOpen /\ CallShape /\ CallFits /\ TasksShape

-----------------------------------------------------------------------------
(* What a step can do to the ledger.                                       *)

\* The row of k takes status `to` and keeps the rest.
Moved(k, to) ==
  /\ k \in DOMAIN ops /\ DOMAIN ops' = DOMAIN ops
  /\ ops'[k] = [st |-> to, about |-> ops[k].about, answer |-> ops[k].answer, no |-> ops[k].no]
  /\ \A l \in DOMAIN ops \ {k} : ops'[l] = ops[l]

\* The answer of k is stored.
Stored(k, a) ==
  /\ k \in DOMAIN ops /\ DOMAIN ops' = DOMAIN ops
  /\ ops'[k] = [st |-> "completed", about |-> ops[k].about, answer |-> a, no |-> ops[k].no]
  /\ \A l \in DOMAIN ops \ {k} : ops'[l] = ops[l]

Reserved(k) ==
  /\ k \notin DOMAIN ops /\ DOMAIN ops' = DOMAIN ops \cup {k}
  /\ ops'[k] = [st |-> "prepared", about |-> call.about, answer |-> "none",
                no |-> Cardinality(DOMAIN ops) + 1]
  /\ \A l \in DOMAIN ops : ops'[l] = ops[l]

Transitions ==
  {<<"prepared", "failed">>, <<"prepared", "waiting">>, <<"waiting", "prepared">>,
   <<"completed", "applied">>}

LEMMA MoveEffect ==
  ASSUME OpsShape, NEW k \in DOMAIN ops, NEW to, ops' = With(k, to)
  PROVE  Moved(k, to) /\ ops' = [l \in DOMAIN ops' |-> ops'[l]]
<1>1. /\ DOMAIN ops' = DOMAIN ops /\ ops' = [l \in DOMAIN ops' |-> ops'[l]]
      /\ ops'[k] = [ops[k] EXCEPT !.st = to]
      /\ \A l \in DOMAIN ops \ {k} : ops'[l] = ops[l]
  BY DEF OpsShape, With
<1>2. ops[k] = [st |-> ops[k].st, about |-> ops[k].about, answer |-> ops[k].answer,
                no |-> ops[k].no]
  BY DEF OpsShape, IsRow
<1>3. ops'[k] = [st |-> to, about |-> ops[k].about, answer |-> ops[k].answer, no |-> ops[k].no]
  BY <1>1, <1>2
<1> QED BY <1>1, <1>3 DEF Moved

\* An answer that was applied is not applied again.
LEMMA ReplayEffect ==
  ASSUME OpsShape, NEW k \in DOMAIN ops, ops[k].st = "applied", ops' = With(k, "applied")
  PROVE  ops' = ops
<1>1. Moved(k, "applied") /\ ops' = [l \in DOMAIN ops' |-> ops'[l]]
  BY MoveEffect
<1>2. ops[k] = [st |-> "applied", about |-> ops[k].about, answer |-> ops[k].answer,
                no |-> ops[k].no]
  BY DEF OpsShape, IsRow
<1>3. ops'[k] = ops[k]
  BY <1>1, <1>2 DEF Moved
<1>4. DOMAIN ops' = DOMAIN ops /\ \A l \in DOMAIN ops : ops'[l] = ops[l]
  BY <1>1, <1>3 DEF Moved
<1> QED BY <1>1, <1>4 DEF OpsShape


LEMMA InvokeEffect ==
  ASSUME CallInv, Invoke
  PROVE  /\ OpenKeys = {} /\ IsKey(call.key) /\ UNCHANGED call
         /\ \/ UNCHANGED ops /\ pc' = "apply" /\ Is(call.key, "applied")
               /\ ops[call.key].about = call.about
            \/ UNCHANGED ops /\ pc' = "error"
            \/ Reserved(call.key) /\ pc' = "call" /\ ops' = [l \in DOMAIN ops' |-> ops'[l]]
<1> DEFINE k == call.key
<1>1. OpenKeys = {} /\ IsKey(k) /\ UNCHANGED call
  BY DEF CallInv, CallFits, CallShape, InCall, Free, Invoke
<1>2. CASE k \in DOMAIN ops
  <2>1. ops[k].st \notin OpenOp
    BY <1>1, <1>2 DEF OpenKeys
  <2>2. UNCHANGED ops
    BY <1>2 DEF Invoke
  <2>3. pc' = "error" \/ (pc' = "apply" /\ ops[k].st = "applied" /\ ops[k].about = call.about)
    BY <1>2, <2>1 DEF Invoke, OpenOp
  <2> QED BY <1>1, <1>2, <2>2, <2>3 DEF Is
<1>3. CASE k \notin DOMAIN ops
  <2>1. /\ pc' = "call"
        /\ ops' = Inserted(ops, k, [st |-> "prepared", about |-> call.about, answer |-> "none",
                                    no |-> Cardinality(DOMAIN ops) + 1])
    BY <1>1, <1>3 DEF Invoke
  <2>2. Reserved(k) /\ ops' = [l \in DOMAIN ops' |-> ops'[l]]
    BY <1>3, <2>1 DEF Inserted, Reserved
  <2> QED BY <1>1, <2>1, <2>2
<1> QED BY <1>2, <1>3

LEMMA CompleteEffect ==
  ASSUME CallInv, NEW a, a \in Answers(call.key, call.about), Complete(a)
  PROVE  /\ Is(call.key, "prepared") /\ Stored(call.key, a) /\ IsKey(call.key)
         /\ a \in Parsed(call.key[1], ops[call.key].about)
         /\ ops' = [l \in DOMAIN ops' |-> ops'[l]] /\ UNCHANGED call
<1> DEFINE k == call.key
<1>1. Is(k, "prepared") /\ ops[k].about = call.about /\ IsKey(k)
  BY DEF CallInv, CallFits, CallShape, InCall, Complete
<1>2. a \in Parsed(k[1], ops[k].about)
  BY <1>1 DEF Answers
<1>3. k \in DOMAIN ops /\ ops' = [ops EXCEPT ![k].st = "completed", ![k].answer = a]
  BY <1>1 DEF Is, Complete
<1>4. /\ DOMAIN ops' = DOMAIN ops /\ ops' = [l \in DOMAIN ops' |-> ops'[l]]
      /\ ops'[k] = [ops[k] EXCEPT !.st = "completed", !.answer = a]
      /\ \A l \in DOMAIN ops \ {k} : ops'[l] = ops[l]
  BY <1>3 DEF CallInv, OpsShape
<1>5. ops[k] = [st |-> ops[k].st, about |-> ops[k].about, answer |-> ops[k].answer,
                no |-> ops[k].no]
  BY <1>3 DEF CallInv, OpsShape, IsRow
<1>6. ops'[k] = [st |-> "completed", about |-> ops[k].about, answer |-> a, no |-> ops[k].no]
  BY <1>4, <1>5
<1> QED BY <1>1, <1>2, <1>3, <1>4, <1>6 DEF Stored, Complete

LEMMA DropEffect ==
  ASSUME CallInv, MarkFailed \/ RefuseFutileRetry
  PROVE  /\ Is(call.key, "prepared") /\ Moved(call.key, "failed") /\ IsKey(call.key)
         /\ ops' = [l \in DOMAIN ops' |-> ops'[l]] /\ UNCHANGED call
<1>1. Is(call.key, "prepared") /\ IsKey(call.key) /\ ops' = With(call.key, "failed") /\ UNCHANGED call
  BY DEF CallInv, CallFits, CallShape, InCall, MarkFailed, RefuseFutileRetry
<1> QED BY <1>1, MoveEffect DEF CallInv, Is

LEMMA AppliesEffect ==
  ASSUME CallInv, NEW stages, NEW answers, Applies(stages, answers)
  PROVE  /\ IsKey(call.key) /\ call.key[1] \in stages /\ ops[call.key].answer \in answers
         /\ pc = "apply" /\ Fits /\ call.key \in DOMAIN ops
         /\ \/ Is(call.key, "completed") /\ Moved(call.key, "applied") /\ ~Replayed
               /\ ops' = [l \in DOMAIN ops' |-> ops'[l]]
            \/ Is(call.key, "applied") /\ UNCHANGED ops /\ Replayed /\ OpenKeys = {}
<1>1. /\ IsKey(call.key) /\ call.key[1] \in stages /\ ops[call.key].answer \in answers
      /\ pc = "apply" /\ Fits /\ ops' = With(call.key, "applied")
      /\ Is(call.key, "completed") \/ (Is(call.key, "applied") /\ OpenKeys = {})
  BY DEF CallInv, CallFits, CallShape, InCall, Applies
<1>2. CASE Is(call.key, "completed")
  BY <1>1, <1>2, MoveEffect DEF CallInv, Is, Replayed
<1>3. CASE Is(call.key, "applied") /\ OpenKeys = {}
  BY <1>1, <1>3, ReplayEffect DEF CallInv, Is, Replayed
<1> QED BY <1>1, <1>2, <1>3 DEF Is

LEMMA ParkEffect ==
  ASSUME CallInv, Park
  PROVE  /\ Is(call.key, "prepared") /\ Moved(call.key, "waiting") /\ IsKey(call.key)
         /\ ops' = [l \in DOMAIN ops' |-> ops'[l]]
<1>1. Is(call.key, "prepared") /\ IsKey(call.key) /\ ops' = With(call.key, "waiting")
  BY DEF CallInv, CallFits, CallShape, InCall, Park
<1> QED BY <1>1, MoveEffect DEF CallInv, Is

LEMMA ReclaimEffect ==
  ASSUME CallInv, Reclaim
  PROVE  \E k \in OpenKeys :
           /\ Is(k, "waiting") /\ Moved(k, "prepared") /\ ops' = [l \in DOMAIN ops' |-> ops'[l]]
           /\ tasks' = [t \in Tasks |-> IF t = k[2] THEN "in_progress" ELSE tasks[t]]
<1>1. PICK k \in OpenKeys :
        /\ ops[k].st = "waiting" /\ ops' = With(k, "prepared")
        /\ tasks' = [t \in Tasks |-> IF t = k[2] THEN "in_progress" ELSE tasks[t]]
  BY DEF Reclaim
<1>2. k \in DOMAIN ops
  BY DEF OpenKeys
<1> QED BY <1>1, <1>2, MoveEffect DEF CallInv, Is

\* Start-up: the call is taken up as it is, parked, or none is due.
ParkedAtStart(k) ==
  /\ Is(k, "prepared") /\ Moved(k, "waiting") /\ ops' = [l \in DOMAIN ops' |-> ops'[l]]
  /\ pc' = "idle" /\ PublishAtStart("waiting_for_provider")
  /\ tasks' = [t \in Tasks |-> IF t = k[2] THEN "waiting_for_provider" ELSE tasks[t]]
TakenUpAtStart ==
  /\ pc' = "loop" /\ run' = "running" /\ UNCHANGED <<ops, tasks, request>>
  /\ \E k \in OpenKeys : ops[k].st \in {"prepared", "completed"}
NotDueAtStart ==
  /\ pc' = "idle" /\ UNCHANGED ops
  /\ \A k \in OpenKeys : ops[k].st = "waiting"
  /\ IF OpenKeys = {} /\ run \in {"running", "summarizing"}
     THEN tasks' = Interrupted /\ PublishAtStart("interrupted")
     ELSE UNCHANGED tasks /\ PublishAtStart(run)

LEMMA RestartEffect ==
  ASSUME CallInv, Restart
  PROVE  /\ pc = "down" /\ UNCHANGED <<call, contract, counters, items, resolved, mishaps>>
         /\ (\E k \in OpenKeys : ParkedAtStart(k)) \/ TakenUpAtStart \/ NotDueAtStart
<1> DEFINE first == CHOOSE k \in OpenKeys : TRUE
           due == OpenKeys # {} /\ ops[first].st \in {"prepared", "completed"}
<1>1. /\ pc = "down" /\ UNCHANGED <<call, contract, counters, items, resolved, mishaps>>
      /\ \/ due /\ pc' = "loop" /\ run' = "running" /\ UNCHANGED <<ops, tasks, request>>
         \/ /\ due /\ ops[first].st = "prepared" /\ pc' = "idle" /\ ops' = With(first, "waiting")
            /\ tasks' = [t \in Tasks |-> IF t = first[2] THEN "waiting_for_provider" ELSE tasks[t]]
            /\ PublishAtStart("waiting_for_provider")
         \/ /\ ~due /\ pc' = "idle" /\ UNCHANGED ops
            /\ IF OpenKeys = {} /\ run \in {"running", "summarizing"}
               THEN tasks' = Interrupted /\ PublishAtStart("interrupted")
               ELSE UNCHANGED tasks /\ PublishAtStart(run)
  BY DEF Restart
<1>2. OpenKeys # {} => first \in OpenKeys
  OBVIOUS
<1>3. ASSUME ~due PROVE \A k \in OpenKeys : ops[k].st = "waiting"
  <2> SUFFICES ASSUME NEW k \in OpenKeys PROVE ops[k].st = "waiting"
    OBVIOUS
  <2>1. k = first /\ ops[first].st \notin {"prepared", "completed"}
    BY <1>2, <1>3 DEF CallInv, OneOpen
  <2>2. k \in DOMAIN ops /\ ops[k].st \in OpenOp
    BY DEF OpenKeys
  <2>3. ops[k].st \in Statuses
    BY <2>2 DEF CallInv, OpsShape, IsRow
  <2> QED BY <2>1, <2>2, <2>3 DEF OpenOp, Statuses
<1>4. CASE due /\ ops[first].st = "prepared" /\ pc' = "idle" /\ ops' = With(first, "waiting")
           /\ tasks' = [t \in Tasks |-> IF t = first[2] THEN "waiting_for_provider" ELSE tasks[t]]
           /\ PublishAtStart("waiting_for_provider")
  <2>1. first \in OpenKeys /\ first \in DOMAIN ops
    BY <1>4 DEF OpenKeys
  <2> HIDE DEF first
  <2>2. Moved(first, "waiting") /\ ops' = [l \in DOMAIN ops' |-> ops'[l]]
    BY <1>4, <2>1, MoveEffect DEF CallInv
  <2>3. ParkedAtStart(first)
    BY <1>4, <2>1, <2>2 DEF ParkedAtStart, Is
  <2> QED BY <1>1, <2>1, <2>3
<1>5. CASE due /\ pc' = "loop" /\ run' = "running" /\ UNCHANGED <<ops, tasks, request>>
  BY <1>1, <1>2, <1>5 DEF TakenUpAtStart
<1>6. CASE /\ ~due /\ pc' = "idle" /\ UNCHANGED ops
           /\ IF OpenKeys = {} /\ run \in {"running", "summarizing"}
              THEN tasks' = Interrupted /\ PublishAtStart("interrupted")
              ELSE UNCHANGED tasks /\ PublishAtStart(run)
  <2> HIDE DEF due, first
  <2>1. NotDueAtStart
    BY <1>3, <1>6 DEF NotDueAtStart
  <2> QED BY <1>1, <2>1
<1> HIDE DEF due, first
<1> QED BY <1>1, <1>4, <1>5, <1>6
\* The ledger is a function after the step too.
Tabular == ops' = [l \in DOMAIN ops' |-> ops'[l]]

OpsStep ==
  \/ UNCHANGED ops
  \/ OpenKeys = {} /\ IsKey(call.key) /\ Reserved(call.key) /\ Tabular
  \/ \E k \in DOMAIN ops, to \in Statuses :
       <<ops[k].st, to>> \in Transitions /\ Moved(k, to) /\ Tabular
  \/ \E a \in Parsed(call.key[1], ops[call.key].about) :
       Is(call.key, "prepared") /\ Stored(call.key, a) /\ Tabular

\* a step that applies the effect of a call
AppliesStep ==
  \/ ApplyQuery \/ ApplyOutcome \/ ApplyMediation \/ ApplyConsult \/ MediationAsksUser
  \/ ApplyReview \/ ReviewAsksUser \/ ReviewGivesUp \/ ApplySynthesis \/ ApplySynthesisDecision

\* a step of the coroutine that leaves the ledger alone
QuietStep ==
  \/ Repair \/ RepairSynthesis \/ Error \/ Consume \/ Raise \/ Publish \/ RefuseEffect
  \/ RecoverOpen \/ Chain \/ StartTask \/ LeaveLoop \/ SettleQuestions \/ SkipDependents
  \/ Settle \/ Synthesize

LEMMA StepKinds ==
  [Next]_vars <=>
    \/ Invoke \/ MarkFailed \/ RefuseFutileRetry \/ QuietStep \/ AppliesStep
    \/ (\E a \in Answers(call.key, call.about) : Complete(a))
    \/ Restart \/ Park \/ Crash \/ Reclaim \/ UserResumes \/ UserAnswers \/ UNCHANGED vars
BY DEF Next, Step, World, QuietStep, AppliesStep

LEMMA QuietOps == QuietStep \/ Crash \/ UserResumes \/ UserAnswers => UNCHANGED ops
BY DEF QuietStep, Repair, RepairSynthesis, Error, Consume, Raise, Publish, RefuseEffect,
       RecoverOpen, Chain, StartTask, LeaveLoop, SettleQuestions, SkipDependents, Settle,
       Synthesize, Crash, UserResumes, UserAnswers

LEMMA AppliesStepEffect ==
  ASSUME CallInv, AppliesStep
  PROVE  \E stages \in {Workers, {"mediation_lead"}, {"consult_peer"}, Reviews, Syntheses},
            answers \in {Queries, Outcomes, {"answer"}, Asks, Again, {"fail"}, {"summary"},
                         {"ask_run"}} :
           Applies(stages, answers)
BY DEF AppliesStep, ApplyQuery, ApplyOutcome, ApplyMediation, ApplyConsult, MediationAsksUser,
       ApplyReview, ReviewAsksUser, ReviewGivesUp, ApplySynthesis, ApplySynthesisDecision

LEMMA OpsSteps == CallInv /\ [Next]_vars => OpsStep
<1> SUFFICES ASSUME CallInv, [Next]_vars PROVE OpsStep
  OBVIOUS
<1>t. /\ {"failed", "waiting", "prepared", "applied"} \subseteq Statuses
      /\ <<"prepared", "failed">> \in Transitions /\ <<"prepared", "waiting">> \in Transitions
      /\ <<"waiting", "prepared">> \in Transitions /\ <<"completed", "applied">> \in Transitions
  BY DEF Statuses, Transitions
<1>1. CASE Invoke
  BY <1>1, InvokeEffect DEF OpsStep, Tabular
<1>2. CASE MarkFailed \/ RefuseFutileRetry
  BY <1>2, <1>t, DropEffect DEF OpsStep, Tabular, Is
<1>3. CASE QuietStep \/ Crash \/ UserResumes \/ UserAnswers
  BY <1>3, QuietOps DEF OpsStep
<1>4. CASE AppliesStep
  <2>1. PICK stages, answers : Applies(stages, answers)
    BY <1>4, AppliesStepEffect
  <2>2. \/ Is(call.key, "completed") /\ Moved(call.key, "applied") /\ Tabular
        \/ UNCHANGED ops
    BY <2>1, AppliesEffect DEF Tabular
  <2> QED BY <2>2, <1>t DEF OpsStep, Is
<1>5. ASSUME NEW a \in Answers(call.key, call.about), Complete(a) PROVE OpsStep
  BY <1>5, CompleteEffect DEF OpsStep, Tabular
<1>6. CASE Restart
  <2>1. CASE \E k \in OpenKeys : ParkedAtStart(k)
    BY <2>1, <1>t DEF ParkedAtStart, OpsStep, Tabular, Is
  <2>2. CASE TakenUpAtStart \/ NotDueAtStart
    BY <2>2 DEF TakenUpAtStart, NotDueAtStart, OpsStep
  <2> QED BY <1>6, <2>1, <2>2, RestartEffect
<1>7. CASE Park
  BY <1>7, <1>t, ParkEffect DEF OpsStep, Tabular, Is
<1>8. CASE Reclaim
  BY <1>8, <1>t, ReclaimEffect DEF OpsStep, Tabular, Is
<1>9. CASE UNCHANGED vars
  BY <1>9 DEF OpsStep, vars
<1> QED BY <1>1, <1>2, <1>3, <1>4, <1>5, <1>6, <1>7, <1>8, <1>9, StepKinds

\* The open calls after a step: at most those before, or the one that was reserved.
LEMMA OpsStepEffect ==
  ASSUME OpsShape, OneOpen, OpsStep
  PROVE  /\ OpsShape' /\ OneOpen' /\ DOMAIN ops \subseteq DOMAIN ops'
         /\ \/ OpenKeys' \subseteq OpenKeys
            \/ OpenKeys = {} /\ OpenKeys' = {call.key} /\ Reserved(call.key)
<1>c. Cardinality(DOMAIN ops) \in Nat
  BY FS_CardinalityType DEF OpsShape
<1>1. CASE UNCHANGED ops
  BY <1>1 DEF OpsShape, OneOpen, OpenKeys
<1>2. CASE OpenKeys = {} /\ IsKey(call.key) /\ Reserved(call.key) /\ Tabular
  <2>1. IsFiniteSet(DOMAIN ops')
    BY <1>2, FS_AddElement DEF OpsShape, Reserved
  <2>2. IsRow(call.key, ops'[call.key])
    BY <1>2, <1>c DEF Reserved, IsRow, Statuses
  <2>3. OpsShape'
    BY <1>2, <2>1, <2>2 DEF OpsShape, Reserved, Tabular, IsKey
  <2>4. OpenKeys' = {call.key}
    BY <1>2 DEF OpenKeys, Reserved, OpenOp
  <2> QED BY <1>2, <2>3, <2>4 DEF OneOpen, Reserved
<1>3. ASSUME NEW k \in DOMAIN ops, NEW to \in Statuses, <<ops[k].st, to>> \in Transitions,
             Moved(k, to), Tabular
      PROVE  OpsShape' /\ OneOpen' /\ OpenKeys' \subseteq OpenKeys /\ DOMAIN ops \subseteq DOMAIN ops'
  <2>0. IsRow(k, ops[k]) /\ ops[k].no \in Nat
    BY DEF OpsShape, IsRow
  <2>1. IsRow(k, ops'[k])
    BY <1>3, <2>0 DEF Moved, IsRow, Transitions
  <2>2. OpsShape'
    BY <1>3, <2>1 DEF OpsShape, Moved, Tabular, IsKey
  <2>3. OpenKeys' \subseteq OpenKeys
    BY <1>3 DEF OpenKeys, Moved, Transitions, OpenOp
  <2> QED BY <1>3, <2>2, <2>3 DEF OneOpen, Moved
<1>4. ASSUME NEW a \in Parsed(call.key[1], ops[call.key].about), Is(call.key, "prepared"),
             Stored(call.key, a), Tabular
      PROVE  OpsShape' /\ OneOpen' /\ OpenKeys' \subseteq OpenKeys /\ DOMAIN ops \subseteq DOMAIN ops'
  <2>0. call.key \in DOMAIN ops /\ IsRow(call.key, ops[call.key]) /\ ops[call.key].no \in Nat
    BY <1>4 DEF OpsShape, IsRow, Is
  <2>1. IsRow(call.key, ops'[call.key])
    BY <1>4, <2>0 DEF Stored, IsRow, Statuses
  <2>2. OpsShape'
    BY <1>4, <2>1 DEF OpsShape, Stored, Tabular, IsKey
  <2>3. OpenKeys' \subseteq OpenKeys
    BY <1>4 DEF OpenKeys, Stored, Is, OpenOp
  <2> QED BY <1>4, <2>2, <2>3 DEF OneOpen, Stored
<1> QED BY <1>1, <1>2, <1>3, <1>4 DEF OpsStep
-----------------------------------------------------------------------------
(* Where the coroutine stands after a step.                                *)

LEMMA StageKinds ==
  /\ Workers \cap (Reviews \cup Mediations \cup Syntheses) = {}
  /\ Reviews \cap (Mediations \cup Syntheses) = {} /\ Mediations \cap Syntheses = {}
  /\ Outcomes \cap Queries = {} /\ "none" \notin Stages /\ "system" \notin Stages
BY DEF Workers, Reviews, Mediations, Syntheses, Outcomes, Queries, Stages

\* What an effect that can be applied expects of the tables.
LEMMA FitsEffect ==
  ASSUME IsKey(call.key), Fits
  PROVE  LET stage == call.key[1]  t == call.key[2]  n == call.key[3] IN
         /\ stage \notin Syntheses => t \in Tasks
         /\ stage \in Workers /\ ops[call.key].answer \in Queries => Working(t)
         /\ stage \in Workers /\ ops[call.key].answer \notin Queries => OutcomeFits(t)
         /\ stage \in Mediations => RoundFits(t, n)
         /\ stage \in Reviews => ReviewFits(t, n)
         /\ stage \in Syntheses => SynthesisFits
<1> DEFINE stage == call.key[1]  t == call.key[2]
<1>1. stage \notin Syntheses => t \in Tasks
  BY ExecutionConstants DEF IsKey, Tasks
<1>2. CASE stage \in Workers
  BY <1>1, <1>2, StageKinds DEF Fits
<1>3. CASE stage \in Mediations
  BY <1>1, <1>3, StageKinds DEF Fits
<1>4. CASE stage \in Reviews
  BY <1>1, <1>4, StageKinds DEF Fits
<1>5. CASE stage \in Syntheses
  BY <1>1, <1>5, StageKinds DEF Fits
<1> QED BY <1>2, <1>3, <1>4, <1>5 DEF IsKey, Stages

\* An effect ends the only open call.
LEMMA AppliesCloses ==
  ASSUME CallInv, NEW stages, NEW answers, Applies(stages, answers)
  PROVE  OpenKeys' = {}
<1>1. CASE UNCHANGED ops /\ OpenKeys = {}
  BY <1>1 DEF OpenKeys
<1>2. CASE Is(call.key, "completed") /\ Moved(call.key, "applied")
  <2>1. call.key \in OpenKeys
    BY <1>2 DEF Is, OpenKeys, OpenOp
  <2>2. \A l \in OpenKeys : l = call.key
    BY <2>1 DEF CallInv, OneOpen
  <2> QED BY <1>2, <2>2 DEF OpenKeys, Moved, OpenOp
<1> QED BY <1>1, <1>2, AppliesEffect

NoneWaits == \A k \in OpenKeys : ops[k].st # "waiting"

\* The call that an effect goes on with, or none: then the coroutine is elsewhere.
GoesOn ==
  \/ /\ pc' = "invoke" /\ IsKey(call'.key) /\ call'.guarded = call.guarded
     /\ call'.key[2] = call.key[2] /\ call.key[2] \in Tasks
     /\ call' = [key |-> call'.key, about |-> call'.about, guarded |-> call'.guarded,
                 fresh |-> call'.fresh]
  \/ pc' \in {"loop", "settle", "publish", "idle"} /\ call' = NoCall

LEMMA MadeKey ==
  \A stage \in Stages \ Syntheses, t \in Tasks : \A n : IsKey(Key(stage, t, n)) /\ Key(stage, t, n)[2] = t
BY ExecutionConstants DEF IsKey, Key, Tasks

LEMMA InvokingEffect ==
  ASSUME CallInv, NEW stage \in Stages \ Syntheses, NEW n, NEW about,
         call.key[2] \in Tasks, Invoking(Key(stage, call.key[2], n), about, call.guarded)
  PROVE  GoesOn
BY MadeKey DEF Invoking, GoesOn

LEMMA AppliesGoesOn == CallInv /\ AppliesStep => GoesOn
<1> SUFFICES ASSUME CallInv, AppliesStep PROVE GoesOn
  OBVIOUS
<1> DEFINE t == call.key[2]
<1>s. /\ {"mediation_worker", "acceptance_worker", "acceptance_lead", "consult_peer",
          "mediation_lead"} \subseteq Stages \ Syntheses
      /\ {"mediation_lead"} \cap Syntheses = {} /\ {"consult_peer"} \cap Syntheses = {}
  BY DEF Stages, Workers, Reviews, Mediations, Syntheses
<1>1. ASSUME NEW stages, NEW answers, Applies(stages, answers), stages \cap Syntheses = {}
      PROVE  t \in Tasks
  BY <1>1, AppliesEffect, FitsEffect
<1>2. CASE ApplyQuery
  <2>1. t \in Tasks /\ Mediate(t, ops[call.key].answer, Reinvoked)
    BY <1>1, <1>2, StageKinds DEF ApplyQuery
  <2>2. PICK stage, n, about :
          stage \in Stages \ Syntheses /\ Invoking(Key(stage, t, n), about, call.guarded)
    BY <1>s, <2>1 DEF Mediate, Respondent
  <2> QED BY <2>1, <2>2, InvokingEffect
<1>3. CASE ApplyOutcome
  <2>1. t \in Tasks
    BY <1>1, <1>3, StageKinds DEF ApplyOutcome
  <2>2. CASE Review(t, call.guarded)
    BY <1>s, <2>1, <2>2, InvokingEffect DEF Review
  <2>3. CASE Goto("loop")
    BY <2>3 DEF Goto, GoesOn
  <2> QED BY <1>3, <2>2, <2>3 DEF ApplyOutcome
<1>4. CASE ApplyMediation \/ ApplyConsult
  <2>1. t \in Tasks /\ Tell
    BY <1>1, <1>4, <1>s DEF ApplyMediation, ApplyConsult
  <2> QED BY <1>s, <2>1, InvokingEffect DEF Tell
<1>5. CASE ApplyReview
  <2>1. t \in Tasks /\ HaveItDone(t, call.key[3])
    BY <1>1, <1>5, StageKinds DEF ApplyReview
  <2> QED BY <1>s, <2>1, InvokingEffect DEF HaveItDone
<1>6. CASE MediationAsksUser \/ ReviewAsksUser \/ ReviewGivesUp \/ ApplySynthesis
           \/ ApplySynthesisDecision
  BY <1>6 DEF MediationAsksUser, ReviewAsksUser, ReviewGivesUp, ApplySynthesis,
              ApplySynthesisDecision, AsksUser, Goto, GoesOn
<1> QED BY <1>2, <1>3, <1>4, <1>5, <1>6 DEF AppliesStep
LEMMA TakeUpEffect ==
  ASSUME OpsShape, NEW k \in OpenKeys, NEW works \in BOOLEAN, ops[k].st # "waiting", TakeUp(k, works)
  PROVE  /\ call' = [key |-> k, about |-> ops[k].about, guarded |-> FALSE, fresh |-> FALSE]
         /\ k \in DOMAIN ops /\ IsKey(k)
         /\ \/ pc' = "error" /\ ~works
            \/ pc' = "call" /\ ops[k].st = "prepared" /\ works
            \/ pc' = "apply" /\ ops[k].st = "completed" /\ works
<1>1. k \in DOMAIN ops /\ ops[k].st \in OpenOp /\ IsKey(k) /\ ops[k].st \in Statuses
  BY DEF OpsShape, OpenKeys, IsRow
<1>2. ops[k].st \in {"prepared", "completed"}
  BY <1>1 DEF OpenOp, Statuses
<1> QED BY <1>1, <1>2 DEF TakeUp

\* A restart does not take up a parked call.
LEMMA RestartFits ==
  ASSUME CallInv, Restart
  PROVE  /\ call' = NoCall
         /\ \A k \in OpenKeys' : ops'[k].st = "waiting" => pc' \in Rest /\ run' # "interrupted"
<1>0. call' = NoCall /\ pc = "down"
  BY RestartEffect DEF CallInv, CallShape, InCall
<1>1. CASE \E k \in OpenKeys : ParkedAtStart(k)
  BY <1>0, <1>1 DEF ParkedAtStart, PublishAtStart, Rest
<1>2. CASE TakenUpAtStart
  <2>1. PICK k \in OpenKeys : ops[k].st \in {"prepared", "completed"}
    BY <1>2 DEF TakenUpAtStart
  <2>2. UNCHANGED ops /\ OpenKeys' = OpenKeys
    BY <1>2 DEF TakenUpAtStart, OpenKeys
  <2>3. \A l \in OpenKeys' : ops'[l].st # "waiting"
    BY <2>1, <2>2 DEF CallInv, OneOpen
  <2> QED BY <1>0, <2>3
<1>3. CASE NotDueAtStart
  <2>1. UNCHANGED ops /\ OpenKeys' = OpenKeys /\ pc' = "idle"
    BY <1>3 DEF NotDueAtStart, OpenKeys
  <2>2. OpenKeys = {} \/ PublishAtStart(run)
    BY <1>3 DEF NotDueAtStart
  <2>3. OpenKeys # {} => run # "interrupted"
    BY <1>3 DEF NotDueAtStart, CallInv, CallFits
  <2> QED BY <1>0, <2>1, <2>2, <2>3 DEF PublishAtStart, Rest
<1> QED BY <1>1, <1>2, <1>3, RestartEffect

LEMMA CallStep == CallInv /\ [Next]_vars => CallShape' /\ CallFits'
<1> SUFFICES ASSUME CallInv, [Next]_vars PROVE CallShape' /\ CallFits'
  OBVIOUS
<1>o. OpsShape' /\ OneOpen' /\ OpsStep
  BY OpsSteps, OpsStepEffect DEF CallInv
<1>w. pc \notin Rest => NoneWaits
  BY DEF CallInv, CallFits, NoneWaits
<1>n. NoCall = [key |-> NoCall.key, about |-> NoCall.about, guarded |-> NoCall.guarded,
                fresh |-> NoCall.fresh] /\ NoCall.guarded \in BOOLEAN
  BY DEF NoCall
<1>k. pc \in InCall \ {"error"} => IsKey(call.key)
  BY DEF CallInv, CallShape
<1>a. ASSUME pc' \in Rest \cup {"loop"}, call' = NoCall,
             \A k \in OpenKeys' : ops'[k].st = "waiting" => pc' \in Rest /\ run' # "interrupted"
      PROVE  CallShape' /\ CallFits'
  BY <1>a, <1>n DEF CallShape, CallFits, InCall, Late, Rest, Free
<1>b. ASSUME pc' = "invoke", IsKey(call'.key), call'.guarded \in BOOLEAN, OpenKeys' = {},
             call' = [key |-> call'.key, about |-> call'.about, guarded |-> call'.guarded,
                      fresh |-> call'.fresh]
      PROVE  CallShape' /\ CallFits'
  BY <1>b DEF CallShape, CallFits, InCall, Late, Rest, Free
<1>c. ASSUME pc' = "error", UNCHANGED <<ops, call>>, IsKey(call.key) \/ call = NoCall, NoneWaits
      PROVE  CallShape' /\ CallFits'
  <2>1. OpenKeys' = OpenKeys
    BY <1>c DEF OpenKeys
  <2> QED BY <1>c, <2>1 DEF CallInv, CallShape, CallFits, InCall, Late, Rest, Free, NoneWaits
<1>d. ASSUME UNCHANGED ops, pc' \in Late, call' = NoCall, NoneWaits, \A k \in OpenKeys : k[2] = 0
      PROVE  CallShape' /\ CallFits'
  <2>1. OpenKeys' = OpenKeys
    BY <1>d DEF OpenKeys
  <2> QED BY <1>d, <1>n, <2>1 DEF CallShape, CallFits, InCall, Late, Rest, Free, NoneWaits
<1>e. ASSUME UNCHANGED ops, NEW k \in OpenKeys, TakeUp(k, TRUE) \/ TakeUp(k, Recoverable(k)), NoneWaits
      PROVE  CallShape' /\ CallFits'
  <2>1. /\ call' = [key |-> k, about |-> ops[k].about, guarded |-> FALSE, fresh |-> FALSE]
        /\ k \in DOMAIN ops /\ IsKey(k)
        /\ \/ pc' = "error"
           \/ pc' = "call" /\ ops[k].st = "prepared"
           \/ pc' = "apply" /\ ops[k].st = "completed"
    <3>1. ASSUME NEW works, TakeUp(k, works) PROVE TakeUp(k, TRUE) \/ TakeUp(k, FALSE)
      BY <3>1 DEF TakeUp
    <3>2. TakeUp(k, TRUE) \/ TakeUp(k, FALSE)
      BY <1>e, <3>1
    <3> QED BY <1>e, <3>2, TakeUpEffect DEF CallInv, NoneWaits
  <2>2. OpenKeys' = OpenKeys
    BY <1>e DEF OpenKeys
  <2> QED BY <1>e, <2>1, <2>2 DEF CallShape, CallFits, InCall, Late, Rest, Free, NoneWaits, Is
<1>1. CASE Invoke
  <2>0. NoneWaits /\ pc = "invoke"
    BY <1>1, <1>w DEF Invoke, Rest
  <2>1. CASE UNCHANGED ops /\ pc' = "apply" /\ Is(call.key, "applied")
    <3>1. OpenKeys' = {}
      BY <1>1, <2>1, InvokeEffect DEF OpenKeys
    <3> QED BY <1>1, <2>1, <3>1, InvokeEffect DEF CallInv, CallShape, CallFits, InCall, Late,
               Rest, Free, Is
  <2>2. CASE Reserved(call.key) /\ pc' = "call"
    <3>1. OpenKeys' = {call.key}
      BY <1>1, <2>2, InvokeEffect DEF OpenKeys, Reserved, OpenOp
    <3> QED BY <1>1, <2>2, <3>1, InvokeEffect DEF CallInv, CallShape, CallFits, InCall, Late,
               Rest, Free, Is, Reserved
  <2> QED BY <1>1, <1>c, <2>0, <2>1, <2>2, InvokeEffect
<1>2. CASE MarkFailed \/ RefuseFutileRetry
  <2>1. pc = "call" /\ pc' = "invalid" /\ Is(call.key, "prepared") /\ Moved(call.key, "failed")
        /\ UNCHANGED call
    BY <1>2, DropEffect DEF MarkFailed, RefuseFutileRetry
  <2>2. OpenKeys' = {}
    <3>1. call.key \in OpenKeys
      BY <2>1 DEF Is, OpenKeys, OpenOp
    <3>2. \A l \in OpenKeys : l = call.key
      BY <3>1 DEF CallInv, OneOpen
    <3> QED BY <2>1, <3>2 DEF OpenKeys, Moved, OpenOp
  <2>3. Is(call.key, "failed")'
    BY <2>1 DEF Is, Moved
  <2> QED BY <1>k, <2>1, <2>2, <2>3 DEF CallInv, CallShape, CallFits, InCall, Late, Rest, Free
<1>3. ASSUME NEW a \in Answers(call.key, call.about), Complete(a) PROVE CallShape' /\ CallFits'
  <2>1. /\ pc = "call" /\ pc' = "apply" /\ Is(call.key, "prepared") /\ Stored(call.key, a)
        /\ UNCHANGED call
    BY <1>3, CompleteEffect DEF Complete
  <2>2. \A l \in OpenKeys' : ops'[l].st # "waiting"
    <3>1. NoneWaits
      BY <1>w, <2>1 DEF Rest
    <3> QED BY <2>1, <3>1 DEF OpenKeys, Stored, NoneWaits
  <2>3. Is(call.key, "completed")'
    BY <2>1 DEF Is, Stored
  <2> QED BY <1>k, <2>1, <2>2, <2>3 DEF CallInv, CallShape, CallFits, InCall, Late, Rest, Free
<1>4. CASE AppliesStep
  <2>1. OpenKeys' = {}
    BY <1>4, AppliesStepEffect, AppliesCloses
  <2>2. CASE pc' \in {"loop", "settle", "publish", "idle"} /\ call' = NoCall
    BY <1>n, <2>1, <2>2 DEF CallShape, CallFits, InCall, Late, Rest, Free
  <2> QED BY <1>4, <1>b, <2>1, <2>2, AppliesGoesOn DEF GoesOn, CallInv, CallShape
<1>5. CASE RefuseEffect
  BY <1>5, <1>c, <1>k, <1>w DEF RefuseEffect, Fails, Rest, InCall
<1>6. CASE Repair \/ RepairSynthesis
  <2>0. pc = "invalid" /\ UNCHANGED ops /\ IsKey(call.key) /\ NoneWaits /\ OpenKeys = {}
    BY <1>6, <1>k, <1>w DEF Repair, RepairSynthesis, InCall, Rest, CallInv, CallFits, Free
  <2>1. OpenKeys' = {}
    BY <2>0 DEF OpenKeys
  <2>2. ASSUME NEW stage, NEW n, NEW about, NEW g \in BOOLEAN, IsKey(Key(stage, call.key[2], n)),
               Invoking(Key(stage, call.key[2], n), about, g)
        PROVE  CallShape' /\ CallFits'
    BY <1>b, <2>1, <2>2 DEF Invoking
  <2>3. CASE pc' = "error" /\ UNCHANGED call
    BY <1>c, <2>0, <2>3
  <2>4. CASE Repair
    <3>1. call.key[2] \in Tasks /\ call.guarded \in BOOLEAN
      BY <2>0, <2>4, ExecutionConstants DEF Repair, IsKey, Tasks, CallInv, CallShape
    <3>2. \A stage \in {"worker", "acceptance_lead_repair", "acceptance_worker_repair"} : \A n :
            IsKey(Key(stage, call.key[2], n))
      BY <3>1, MadeKey DEF Stages, Workers, Reviews, Syntheses
    <3>3. CASE pc' = "consume" /\ UNCHANGED call
      BY <2>0, <2>1, <3>3 DEF CallInv, CallShape, CallFits, InCall, Late, Rest, Free
    <3>4. \/ pc' = "error" /\ UNCHANGED call
          \/ pc' = "consume" /\ UNCHANGED call
          \/ Invoking(Key("worker", call.key[2], 1), call.about, call.guarded)
          \/ Invoking(Key("acceptance_lead_repair", call.key[2], call.key[3]), <<"repair", 0>>,
                      call.guarded)
          \/ Invoking(Key("acceptance_worker_repair", call.key[2], call.key[3]), <<"repair", 0>>,
                      call.guarded)
      BY <2>4 DEF Repair, Fails
    <3> QED BY <2>2, <2>3, <3>1, <3>2, <3>3, <3>4
  <2>5. CASE RepairSynthesis
    <3>1. IsKey(Key("synthesis_repair", call.key[2], call.key[3])) /\ call.key[2] = 0
      BY <2>0, <2>5, ExecutionConstants DEF RepairSynthesis, IsKey, Key, Stages, Syntheses
    <3>2. \/ pc' = "error" /\ UNCHANGED call
          \/ Invoking(Key("synthesis_repair", call.key[2], call.key[3]), <<"repair", 0>>, FALSE)
      BY <2>5, <3>1 DEF RepairSynthesis, Fails
    <3> QED BY <2>2, <2>3, <3>1, <3>2
  <2> QED BY <1>6, <2>4, <2>5
<1>7. CASE Error
  <2>1. /\ pc = "error" /\ UNCHANGED ops /\ call' = NoCall /\ pc' \in {"loop", "idle"}
    BY <1>7 DEF Error, Goto
  <2>2. OpenKeys' = OpenKeys /\ NoneWaits
    BY <1>w, <2>1 DEF OpenKeys, Rest
  <2> QED BY <1>a, <2>1, <2>2 DEF NoneWaits, Rest
<1>8. CASE Consume
  <2>1. pc = "consume" /\ UNCHANGED <<ops, call>> /\ pc' \in {"error", "raise"} /\ OpenKeys = {}
        /\ IsKey(call.key)
    BY <1>8, <1>k DEF Consume, Fails, CallInv, CallFits, Free, InCall
  <2>2. OpenKeys' = {}
    BY <2>1 DEF OpenKeys
  <2> QED BY <2>1, <2>2 DEF CallInv, CallShape, CallFits, InCall, Late, Rest, Free
<1>9. CASE Raise
  <2>1. OpenKeys = {}
    BY <1>9 DEF Raise, CallInv, CallFits, Free
  <2> QED BY <1>9, <1>d, <2>1 DEF Raise, Goto, Late, NoneWaits
<1>10. CASE Publish
  <2>1. /\ UNCHANGED ops /\ call' = NoCall /\ pc' = "idle" /\ run' = "waiting_for_user"
    BY <1>10 DEF Publish, Goto
  <2> QED BY <1>a, <2>1 DEF Rest
<1>11. CASE RecoverOpen
  <2> DEFINE first == CHOOSE k \in OpenKeys : TRUE
  <2>1. first \in OpenKeys /\ TakeUpInLoop(first) /\ UNCHANGED ops /\ NoneWaits
    BY <1>11, <1>w DEF RecoverOpen, Rest
  <2> HIDE DEF first
  <2>2. CASE first[1] \in Syntheses
    <3>1. first \in DOMAIN ops /\ \A k \in OpenKeys : k = first
      BY <2>1 DEF OpenKeys, CallInv, OneOpen
    <3>2. \A k \in OpenKeys : k[2] = 0
      BY <2>2, <3>1 DEF CallInv, OpsShape, IsKey
    <3> QED BY <1>d, <2>1, <2>2, <3>2 DEF TakeUpInLoop, Goto, Late
  <2>3. CASE first[1] \notin Syntheses
    BY <1>e, <2>1, <2>3 DEF TakeUpInLoop
  <2> QED BY <2>2, <2>3
<1>12. CASE Chain
  <2> DEFINE t == Min(Chained)  last == Last(t)
  <2>1. t \in Chained /\ t \in Tasks
    BY <1>12, MinIsIn DEF Chain, Chained
  <2>2. pc = "loop" /\ OpenKeys = {} /\ UNCHANGED ops /\ call = NoCall /\ call.guarded = FALSE
    BY <1>12 DEF Chain, CallInv, CallShape, InCall, NoCall
  <2>3. OpenKeys' = {}
    BY <2>2 DEF OpenKeys
  <2>4. \/ Review(t, FALSE)
        \/ Invoking(Key(IF last[1] \in Reviews THEN "acceptance_worker" ELSE "mediation_worker",
                        t, last[3]), <<"user", 0>>, FALSE)
        \/ HaveItDone(t, last[3])
        \/ Fails
    BY <1>12, <2>1 DEF Chain, Chained
  <2> HIDE DEF t, last
  <2>5. \A stage \in {"acceptance_lead", "acceptance_worker", "mediation_worker"} : \A n :
          IsKey(Key(stage, t, n))
    BY <2>1, MadeKey DEF Stages, Workers, Reviews, Syntheses
  <2>6. CASE Fails
    BY <1>c, <2>2, <2>6 DEF Fails, NoneWaits
  <2>7. ASSUME NEW stage \in {"acceptance_lead", "acceptance_worker", "mediation_worker"}, NEW n,
               NEW about, Invoking(Key(stage, t, n), about, FALSE)
        PROVE  CallShape' /\ CallFits'
    BY <1>b, <2>3, <2>5, <2>7 DEF Invoking
  <2>8. CASE Review(t, FALSE)
    BY <2>7, <2>8 DEF Review
  <2>9. CASE HaveItDone(t, last[3])
    BY <2>2, <2>7, <2>9 DEF HaveItDone
  <2>10. (IF last[1] \in Reviews THEN "acceptance_worker" ELSE "mediation_worker")
           \in {"acceptance_lead", "acceptance_worker", "mediation_worker"}
    OBVIOUS
  <2> QED BY <2>4, <2>6, <2>7, <2>8, <2>9, <2>10
<1>13. CASE StartTask
  <2> DEFINE t == Min(Ready)
  <2>1. t \in Tasks /\ OpenKeys = {} /\ UNCHANGED ops
        /\ Invoking(Key("worker", t, 0), <<"task", Version(t)>>, TRUE)
    BY <1>13, MinIsIn DEF StartTask, Ready
  <2> HIDE DEF t
  <2>2. IsKey(Key("worker", t, 0)) /\ OpenKeys' = {}
    BY <2>1, MadeKey DEF Stages, Workers, Syntheses, OpenKeys
  <2> QED BY <1>b, <2>1, <2>2 DEF Invoking
<1>14. CASE LeaveLoop
  BY <1>14, <1>d DEF LeaveLoop, Goto, Late, NoneWaits
<1>15. CASE SettleQuestions \/ SkipDependents \/ Settle
  <2>1. pc = "settle" /\ NoneWaits /\ (\A k \in OpenKeys : k[2] = 0) /\ UNCHANGED ops /\ call = NoCall
    BY <1>15, <1>w DEF SettleQuestions, SkipDependents, Settle, Rest, CallInv, CallFits, CallShape,
                       Late, InCall
  <2>2. CASE pc' \in Late /\ call' = NoCall
    BY <1>d, <2>1, <2>2
  <2>3. CASE pc' = "error" /\ UNCHANGED call
    BY <1>c, <2>1, <2>3
  <2>4. CASE pc' = "idle" /\ call' = NoCall
    <3>1. OpenKeys' = OpenKeys
      BY <2>1 DEF OpenKeys
    <3> QED BY <1>a, <2>1, <2>4, <3>1 DEF NoneWaits, Rest
  <2>5. \/ pc' \in Late /\ call' = NoCall
        \/ pc' = "error" /\ UNCHANGED call
        \/ pc' = "idle" /\ call' = NoCall
    BY <1>15, <2>1 DEF SettleQuestions, SkipDependents, Settle, Goto, Fails, Late
  <2> QED BY <2>2, <2>3, <2>4, <2>5
<1>16. CASE Synthesize
  <2>1. pc = "synthesize" /\ NoneWaits /\ UNCHANGED ops
    BY <1>16, <1>w DEF Synthesize, Rest
  <2>2. CASE OpenKeys # {}
    <3> DEFINE first == CHOOSE k \in OpenKeys : TRUE
    <3>1. first \in OpenKeys /\ TakeUp(first, TRUE)
      BY <1>16, <2>2 DEF Synthesize
    <3> HIDE DEF first
    <3> QED BY <1>e, <2>1, <3>1
  <2>3. CASE OpenKeys = {}
    <3>1. PICK n : Invoking(Key("synthesis", 0, n), <<"results", 0>>, FALSE)
      BY <1>16, <2>3 DEF Synthesize
    <3>2. IsKey(Key("synthesis", 0, n)) /\ OpenKeys' = {}
      BY <2>1, <2>3, ExecutionConstants DEF IsKey, Key, Stages, Syntheses, OpenKeys
    <3> QED BY <1>b, <3>1, <3>2 DEF Invoking
  <2> QED BY <2>2, <2>3
<1>17. CASE Restart
  <2>1. pc' \in Rest \cup {"loop"}
    BY <1>17 DEF Restart, Rest
  <2> QED BY <1>17, <1>a, <2>1, RestartFits
<1>18. CASE Park
  <2>1. pc' = "idle" /\ call' = NoCall /\ run' = "waiting_for_provider"
    BY <1>18 DEF Park, Goto
  <2> QED BY <1>a, <2>1 DEF Rest
<1>19. CASE Crash
  <2>1. pc' = "down" /\ call' = NoCall /\ UNCHANGED <<ops, run>> /\ OpenKeys' = OpenKeys
    BY <1>19 DEF Crash, Goto, OpenKeys, questions
  <2> QED BY <1>a, <2>1 DEF CallInv, CallFits, Rest
<1>20. CASE Reclaim
  <2>1. pc' = "loop" /\ call' = NoCall
    BY <1>20 DEF Reclaim, Goto
  <2>2. PICK k \in OpenKeys : Is(k, "waiting") /\ Moved(k, "prepared")
    BY <1>20, ReclaimEffect
  <2>3. \A l \in OpenKeys' : ops'[l].st # "waiting"
    BY <2>2 DEF CallInv, OneOpen, OpenKeys, Moved, OpenOp
  <2> QED BY <1>a, <2>1, <2>3
<1>21. CASE UserResumes
  <2>1. pc' = "loop" /\ call' = NoCall /\ run = "interrupted" /\ OpenKeys' = OpenKeys /\ UNCHANGED ops
    BY <1>21 DEF UserResumes, Goto, OpenKeys
  <2> QED BY <1>a, <2>1 DEF CallInv, CallFits
<1>22. CASE UserAnswers
  <2>1. /\ call' = NoCall /\ OpenKeys' = OpenKeys /\ UNCHANGED ops /\ run' = "running"
        /\ pc' = (IF \E k \in OpenKeys : ops[k].st = "waiting" THEN "idle" ELSE "loop")
    BY <1>22 DEF UserAnswers, Goto, OpenKeys
  <2> QED BY <1>a, <2>1 DEF Rest
<1>23. CASE UNCHANGED vars
  BY <1>23 DEF vars, CallInv, CallShape, CallFits, OpenKeys, Is
<1> QED BY <1>1, <1>2, <1>3, <1>4, <1>5, <1>6, <1>7, <1>8, <1>9, <1>10, <1>11, <1>12, <1>13, <1>14,
        <1>15, <1>16, <1>17, <1>18, <1>19, <1>20, <1>21, <1>22, <1>23, StepKinds DEF QuietStep

-----------------------------------------------------------------------------
(* The tables of tasks and counters.                                       *)

LEMMA VerdictKinds ==
  \A t, answer : Verdict(t, answer) \in {"completed", "failed", "blocked", "review"}
BY DEF Verdict

\* a step that leaves the tasks and the counters alone
KeepsTables == UNCHANGED <<tasks, attempts, stored, rounds, reinv>>

LEMMA QuietTables ==
  \/ Invoke \/ MarkFailed \/ RefuseFutileRetry \/ Repair \/ RepairSynthesis \/ Raise \/ Publish
  \/ RefuseEffect \/ RecoverOpen \/ LeaveLoop \/ SettleQuestions \/ Settle \/ Synthesize
  \/ Crash \/ UserResumes \/ (\E a \in Answers(call.key, call.about) : Complete(a))
  \/ UNCHANGED vars
  => KeepsTables
BY DEF Invoke, MarkFailed, RefuseFutileRetry, Repair, RepairSynthesis, Raise, Publish,
       RefuseEffect, RecoverOpen, LeaveLoop, SettleQuestions, Settle, Synthesize, Crash,
       UserResumes, Complete, vars, counters, KeepsTables

\* Two statuses are exchanged for others at most: every task keeps a status.
LEMMA TasksKept ==
  ASSUME tasks \in [Tasks -> TaskStatus]
  PROVE  /\ \A t : BeginTask(t) => tasks' \in [Tasks -> TaskStatus]
         /\ \A t : AsksUser(t) => tasks' \in [Tasks -> TaskStatus]
         /\ \A k, status \in TaskStatus :
              tasks' = [t \in Tasks |-> IF t = k[2] THEN status ELSE tasks[t]] =>
                tasks' \in [Tasks -> TaskStatus]
         /\ Interrupted \in [Tasks -> TaskStatus] /\ Released \in [Tasks -> TaskStatus]
<1>1. {"in_progress", "waiting_for_user", "waiting_for_provider", "pending"} \subseteq TaskStatus
  BY DEF TaskStatus
<1>2. Interrupted \in [Tasks -> TaskStatus] /\ Released \in [Tasks -> TaskStatus]
  BY <1>1 DEF Interrupted, Released
<1>3. \A t : AsksUser(t) => tasks' \in [Tasks -> TaskStatus]
  BY <1>1 DEF AsksUser
<1> QED BY <1>1, <1>2, <1>3 DEF BeginTask

LEMMA TasksStep == CallInv /\ [Next]_vars => TasksShape'
<1> SUFFICES ASSUME CallInv, [Next]_vars PROVE TasksShape'
  OBVIOUS
<1> USE DEF TasksShape
<1>i. TasksShape
  BY DEF CallInv
<1>p. {"in_progress", "waiting_for_user", "waiting_for_provider", "pending", "completed",
       "failed", "blocked", "skipped"} \subseteq TaskStatus
  BY DEF TaskStatus, TerminalTask
<1>c. ASSUME UNCHANGED <<attempts, stored, rounds, reinv>>, tasks' \in [Tasks -> TaskStatus]
      PROVE  TasksShape'
  BY <1>i, <1>c
<1>f. /\ \A n \in Nat : n + 1 \in Nat
      /\ \A m \in Nat : \A n : m + 1 = n => n \in Nat
  OBVIOUS
<1>r. Reinvoked \in Nat
  BY <1>i, <1>f DEF Reinvoked
<1>1. CASE KeepsTables
  BY <1>1, <1>i DEF KeepsTables
<1>2. CASE Error
  <2>1. tasks' \in [Tasks -> TaskStatus]
    BY <1>2, <1>p, <1>i DEF Error, FinishTask
  <2> QED BY <1>2, <1>c, <2>1 DEF Error, counters
<1>3. CASE Consume
  BY <1>3, <1>i, <1>f DEF Consume
<1>4. CASE Chain \/ StartTask
  <2>1. UNCHANGED <<attempts, stored, rounds, reinv>> /\ \E t : BeginTask(t)
    BY <1>4 DEF Chain, StartTask, counters
  <2> QED BY <1>c, <2>1, <1>i, TasksKept
<1>5. CASE SkipDependents
  BY <1>5, <1>c, <1>i, <1>p DEF SkipDependents, counters
<1>6. CASE Restart
  <2>1. UNCHANGED counters
    BY <1>6, RestartEffect
  <2>2. \/ \E k \in OpenKeys :
             tasks' = [t \in Tasks |-> IF t = k[2] THEN "waiting_for_provider" ELSE tasks[t]]
        \/ UNCHANGED tasks \/ tasks' = Interrupted
    BY <1>6, RestartEffect DEF ParkedAtStart, TakenUpAtStart, NotDueAtStart
  <2>3. tasks' \in [Tasks -> TaskStatus]
    BY <2>2, <1>i, <1>p, TasksKept
  <2> QED BY <2>1, <2>3, <1>c DEF counters
<1>7. CASE Park
  BY <1>7, <1>c, <1>i, <1>p, TasksKept DEF Park, counters
<1>8. CASE Reclaim
  BY <1>8, <1>c, <1>i, <1>p, TasksKept DEF Reclaim, counters
<1>9. CASE UserAnswers
  BY <1>9, <1>c, <1>i, TasksKept DEF UserAnswers, counters
<1>10. CASE ApplyQuery
  BY <1>10, <1>i, <1>r DEF ApplyQuery
<1>11. CASE ApplyOutcome
  <2> DEFINE t == call.key[2]
  <2>1. UNCHANGED tasks \/ \E status \in TaskStatus : FinishTask(t, status)
    <3>1. CASE Verdict(t, ops[call.key].answer) = "review"
      BY <1>11, <3>1 DEF ApplyOutcome
    <3>2. CASE Verdict(t, ops[call.key].answer) # "review"
      BY <1>11, <3>2, <1>p, VerdictKinds DEF ApplyOutcome
    <3> QED BY <3>1, <3>2
  <2>2. tasks' \in [Tasks -> TaskStatus]
    BY <2>1, <1>i DEF FinishTask
  <2> QED BY <1>11, <2>2, <1>i, <1>r DEF ApplyOutcome
<1>12. CASE ApplyMediation \/ ApplyConsult \/ MediationAsksUser
  <2>1. rounds + 1 = call.key[3]
    <3>1. PICK stages, answers : /\ stages \in {{"mediation_lead"}, {"consult_peer"}}
                                    /\ Applies(stages, answers)
      BY <1>12 DEF ApplyMediation, ApplyConsult, MediationAsksUser
    <3>2. call.key[1] \in Mediations
      BY <3>1, AppliesEffect DEF Mediations
    <3> QED BY <3>1, <3>2, AppliesEffect, FitsEffect DEF RoundFits
  <2>2. rounds' = call.key[3] /\ UNCHANGED <<attempts, stored, reinv>>
    BY <1>12 DEF ApplyMediation, ApplyConsult, MediationAsksUser, Tell, CountRound
  <2>3. UNCHANGED tasks \/ \E t : AsksUser(t)
    BY <1>12 DEF ApplyMediation, ApplyConsult, MediationAsksUser, Tell
  <2> QED BY <1>i, <1>f, <2>1, <2>2, <2>3, TasksKept
<1>13. CASE ApplyReview
  <2>1. attempts[call.key[2]] + 1 = call.key[3] /\ call.key[2] \in Tasks
    BY <1>13, AppliesEffect, FitsEffect, StageKinds DEF ApplyReview, ReviewFits
  <2>2. attempts' = [attempts EXCEPT ![call.key[2]] = call.key[3]] /\ UNCHANGED <<tasks, stored, rounds, reinv>>
    BY <1>13 DEF ApplyReview
  <2> QED BY <1>i, <1>f, <2>1, <2>2
<1>14. CASE ReviewAsksUser \/ ReviewGivesUp \/ ApplySynthesis \/ ApplySynthesisDecision
  <2>1. UNCHANGED <<attempts, stored, rounds, reinv>>
    BY <1>14 DEF ReviewAsksUser, ReviewGivesUp, ApplySynthesis, ApplySynthesisDecision, counters
  <2>2. \/ UNCHANGED tasks \/ FinishTask(call.key[2], "failed") \/ AsksUser(call.key[2])
    BY <1>14 DEF ReviewAsksUser, ReviewGivesUp, ApplySynthesis, ApplySynthesisDecision
  <2> QED BY <1>c, <1>i, <1>p, <2>1, <2>2 DEF FinishTask, AsksUser
<1> QED BY <1>1, <1>2, <1>3, <1>4, <1>5, <1>6, <1>7, <1>8, <1>9, <1>10, <1>11, <1>12, <1>13, <1>14,
        QuietTables, StepKinds DEF QuietStep, AppliesStep

LEMMA CallInvStep == CallInv /\ [Next]_vars => CallInv' /\ OpsStep
BY OpsSteps, OpsStepEffect, CallStep, TasksStep DEF CallInv

LEMMA CallInvInit == Init => CallInv
<1> SUFFICES ASSUME Init PROVE CallInv
  OBVIOUS
<1>1. DOMAIN ops = {} /\ ops = [k \in DOMAIN ops |-> ops[k]]
  BY DEF Init
<1>2. OpsShape /\ OneOpen
  BY <1>1, FS_EmptySet DEF OpsShape, OneOpen, OpenKeys
<1>3. CallShape /\ TasksShape
  BY DEF Init, CallShape, NoCall, TasksShape, InCall, Late, Rest, TaskStatus
<1>4. CallFits
  BY <1>1 DEF Init, CallFits, OpenKeys, Free, Late
<1> QED BY <1>2, <1>3, <1>4 DEF CallInv

-----------------------------------------------------------------------------
(* The coroutine uses the ledger as ModelCalls promises.                   *)

\* the calls as ModelCalls sees them
CallsSeen == [k \in DOMAIN ops |-> [at |-> Stage(ops[k].st), answer |-> ops[k].answer]]

LEMMA StagesSeen ==
  /\ \A st \in Statuses : Stage(st) \in {"open", "answered"} => st \in OpenOp
  /\ Stage("prepared") = "open" /\ Stage("waiting") = "open" /\ Stage("completed") = "answered"
  /\ Stage("applied") = "applied" /\ Stage("failed") = "dropped"
BY DEF Stage, Statuses, OpenOp

\* A step that changes the row of one call, seen from outside.
LEMMA SeenMove ==
  ASSUME NEW k \in DOMAIN ops, DOMAIN ops' = DOMAIN ops, NEW st, NEW a,
         \A l \in DOMAIN ops \ {k} : ops'[l] = ops[l], ops'[k].st = st, ops'[k].answer = a
  PROVE  CallsSeen' = [CallsSeen EXCEPT ![k] = [at |-> Stage(st), answer |-> a]]
<1>1. CallsSeen' = [l \in DOMAIN ops |-> [at |-> Stage(ops'[l].st), answer |-> ops'[l].answer]]
  BY DEF CallsSeen
<1>2. [CallsSeen EXCEPT ![k] = [at |-> Stage(st), answer |-> a]]
        = [l \in DOMAIN ops |-> IF l = k THEN [at |-> Stage(st), answer |-> a] ELSE CallsSeen[l]]
  BY DEF CallsSeen
<1>3. \A l \in DOMAIN ops :
        [at |-> Stage(ops'[l].st), answer |-> ops'[l].answer]
          = IF l = k THEN [at |-> Stage(st), answer |-> a] ELSE CallsSeen[l]
  BY DEF CallsSeen
<1> QED BY <1>1, <1>2, <1>3

LEMMA CallsInit == Init => Calls!Init
BY DEF Init, Calls!Init

LEMMA CallsStep == CallInv /\ [Next]_vars => [Calls!Next]_CallsSeen
<1> SUFFICES ASSUME CallInv, [Next]_vars PROVE Calls!Next \/ CallsSeen' = CallsSeen
  BY DEF CallsSeen
<1>a. OpsStep /\ OpsShape /\ OpsShape'
  BY CallInvStep DEF CallInv
<1>d. DOMAIN CallsSeen = DOMAIN ops /\ DOMAIN CallsSeen' = DOMAIN ops'
  BY DEF CallsSeen
<1>1. CASE UNCHANGED ops
  BY <1>1 DEF CallsSeen
<1>2. CASE OpenKeys = {} /\ IsKey(call.key) /\ Reserved(call.key) /\ Tabular
  <2>k. PICK k : k = call.key
    OBVIOUS
  <2>r. /\ k \notin DOMAIN ops /\ DOMAIN ops' = DOMAIN ops \cup {k}
        /\ ops'[k].st = "prepared" /\ ops'[k].answer = "none"
        /\ \A l \in DOMAIN ops : ops'[l] = ops[l]
    BY <1>2, <2>k DEF Reserved
  <2>1. Calls!Undone = {}
    BY <1>2, <1>a, StagesSeen DEF OpenKeys, OpsShape, IsRow, Calls!Undone
  <2>2. CallsSeen' = [j \in DOMAIN CallsSeen \cup {k} |->
                        IF j = k THEN [at |-> "open", answer |-> "none"] ELSE CallsSeen[j]]
    BY <2>r, StagesSeen DEF CallsSeen
  <2>3. Calls!Reserve(k)
    BY <2>1, <2>2, <2>r, <1>d DEF Calls!Reserve, CallsSeen
  <2> QED BY <2>3, <2>r, <1>d DEF Calls!Next, CallsSeen
<1>3. ASSUME NEW k \in DOMAIN ops, NEW to \in Statuses, <<ops[k].st, to>> \in Transitions,
             Moved(k, to)
      PROVE  Calls!Next \/ CallsSeen' = CallsSeen
  <2>1. CallsSeen' = [CallsSeen EXCEPT ![k] = [at |-> Stage(to), answer |-> ops[k].answer]]
    <3>1. ops'[k].st = to /\ ops'[k].answer = ops[k].answer
      BY <1>3 DEF Moved
    <3> QED BY <1>3, <3>1, SeenMove DEF Moved
  <2>2. CallsSeen[k] = [at |-> Stage(ops[k].st), answer |-> ops[k].answer] /\ k \in DOMAIN CallsSeen'
    BY <1>3, <1>d DEF CallsSeen, Moved
  <2>3. CASE Stage(to) = Stage(ops[k].st)
    BY <2>1, <2>2, <2>3 DEF CallsSeen
  <2>4. CASE to = "failed" /\ ops[k].st = "prepared"
    <3>1. CallsSeen' = [CallsSeen EXCEPT ![k].at = "dropped"]
      BY <2>1, <2>2, <2>4, StagesSeen DEF CallsSeen
    <3>2. k \in Calls!Undone
      BY <2>2, <2>4, <1>d, StagesSeen DEF Calls!Undone, CallsSeen
    <3>3. Calls!Drop(k)
      BY <3>1, <3>2 DEF Calls!Drop, CallsSeen
    <3> QED BY <3>3, <2>2 DEF Calls!Next, CallsSeen
  <2>5. CASE to = "applied" /\ ops[k].st = "completed"
    <3>1. CallsSeen' = [CallsSeen EXCEPT ![k].at = "applied"]
      BY <2>1, <2>2, <2>5, StagesSeen DEF CallsSeen
    <3>2. Calls!Apply(k)
      BY <3>1, <2>2, <2>5, <1>d, StagesSeen DEF Calls!Apply, CallsSeen
    <3> QED BY <3>2, <2>2 DEF Calls!Next, CallsSeen
  <2>6. \/ Stage(to) = Stage(ops[k].st)
        \/ to = "failed" /\ ops[k].st = "prepared"
        \/ to = "applied" /\ ops[k].st = "completed"
    BY <1>3, StagesSeen DEF Transitions
  <2> QED BY <2>3, <2>4, <2>5, <2>6
<1>4. ASSUME NEW a, Is(call.key, "prepared"), Stored(call.key, a) PROVE Calls!Next
  <2>k. PICK k : k = call.key
    OBVIOUS
  <2>r. /\ k \in DOMAIN ops /\ DOMAIN ops' = DOMAIN ops /\ ops[k].st = "prepared"
        /\ ops'[k].st = "completed" /\ ops'[k].answer = a
        /\ \A l \in DOMAIN ops \ {k} : ops'[l] = ops[l]
    BY <1>4, <2>k DEF Stored, Is
  <2>1. CallsSeen' = [CallsSeen EXCEPT ![k] = [at |-> "answered", answer |-> a]]
    <3>1. CallsSeen' = [CallsSeen EXCEPT ![k] = [at |-> Stage("completed"), answer |-> a]]
      BY <2>r, SeenMove
    <3> QED BY <3>1, StagesSeen
  <2>2. CallsSeen[k].at = "open" /\ CallsSeen'[k].answer = a
    BY <2>r, StagesSeen DEF CallsSeen
  <2>3. Calls!Answer(k, CallsSeen'[k].answer)
    BY <2>1, <2>2, <2>r, <1>d DEF Calls!Answer, CallsSeen
  <2> QED BY <2>3, <2>r, <1>d DEF Calls!Next, CallsSeen
<1> QED BY <1>a, <1>1, <1>2, <1>3, <1>4 DEF OpsStep

\* The loop, the chain of effects, the synthesis and the recovery share the ledger:
\* whatever the interleaving of crashes, parked calls and answers, none of them opens a
\* second call, stores a second answer or applies one twice.
THEOREM LedgerIsShared == Spec => CallsAreOnce
<1>1. Init => CallInv /\ Calls!Init
  BY CallInvInit, CallsInit
<1> QED BY <1>1, CallInvStep, CallsStep, PTL DEF Spec, CallsAreOnce, Calls!Spec, CallsSeen

-----------------------------------------------------------------------------
(* Who works on what.  The loop, the effects and the start-up write the     *)
(* status of a task without asking team_lifecycle.py; that each write is    *)
(* legal follows from what the open call and the coroutine say of the task. *)

\* The task of the call the coroutine is at is in progress.
CallWorks ==
  /\ call.guarded => call.key[2] \in Tasks /\ Working(call.key[2])
  /\ pc \in {"invoke", "call", "invalid", "consume", "raise"} /\ call.key[2] # 0 =>
       Working(call.key[2])
  /\ pc = "apply" /\ call.key[2] # 0 /\ Is(call.key, "applied") => Working(call.key[2])

\* The task of an open call is in progress, or it failed with the run and the call's
\* prompt cannot be made again; of a parked call it waits.
OpenWorks ==
  \A k \in OpenKeys : k[2] # 0 =>
    /\ ops[k].st = "prepared" =>
         /\ Working(k[2]) \/ (tasks[k[2]] = "failed" /\ Rebuilt(k) # ops[k].about)
         /\ pc = "error" => ~call.guarded /\ Rebuilt(k) # ops[k].about
         /\ run # "waiting_for_user"
    /\ ops[k].st = "waiting" => tasks[k[2]] = "waiting_for_provider"

RunWorks == pc \notin Rest => run \in {"running", "summarizing"}

WorkInv == CallInv /\ CallWorks /\ OpenWorks /\ RunWorks

LEMMA RebuiltStays ==
  ASSUME NEW k, UNCHANGED <<ops, rounds, reinv, stored, resolved>>
  PROVE  Rebuilt(k)' = Rebuilt(k)
<1>1. OpenKeys' = OpenKeys /\ AppliedKeys' = AppliedKeys
  BY DEF OpenKeys, AppliedKeys
<1>2. \A ks, kinds : Answered(ks, kinds)' = Answered(ks, kinds)
  BY DEF Answered
<1>3. \A ks : Newest(ks)' = Newest(ks)
  BY DEF Newest
<1> QED BY <1>1, <1>2, <1>3 DEF Rebuilt, Version, QueryPrompt, ReviewPrompt, Is, Of

LEMMA RunStep == CallInv /\ RunWorks /\ [Next]_vars => RunWorks'
<1> SUFFICES ASSUME CallInv, RunWorks, [Next]_vars PROVE RunWorks'
  OBVIOUS
<1> USE DEF RunWorks, Rest
<1>1. CASE UNCHANGED run /\ pc \notin Rest
  BY <1>1
<1>2. CASE pc' \in Rest
  BY <1>2
<1>3. CASE Invoke \/ MarkFailed \/ RefuseFutileRetry
           \/ \E a \in Answers(call.key, call.about) : Complete(a)
  BY <1>1, <1>3 DEF Invoke, MarkFailed, RefuseFutileRetry, Complete
<1>4. CASE Repair \/ RepairSynthesis \/ Consume \/ Raise \/ RefuseEffect
  BY <1>1, <1>4 DEF Repair, RepairSynthesis, Consume, Raise, RefuseEffect
<1>5. CASE Error
  BY <1>1, <1>2, <1>5 DEF Error, Goto
<1>6. CASE Publish \/ Park \/ Crash
  BY <1>2, <1>6 DEF Publish, Park, Crash, Goto
<1>7. CASE RecoverOpen \/ Chain \/ StartTask \/ LeaveLoop
  BY <1>1, <1>7 DEF RecoverOpen, Chain, StartTask, LeaveLoop
<1>8. CASE SettleQuestions \/ SkipDependents \/ Synthesize
  BY <1>1, <1>8 DEF SettleQuestions, SkipDependents, Synthesize
<1>9. CASE Settle
  <2>1. pc = "settle" /\ (UNCHANGED run \/ pc' = "idle" \/ run' = "summarizing")
    BY <1>9 DEF Settle, Goto
  <2> QED BY <1>1, <2>1
<1>10. CASE AppliesStep
  <2>1. pc = "apply" /\ (UNCHANGED run \/ pc' = "idle")
    BY <1>10 DEF AppliesStep, ApplyQuery, ApplyOutcome, ApplyMediation, ApplyConsult, Tell,
                MediationAsksUser, ApplyReview, ReviewAsksUser, ReviewGivesUp, ApplySynthesis,
                ApplySynthesisDecision, Applies, Goto
  <2> QED BY <1>1, <2>1
<1>11. CASE Restart
  BY <1>11, RestartEffect DEF ParkedAtStart, TakenUpAtStart, NotDueAtStart
<1>12. CASE Reclaim \/ UserResumes \/ UserAnswers
  BY <1>12 DEF Reclaim, UserResumes, UserAnswers
<1>13. CASE UNCHANGED vars
  BY <1>13 DEF vars
<1> QED BY <1>3, <1>4, <1>5, <1>6, <1>7, <1>8, <1>9, <1>10, <1>11, <1>12, <1>13, StepKinds
        DEF QuietStep

\* An effect that goes on with another call leaves its task in progress.
LEMMA GoesOnWorking ==
  ASSUME CallInv, CallWorks, AppliesStep, pc' = "invoke"
  PROVE  UNCHANGED tasks /\ Working(call.key[2])
<1>1. CASE ApplyQuery
  <2>1. Working(call.key[2])
    BY <1>1, AppliesEffect, FitsEffect DEF ApplyQuery
  <2> QED BY <1>1, <2>1 DEF ApplyQuery
<1>2. CASE ApplyOutcome
  <2>1. UNCHANGED tasks
    BY <1>2 DEF ApplyOutcome, Goto
  <2>2. /\ call.key[1] \in Workers /\ ops[call.key].answer \notin Queries /\ IsKey(call.key) /\ Fits
        /\ pc = "apply"
    BY <1>2, AppliesEffect, StageKinds DEF ApplyOutcome
  <2>3. OutcomeFits(call.key[2]) /\ call.key[2] \in Tasks
    BY <2>2, FitsEffect, StageKinds
  <2>4. CASE Replayed
    BY <2>1, <2>2, <2>3, <2>4, ExecutionConstants DEF CallWorks, Replayed, Tasks
  <2>5. CASE ~Replayed
    BY <2>1, <2>3, <2>5 DEF OutcomeFits
  <2> QED BY <2>4, <2>5
<1>3. CASE ApplyMediation \/ ApplyConsult
  <2>1. call.key[1] \in Mediations /\ IsKey(call.key) /\ Fits
    BY <1>3, AppliesEffect DEF ApplyMediation, ApplyConsult, Mediations
  <2> QED BY <1>3, <2>1, FitsEffect DEF ApplyMediation, ApplyConsult, Tell, RoundFits
<1>4. CASE ApplyReview
  <2>1. Working(call.key[2])
    BY <1>4, AppliesEffect, FitsEffect DEF ApplyReview, ReviewFits
  <2> QED BY <1>4, <2>1 DEF ApplyReview
<1>5. CASE MediationAsksUser \/ ReviewAsksUser \/ ReviewGivesUp \/ ApplySynthesis
           \/ ApplySynthesisDecision
  BY <1>5 DEF MediationAsksUser, ReviewAsksUser, ReviewGivesUp, ApplySynthesis,
              ApplySynthesisDecision, AsksUser, Goto
<1> QED BY <1>1, <1>2, <1>3, <1>4, <1>5 DEF AppliesStep

LEMMA CallWorksStep == WorkInv /\ [Next]_vars => CallWorks'
<1> SUFFICES ASSUME WorkInv, [Next]_vars PROVE CallWorks'
  OBVIOUS
<1> USE DEF Working
<1>i. CallInv /\ CallWorks /\ OpenWorks
  BY DEF WorkInv
<1>z. 0 \notin Tasks
  BY ExecutionConstants DEF Tasks
<1>a. ASSUME call' = NoCall, pc' \notin InCall PROVE CallWorks'
  BY <1>a DEF CallWorks, InCall, NoCall
<1>b. ASSUME pc' = "invoke", tasks'[call'.key[2]] = "in_progress", call'.key[2] \in Tasks
      PROVE  CallWorks'
  BY <1>b DEF CallWorks
<1>c. ASSUME UNCHANGED <<call, tasks>>, pc \in {"invoke", "call", "invalid", "consume", "raise"},
             pc' \in {"invoke", "call", "invalid", "consume", "raise", "apply", "error"}
      PROVE  CallWorks'
  BY <1>c, <1>i DEF CallWorks
<1>d. ASSUME UNCHANGED <<call, tasks>>, pc' = "error" PROVE CallWorks'
  BY <1>d, <1>i DEF CallWorks
<1>e. ASSUME NEW stage, NEW n, NEW about, NEW guarded \in BOOLEAN, NEW t \in Tasks,
             Invoking(Key(stage, t, n), about, guarded), tasks'[t] = "in_progress"
      PROVE  CallWorks'
  BY <1>b, <1>e DEF Invoking, Key
<1>1. CASE Invoke \/ MarkFailed \/ RefuseFutileRetry
           \/ \E a \in Answers(call.key, call.about) : Complete(a)
  <2>1. CASE Invoke
    BY <1>i, <1>c, <2>1, InvokeEffect DEF Invoke
  <2>2. CASE ~Invoke
    BY <1>1, <1>c, <2>2 DEF MarkFailed, RefuseFutileRetry, Complete
  <2> QED BY <2>1, <2>2
<1>2. CASE Repair
  <2>1. /\ pc = "invalid" /\ UNCHANGED tasks /\ IsKey(call.key) /\ call.key[1] \notin Syntheses
        /\ call.guarded \in BOOLEAN
    BY <1>2, <1>i DEF Repair, CallInv, CallShape, InCall
  <2>2. call.key[2] \in Tasks /\ tasks'[call.key[2]] = "in_progress"
    BY <2>1, <1>i, ExecutionConstants DEF CallWorks, IsKey, Tasks
  <2>3. \/ \E stage, n, about : Invoking(Key(stage, call.key[2], n), about, call.guarded)
        \/ pc' \in {"consume", "error"} /\ UNCHANGED call
    BY <1>2 DEF Repair, Fails
  <2>4. ASSUME NEW stage, NEW n, NEW about, Invoking(Key(stage, call.key[2], n), about, call.guarded)
        PROVE  CallWorks'
    BY <1>b, <2>2, <2>4 DEF Invoking, Key
  <2> QED BY <1>c, <2>1, <2>3, <2>4
<1>3. CASE RepairSynthesis
  <2>1. /\ UNCHANGED tasks
        /\ \/ pc' = "error" /\ UNCHANGED call
           \/ Invoking(Key("synthesis_repair", 0, call.key[3]), <<"repair", 0>>, FALSE)
    BY <1>3 DEF RepairSynthesis, Fails
  <2> QED BY <1>d, <2>1 DEF Invoking, Key, CallWorks
<1>4. CASE Consume
  BY <1>4, <1>c DEF Consume, Fails
<1>5. CASE RefuseEffect
  BY <1>5, <1>d DEF RefuseEffect, Fails
<1>6. CASE Error \/ Raise \/ Publish \/ LeaveLoop \/ SettleQuestions \/ Park \/ Crash \/ Reclaim
           \/ UserResumes \/ UserAnswers
  BY <1>6, <1>a DEF Error, Raise, Publish, LeaveLoop, SettleQuestions, Park, Crash, Reclaim,
                    UserResumes, UserAnswers, Goto, InCall
<1>7. CASE RecoverOpen
  <2> DEFINE first == CHOOSE k \in OpenKeys : TRUE
  <2>1. first \in OpenKeys /\ TakeUpInLoop(first) /\ UNCHANGED tasks /\ pc = "loop"
    BY <1>7 DEF RecoverOpen
  <2> HIDE DEF first
  <2>2. CASE first[1] \in Syntheses
    BY <2>1, <2>2, <1>a DEF TakeUpInLoop, Goto, InCall
  <2>3. CASE first[1] \notin Syntheses
    <3>0. ops[first].st # "waiting" /\ Recoverable(first) \in BOOLEAN
      BY <1>i, <2>1 DEF CallInv, CallFits, Rest, Recoverable
    <3>1. /\ call' = [key |-> first, about |-> ops[first].about, guarded |-> FALSE, fresh |-> FALSE]
          /\ \/ pc' = "error"
             \/ pc' = "call" /\ ops[first].st = "prepared" /\ Recoverable(first)
             \/ pc' = "apply" /\ ops[first].st = "completed"
      BY <1>i, <2>1, <2>3, <3>0, TakeUpEffect DEF TakeUpInLoop, CallInv
    <3>2. CASE pc' = "call"
      <4>1. ops[first].st = "prepared" /\ Rebuilt(first) = ops[first].about
        BY <3>1, <3>2 DEF Recoverable
      <4>2. first[2] # 0 => tasks[first[2]] = "in_progress"
        BY <1>i, <2>1, <4>1 DEF OpenWorks
      <4> QED BY <2>1, <3>1, <3>2, <4>2 DEF CallWorks
    <3>3. CASE pc' = "apply"
      <4>1. ~Is(call.key, "applied")'
        BY <1>7, <3>1, <3>3 DEF Is, RecoverOpen
      <4> QED BY <3>1, <3>3, <4>1 DEF CallWorks
    <3>4. CASE pc' = "error"
      BY <3>1, <3>4 DEF CallWorks
    <3> QED BY <3>1, <3>2, <3>3, <3>4
  <2> QED BY <2>2, <2>3
<1>8. CASE Chain
  <2> DEFINE t == Min(Chained)  last == Last(t)
  <2>1. t \in Chained /\ t \in Tasks
    BY <1>8, MinIsIn DEF Chain, Chained
  <2>2. BeginTask(t) /\ call = NoCall /\ pc = "loop"
    BY <1>8, <1>i DEF Chain, CallInv, CallShape, InCall
  <2>3. \/ Review(t, FALSE)
        \/ Invoking(Key(IF last[1] \in Reviews THEN "acceptance_worker" ELSE "mediation_worker",
                        t, last[3]), <<"user", 0>>, FALSE)
        \/ HaveItDone(t, last[3])
        \/ Fails
    BY <1>8, <2>1 DEF Chain, Chained
  <2> HIDE DEF t, last
  <2>4. tasks'[t] = "in_progress"
    BY <1>i, <2>1, <2>2 DEF BeginTask, CallInv, TasksShape
  <2>5. CASE Fails
    BY <2>2, <2>5 DEF Fails, CallWorks, NoCall
  <2>6. CASE ~Fails
    <3>1. \E stage, n, about, g : Invoking(Key(stage, t, n), about, g)
      BY <2>3, <2>6 DEF Review, HaveItDone
    <3> QED BY <1>b, <2>1, <2>4, <3>1 DEF Invoking, Key
  <2> QED BY <2>5, <2>6
<1>9. CASE StartTask
  <2> DEFINE t == Min(Ready)
  <2>1. t \in Tasks /\ BeginTask(t) /\ Invoking(Key("worker", t, 0), <<"task", Version(t)>>, TRUE)
    BY <1>9, MinIsIn DEF StartTask, Ready
  <2> HIDE DEF t
  <2>2. tasks'[t] = "in_progress"
    BY <1>i, <2>1 DEF BeginTask, CallInv, TasksShape
  <2> QED BY <1>b, <2>1, <2>2 DEF Invoking, Key
<1>10. CASE SkipDependents \/ Settle
  <2>1. call = NoCall /\ (call' = NoCall \/ UNCHANGED call) /\ pc' \in {"settle", "error", "idle", "synthesize"}
    BY <1>10, <1>i DEF SkipDependents, Settle, Fails, Goto, CallInv, CallShape, InCall
  <2> QED BY <2>1 DEF CallWorks, NoCall
<1>11. CASE Synthesize
  <2>1. CASE OpenKeys # {}
    <3> DEFINE first == CHOOSE k \in OpenKeys : TRUE
    <3>1. first \in OpenKeys /\ TakeUp(first, TRUE) /\ pc = "synthesize"
      BY <1>11, <2>1 DEF Synthesize
    <3> HIDE DEF first
    <3>2. first[2] = 0
      BY <1>i, <3>1 DEF CallInv, CallFits, Late
    <3>3. call'.key = first /\ call'.guarded = FALSE
      BY <3>1 DEF TakeUp
    <3> QED BY <3>2, <3>3 DEF CallWorks
  <2>2. CASE OpenKeys = {}
    BY <1>11, <2>2 DEF Synthesize, Invoking, Key, CallWorks
  <2> QED BY <2>1, <2>2
<1>12. CASE AppliesStep
  <2>1. CASE pc' = "invoke"
    <3>1. call'.key[2] = call.key[2] /\ call.key[2] \in Tasks
      BY <1>i, <1>12, <2>1, AppliesGoesOn DEF GoesOn
    <3>2. UNCHANGED tasks /\ tasks[call.key[2]] = "in_progress"
      BY <1>i, <1>12, <2>1, GoesOnWorking
    <3> QED BY <1>b, <2>1, <3>1, <3>2
  <2>2. CASE pc' # "invoke"
    BY <1>i, <1>12, <1>a, <2>2, AppliesGoesOn DEF GoesOn, InCall
  <2> QED BY <2>1, <2>2
<1>13. CASE Restart
  <2>1. call' = NoCall /\ pc' \notin InCall
    BY <1>i, <1>13, RestartEffect, RestartFits DEF ParkedAtStart, TakenUpAtStart, NotDueAtStart, InCall
  <2> QED BY <1>a, <2>1
<1>14. CASE UNCHANGED vars
  <2>1. UNCHANGED <<call, tasks, pc, ops>>
    BY <1>14 DEF vars
  <2> QED BY <1>i, <2>1 DEF CallWorks, Is
<1> QED BY <1>1, <1>2, <1>3, <1>4, <1>5, <1>6, <1>7, <1>8, <1>9, <1>10, <1>11, <1>12, <1>13, <1>14,
        StepKinds DEF QuietStep

LEMMA OpenWorksStep == WorkInv /\ [Next]_vars => OpenWorks'
<1> SUFFICES ASSUME WorkInv, [Next]_vars, NEW k \in OpenKeys', k[2] # 0
             PROVE  /\ ops'[k].st = "prepared" =>
                         /\ \/ tasks'[k[2]] = "in_progress"
                            \/ tasks'[k[2]] = "failed" /\ Rebuilt(k)' # ops'[k].about
                         /\ pc' = "error" => ~call'.guarded /\ Rebuilt(k)' # ops'[k].about
                         /\ run' # "waiting_for_user"
                    /\ ops'[k].st = "waiting" => tasks'[k[2]] = "waiting_for_provider"
  BY DEF OpenWorks, Working
<1> DEFINE Goal == /\ ops'[k].st = "prepared" =>
                         /\ \/ tasks'[k[2]] = "in_progress"
                            \/ tasks'[k[2]] = "failed" /\ Rebuilt(k)' # ops'[k].about
                         /\ pc' = "error" => ~call'.guarded /\ Rebuilt(k)' # ops'[k].about
                         /\ run' # "waiting_for_user"
                   /\ ops'[k].st = "waiting" => tasks'[k[2]] = "waiting_for_provider"
<1> USE DEF Working
<1>i. CallInv /\ CallWorks /\ OpenWorks /\ RunWorks
  BY DEF WorkInv
<1>o. ASSUME NEW l \in OpenKeys PROVE l \in DOMAIN ops /\ (l[2] # 0 => l[2] \in Tasks)
  BY <1>i, <1>o, ExecutionConstants DEF CallInv, OpsShape, OpenKeys, IsKey, Tasks
<1>s. UNCHANGED ops => k \in OpenKeys
  BY DEF OpenKeys
<1>c. pc \in InCall => call.guarded \in BOOLEAN
  BY <1>i DEF CallInv, CallShape
\* nothing the row depends on has changed
<1>a. ASSUME UNCHANGED <<ops, tasks, rounds, reinv, stored, resolved>>, pc' # "error" \/ UNCHANGED <<pc, call>>,
             run' # "waiting_for_user" \/ UNCHANGED run
      PROVE  Goal
  BY <1>a, <1>i, <1>s, RebuiltStays DEF OpenWorks
\* the call is answered, or there is none
<1>b. ASSUME ops'[k].st \notin {"prepared", "waiting"} PROVE Goal
  BY <1>b
<1>n. ASSUME OpenKeys = {}, UNCHANGED ops PROVE Goal
  BY <1>n, <1>s
<1>f. pc \in Free => OpenKeys = {}
  BY <1>i DEF CallInv, CallFits
<1>l. pc \in Late /\ UNCHANGED ops => FALSE
  BY <1>i, <1>s DEF CallInv, CallFits
<1>1. CASE Invoke
  <2>1. pc = "invoke" /\ OpenKeys = {} /\ UNCHANGED <<tasks, run, call>>
    BY <1>1, <1>i, InvokeEffect DEF Invoke
  <2>2. CASE UNCHANGED ops
    BY <1>n, <2>1, <2>2
  <2>3. CASE Reserved(call.key) /\ pc' = "call"
    <3>1. k = call.key /\ ops'[k].st = "prepared"
      BY <2>1, <2>3 DEF Reserved, OpenKeys
    <3>2. tasks[k[2]] = "in_progress" /\ run \in {"running", "summarizing"}
      BY <2>1, <3>1, <1>i DEF CallWorks, RunWorks, Rest
    <3> QED BY <2>1, <2>3, <3>1, <3>2
  <2> QED BY <1>1, <1>i, <2>2, <2>3, InvokeEffect
<1>2. CASE MarkFailed \/ RefuseFutileRetry \/ \E a \in Answers(call.key, call.about) : Complete(a)
  <2>1. k \in OpenKeys /\ k = call.key
    <3>1. CASE MarkFailed \/ RefuseFutileRetry
      BY <1>i, <3>1, DropEffect DEF Moved, OpenKeys, OpenOp, CallInv, OneOpen, Is
    <3>2. ASSUME NEW a \in Answers(call.key, call.about), Complete(a) PROVE k \in OpenKeys /\ k = call.key
      BY <1>i, <3>2, CompleteEffect DEF Stored, OpenKeys, OpenOp, CallInv, OneOpen, Is
    <3> QED BY <1>2, <3>1, <3>2
  <2>2. ops'[k].st \in {"failed", "completed"}
    <3>1. CASE MarkFailed \/ RefuseFutileRetry
      <4>1. Moved(call.key, "failed")
        BY <1>i, <3>1, DropEffect
      <4> QED BY <2>1, <4>1 DEF Moved
    <3>2. ASSUME NEW a \in Answers(call.key, call.about), Complete(a) PROVE ops'[k].st = "completed"
      <4>1. Stored(call.key, a)
        BY <1>i, <3>2, CompleteEffect
      <4> QED BY <2>1, <4>1 DEF Stored
    <3> QED BY <1>2, <3>1, <3>2
  <2> QED BY <1>b, <2>2
<1>3. CASE Repair \/ RepairSynthesis \/ Consume \/ Raise
  <2>1. pc \in Free /\ UNCHANGED ops
    BY <1>3 DEF Repair, RepairSynthesis, Consume, Raise, Free
  <2> QED BY <1>f, <1>n, <2>1
<1>4. CASE RefuseEffect
  <2>1. pc = "apply" /\ UNCHANGED ops
    BY <1>4 DEF RefuseEffect
  <2>2. k \in OpenKeys /\ Is(call.key, "completed")
    BY <1>i, <1>s, <2>1 DEF CallInv, CallFits
  <2>3. k = call.key
    BY <1>i, <2>2 DEF CallInv, OneOpen, OpenKeys, OpenOp, Is
  <2> QED BY <1>b, <2>1, <2>2, <2>3 DEF Is
<1>5. CASE Error
  <2>1. pc = "error" /\ UNCHANGED <<ops, rounds, reinv, stored, resolved>> /\ pc' # "error"
    BY <1>5 DEF Error, counters, questions, Goto
  <2>2. k \in OpenKeys /\ k[2] \in Tasks /\ ops[k].st # "waiting" /\ run \in {"running", "summarizing"}
    BY <1>s, <1>o, <1>i, <2>1 DEF CallInv, CallFits, Rest, RunWorks
  <2>3. CASE ops[k].st = "prepared"
    <3>1. ~call.guarded /\ Rebuilt(k) # ops[k].about
      BY <1>i, <2>1, <2>2, <2>3 DEF OpenWorks
    <3>2. /\ run' = "failed"
          /\ tasks' = [t \in Tasks |-> IF tasks[t] = "in_progress" THEN "failed" ELSE tasks[t]]
      BY <1>5, <3>1 DEF Error
    <3>3. tasks[k[2]] \in {"in_progress", "failed"}
      BY <1>i, <2>2, <2>3 DEF OpenWorks
    <3> QED BY <2>1, <2>2, <3>1, <3>2, <3>3, RebuiltStays
  <2> QED BY <1>b, <2>1, <2>2, <2>3
<1>6. CASE Publish \/ SettleQuestions \/ SkipDependents \/ Settle \/ Synthesize
  BY <1>6, <1>l DEF Publish, SettleQuestions, SkipDependents, Settle, Synthesize, Late
<1>7. CASE RecoverOpen
  <2> DEFINE first == CHOOSE l \in OpenKeys : TRUE
  <2>1. /\ first \in OpenKeys /\ TakeUpInLoop(first)
        /\ UNCHANGED <<ops, tasks, rounds, reinv, stored, resolved, run>> /\ pc = "loop"
    BY <1>7 DEF RecoverOpen, counters, questions
  <2> HIDE DEF first
  <2>2. k = first /\ ops[first].st # "waiting"
    BY <1>i, <1>s, <2>1 DEF CallInv, OneOpen, CallFits, Rest
  <2>3. CASE first[1] \in Syntheses
    BY <1>a, <2>1, <2>3 DEF TakeUpInLoop, Goto
  <2>4. CASE first[1] \notin Syntheses
    <3>1. call'.guarded = FALSE /\ (pc' = "error" => ~Recoverable(first))
      <4>1. Recoverable(first) \in BOOLEAN
        BY DEF Recoverable
      <4> QED BY <1>i, <2>1, <2>2, <2>4, <4>1, TakeUpEffect DEF TakeUpInLoop, CallInv
    <3>2. ops[k].st = "prepared" /\ pc' = "error" => Rebuilt(k) # ops[k].about
      BY <2>2, <3>1 DEF Recoverable
    <3> QED BY <1>i, <1>s, <2>1, <2>2, <3>1, <3>2, RebuiltStays DEF OpenWorks
  <2> QED BY <2>3, <2>4
<1>8. CASE Chain \/ StartTask \/ LeaveLoop
  BY <1>8, <1>n DEF Chain, StartTask, LeaveLoop
<1>9. CASE AppliesStep
  <2>1. OpenKeys' = {}
    BY <1>i, <1>9, AppliesStepEffect, AppliesCloses
  <2> QED BY <2>1
<1>10. CASE Restart
  <2>1. UNCHANGED <<rounds, reinv, stored, resolved, call>> /\ pc = "down"
    BY <1>10, <1>i, RestartEffect DEF counters
  <2>2. ASSUME NEW l \in OpenKeys, ParkedAtStart(l) PROVE Goal
    <3>1. k = l /\ ops'[k].st = "waiting" /\ k[2] \in Tasks
      BY <1>i, <1>o, <2>2 DEF ParkedAtStart, Moved, OpenKeys, CallInv, OneOpen, Is
    <3> QED BY <2>2, <3>1 DEF ParkedAtStart
  <2>3. CASE TakenUpAtStart
    BY <1>a, <2>1, <2>3 DEF TakenUpAtStart
  <2>4. CASE NotDueAtStart
    <3>1. k \in OpenKeys /\ ops[k].st = "waiting" /\ UNCHANGED <<ops, tasks>>
      BY <1>s, <2>4 DEF NotDueAtStart
    <3> QED BY <1>i, <3>1 DEF OpenWorks
  <2> QED BY <1>10, <1>i, <2>2, <2>3, <2>4, RestartEffect
<1>11. CASE Park
  <2>1. k = call.key /\ ops'[k].st = "waiting" /\ call.key \in OpenKeys
    BY <1>11, <1>i, ParkEffect DEF Moved, OpenKeys, OpenOp, CallInv, OneOpen, Is
  <2>2. tasks'[k[2]] = "waiting_for_provider"
    BY <1>11, <1>o, <2>1 DEF Park
  <2> QED BY <2>1, <2>2
<1>12. CASE Crash \/ UserResumes
  <2>1. UNCHANGED <<ops, tasks, rounds, reinv, stored, resolved>> /\ pc' # "error"
    BY <1>12 DEF Crash, UserResumes, Goto, counters, questions
  <2>2. run' # "waiting_for_user" \/ UNCHANGED run
    BY <1>12 DEF Crash, UserResumes
  <2> QED BY <1>a, <2>1, <2>2
<1>13. CASE Reclaim
  <2>1. PICK l \in OpenKeys :
          /\ Is(l, "waiting") /\ Moved(l, "prepared")
          /\ tasks' = [t \in Tasks |-> IF t = l[2] THEN "in_progress" ELSE tasks[t]]
    BY <1>13, <1>i, ReclaimEffect
  <2>2. k = l /\ k[2] \in Tasks /\ ops'[k].st = "prepared"
    BY <1>i, <1>o, <2>1 DEF Moved, OpenKeys, CallInv, OneOpen
  <2>3. pc' = "loop" /\ run' = "running"
    BY <1>13 DEF Reclaim, Goto
  <2> QED BY <2>1, <2>2, <2>3
<1>14. CASE UserAnswers
  <2>1. UNCHANGED ops /\ run = "waiting_for_user" /\ tasks' = Released /\ k \in OpenKeys
    BY <1>14, <1>s DEF UserAnswers
  <2>2. ops[k].st # "prepared" /\ k[2] \in Tasks
    BY <1>i, <1>o, <2>1 DEF OpenWorks
  <2>3. ops[k].st = "waiting" => tasks'[k[2]] = "waiting_for_provider"
    BY <1>i, <2>1, <2>2 DEF OpenWorks, Released
  <2> QED BY <2>1, <2>2, <2>3
<1>15. CASE UNCHANGED vars
  <2>1. UNCHANGED <<ops, tasks, rounds, reinv, stored, resolved, pc, call, run>>
    BY <1>15 DEF vars
  <2> QED BY <1>a, <2>1
<1> QED BY <1>1, <1>2, <1>3, <1>4, <1>5, <1>6, <1>7, <1>8, <1>9, <1>10, <1>11, <1>12, <1>13, <1>14,
        <1>15, StepKinds DEF QuietStep

LEMMA WorkInvInit == Init => WorkInv
<1> SUFFICES ASSUME Init PROVE WorkInv
  OBVIOUS
<1>1. OpenKeys = {}
  BY DEF Init, OpenKeys
<1> QED BY <1>1, CallInvInit DEF Init, WorkInv, CallWorks, OpenWorks, RunWorks, NoCall

LEMMA WorkInvStep == WorkInv /\ [Next]_vars => WorkInv'
BY CallInvStep, CallWorksStep, OpenWorksStep, RunStep DEF WorkInv

\* what team_lifecycle.py allows and the coroutine does
LEMMA TransitionKinds ==
  /\ \A s : CanTransition(s, s)
  /\ CanTransition("pending", "in_progress") /\ CanTransition("pending", "skipped")
  /\ \A s \in {"waiting_for_user", "waiting_for_provider", "completed", "blocked", "failed"} :
       CanTransition("in_progress", s)
  /\ CanTransition("waiting_for_user", "pending")
  /\ CanTransition("waiting_for_provider", "in_progress")
<1>1. {"pending", "in_progress", "waiting_for_user", "waiting_for_provider"} \subseteq TaskStatus
      /\ TerminalTask \cap {"pending", "in_progress", "waiting_for_user", "waiting_for_provider"} = {}
  BY DEF TaskStatus, TerminalTask
<1> QED BY <1>1 DEF CanTransition, TaskTransitions

\* What a step makes of one task.
Started(t) == tasks[t] = "pending" /\ tasks'[t] = "in_progress" /\ (Chain \/ StartTask)
Skipped(t) == tasks[t] = "pending" /\ tasks'[t] = "skipped" /\ SkipDependents /\ t \in Skippable
Stopped(t) ==
  Working(t) /\ tasks'[t] \in {"failed", "blocked", "waiting_for_provider"}
Suspended(t) == Working(t) /\ tasks'[t] = "pending" /\ pc = "down" /\ Restart
Resumed(t) == tasks[t] = "waiting_for_provider" /\ tasks'[t] = "in_progress" /\ Reclaim
\* a call that an error of the run left behind is parked at the next start
ParkedLate(t) ==
  tasks[t] = "failed" /\ tasks'[t] = "waiting_for_provider" /\ pc = "down" /\ Restart
Delivered(t) ==
  /\ ApplyOutcome /\ t = call.key[2] /\ Working(t) /\ ~Replayed
  /\ AsContracted(t, ops[call.key].answer) /\ tasks'[t] = "completed"
Asked(t) ==
  /\ MediationAsksUser \/ ReviewAsksUser
  /\ t = call.key[2] /\ Working(t) /\ tasks'[t] = "waiting_for_user"
Told(t) == tasks[t] = "waiting_for_user" /\ tasks'[t] = "pending" /\ UserAnswers

TaskMove(t) ==
  \/ tasks'[t] = tasks[t]
  \/ Started(t) \/ Skipped(t) \/ Stopped(t) \/ Suspended(t) \/ Resumed(t) \/ ParkedLate(t)
  \/ Delivered(t) \/ Asked(t) \/ Told(t)

LEMMA TaskMoves ==
  ASSUME WorkInv, [Next]_vars, NEW t \in Tasks
  PROVE  TaskMove(t)
<1> USE DEF Working
<1>i. CallInv /\ CallWorks /\ OpenWorks /\ tasks \in [Tasks -> TaskStatus]
  BY DEF WorkInv, CallInv, TasksShape
<1>u. UNCHANGED tasks => TaskMove(t)
  BY DEF TaskMove
<1>f. ASSUME NEW u, Working(u), NEW s \in {"blocked", "failed"}, tasks' = [tasks EXCEPT ![u] = s]
      PROVE  TaskMove(t)
  BY <1>f, <1>i DEF TaskMove, Stopped
<1>b. ASSUME NEW u, BeginTask(u), tasks[u] \in {"pending", "in_progress"}, Chain \/ StartTask
      PROVE  TaskMove(t)
  BY <1>b, <1>i DEF BeginTask, TaskMove, Started
<1>a. ASSUME Working(call.key[2]), AsksUser(call.key[2]), MediationAsksUser \/ ReviewAsksUser
      PROVE  TaskMove(t)
  BY <1>a, <1>i DEF AsksUser, TaskMove, Asked
<1>1. CASE KeepsTables
  BY <1>1, <1>u DEF KeepsTables
<1>2. CASE Error
  <2>1. CASE call.guarded
    BY <1>2, <1>f, <1>i, <2>1 DEF Error, FinishTask, CallWorks
  <2>2. CASE ~call.guarded
    BY <1>2, <2>2 DEF Error, TaskMove, Stopped
  <2> QED BY <2>1, <2>2
<1>3. CASE Consume
  BY <1>3, <1>u DEF Consume
<1>4. CASE Chain
  <2> DEFINE u == Min(Chained)
  <2>1. u \in Chained /\ BeginTask(u)
    BY <1>4, MinIsIn DEF Chain, Chained
  <2> HIDE DEF u
  <2>2. tasks[u] \in {"pending", "in_progress"}
    BY <2>1 DEF Chained, UserDecided, ReviewDue, ReviewGiven
  <2> QED BY <1>4, <1>b, <2>1, <2>2
<1>5. CASE StartTask
  <2> DEFINE u == Min(Ready)
  <2>1. u \in Ready /\ BeginTask(u)
    BY <1>5, MinIsIn DEF StartTask, Ready
  <2> HIDE DEF u
  <2> QED BY <1>5, <1>b, <2>1 DEF Ready
<1>6. CASE SkipDependents
  <2>1. tasks'[t] = IF t \in Skippable THEN "skipped" ELSE tasks[t]
    BY <1>6 DEF SkipDependents
  <2>2. t \in Skippable => tasks[t] = "pending"
    BY DEF Skippable
  <2> QED BY <1>6, <2>1, <2>2 DEF TaskMove, Skipped
<1>7. CASE Restart
  <2>0. pc = "down"
    BY <1>7, <1>i, RestartEffect
  <2>1. ASSUME NEW k \in OpenKeys, ParkedAtStart(k) PROVE TaskMove(t)
    <3>1. /\ ops[k].st = "prepared"
          /\ tasks'[t] = IF t = k[2] THEN "waiting_for_provider" ELSE tasks[t]
      BY <2>1 DEF ParkedAtStart, Is
    <3>2. t = k[2] => tasks[t] \in {"in_progress", "failed"}
      BY <3>1, <1>i, ExecutionConstants DEF OpenWorks, Tasks
    <3> QED BY <1>7, <2>0, <3>1, <3>2 DEF TaskMove, Stopped, ParkedLate
  <2>2. CASE TakenUpAtStart \/ NotDueAtStart
    <3>1. UNCHANGED tasks \/ tasks' = Interrupted
      BY <2>2 DEF TakenUpAtStart, NotDueAtStart
    <3> QED BY <1>7, <2>0, <3>1, <1>u DEF Interrupted, TaskMove, Suspended
  <2> QED BY <1>7, <1>i, <2>1, <2>2, RestartEffect
<1>8. CASE Park
  <2>1. pc = "call" /\ tasks' = [v \in Tasks |-> IF v = call.key[2] THEN "waiting_for_provider" ELSE tasks[v]]
    BY <1>8 DEF Park
  <2>2. t = call.key[2] => tasks[t] = "in_progress"
    BY <1>i, <2>1, ExecutionConstants DEF CallWorks, Tasks
  <2> QED BY <2>1, <2>2 DEF TaskMove, Stopped
<1>9. CASE Reclaim
  <2>1. PICK k \in OpenKeys :
          /\ ops[k].st = "waiting"
          /\ tasks' = [v \in Tasks |-> IF v = k[2] THEN "in_progress" ELSE tasks[v]]
    BY <1>9 DEF Reclaim
  <2>2. t = k[2] => tasks[t] = "waiting_for_provider"
    BY <1>i, <2>1, ExecutionConstants DEF OpenWorks, Tasks
  <2> QED BY <1>9, <2>1, <2>2 DEF TaskMove, Resumed
<1>10. CASE UserAnswers
  BY <1>10 DEF UserAnswers, Released, TaskMove, Told
<1>11. CASE ApplyQuery \/ ApplyMediation \/ ApplyConsult \/ ApplyReview \/ ApplySynthesis
            \/ ApplySynthesisDecision
  BY <1>11, <1>u DEF ApplyQuery, ApplyMediation, ApplyConsult, Tell, ApplyReview, ApplySynthesis,
                     ApplySynthesisDecision
<1>12. CASE ApplyOutcome
  <2> DEFINE verdict == Verdict(call.key[2], ops[call.key].answer)
  <2>1. /\ call.key[1] \in Workers /\ ops[call.key].answer \notin Queries /\ IsKey(call.key) /\ Fits
    BY <1>12, <1>i, AppliesEffect, StageKinds DEF ApplyOutcome
  <2>2. OutcomeFits(call.key[2])
    BY <2>1, FitsEffect, StageKinds
  <2>3. CASE verdict = "review"
    BY <1>12, <1>u, <2>3 DEF ApplyOutcome
  <2>4. CASE verdict # "review"
    <3>1. /\ Working(call.key[2]) /\ ~Replayed
          /\ tasks' = [tasks EXCEPT ![call.key[2]] = verdict]
      BY <1>12, <2>2, <2>4 DEF ApplyOutcome, OutcomeFits, FinishTask
    <3>2. CASE verdict \in {"blocked", "failed"}
      BY <1>f, <3>1, <3>2
    <3>3. CASE verdict = "completed"
      <4>1. AsContracted(call.key[2], ops[call.key].answer)
        BY <3>3 DEF Verdict
      <4> HIDE DEF verdict
      <4> QED BY <1>12, <1>i, <3>1, <3>3, <4>1 DEF TaskMove, Delivered
    <3> QED BY <2>4, <3>2, <3>3, VerdictKinds
  <2> QED BY <2>3, <2>4
<1>13. CASE MediationAsksUser
  <2>1. Working(call.key[2])
    BY <1>13, <1>i, AppliesEffect, FitsEffect DEF MediationAsksUser, Mediations, RoundFits
  <2> QED BY <1>13, <1>a, <2>1 DEF MediationAsksUser
<1>14. CASE ReviewAsksUser
  <2>1. Working(call.key[2])
    BY <1>14, <1>i, AppliesEffect, FitsEffect DEF ReviewAsksUser, ReviewFits
  <2> QED BY <1>14, <1>a, <2>1 DEF ReviewAsksUser
<1>15. CASE ReviewGivesUp
  <2>1. Working(call.key[2])
    BY <1>15, <1>i, AppliesEffect, FitsEffect DEF ReviewGivesUp, ReviewFits
  <2> QED BY <1>15, <1>f, <2>1 DEF ReviewGivesUp, FinishTask
<1> QED BY <1>1, <1>2, <1>3, <1>4, <1>5, <1>6, <1>7, <1>8, <1>9, <1>10, <1>11, <1>12, <1>13, <1>14,
        <1>15, QuietTables, StepKinds DEF QuietStep, AppliesStep

LEMMA LegalStep ==
  ASSUME WorkInv, Next, pc # "down", NEW t \in Tasks
  PROVE  CanTransition(tasks[t], tasks'[t])
<1>1. TaskMove(t)
  BY TaskMoves
<1> QED BY <1>1, TransitionKinds DEF TaskMove, Started, Skipped, Stopped, Suspended, Resumed,
        ParkedLate, Delivered, Asked, Told, Working

\* No part of the coroutine that writes the status of a task - the effects, the loop, the
\* errors, the parked calls, the user's answer - makes a transition that
\* team_lifecycle.py does not have, though none of them asks it.
THEOREM StatusesMoveLegally == Spec => LegalTransitions
<1>1. WorkInv /\ [Next]_vars => [pc # "down" => \A t \in Tasks : CanTransition(tasks[t], tasks'[t])]_vars
  BY LegalStep
<1> QED BY <1>1, WorkInvInit, WorkInvStep, PTL DEF Spec, LegalTransitions

\* Both together: no step does to a task or to a call what the rules do not allow.
THEOREM StepsStayLegal == Spec => StepsAreLegal
BY StatusesMoveLegally, LedgerIsShared DEF StepsAreLegal

-----------------------------------------------------------------------------
(* What stays of a row, and which calls are applied after a step.           *)

\* A key, a request and a number are never changed, an answer not after it was stored,
\* nothing of a call that was applied or dropped.
RowsStay ==
  \A k \in DOMAIN ops :
    /\ k \in DOMAIN ops' /\ ops'[k].about = ops[k].about /\ ops'[k].no = ops[k].no
    /\ ops[k].st \in {"applied", "failed"} => ops'[k] = ops[k]
    /\ ops[k].st = "completed" => /\ ops'[k].st \in {"completed", "applied"}
                                  /\ ops'[k].answer = ops[k].answer

LEMMA RowsStayStep == ASSUME CallInv, [Next]_vars PROVE RowsStay
<1>1. CASE UNCHANGED ops
  BY <1>1 DEF RowsStay
<1>2. CASE Reserved(call.key)
  BY <1>2 DEF RowsStay, Reserved
<1>3. ASSUME NEW k \in DOMAIN ops, NEW to \in Statuses, <<ops[k].st, to>> \in Transitions,
             Moved(k, to)
      PROVE  RowsStay
  BY <1>3 DEF RowsStay, Moved, Transitions
<1>4. ASSUME NEW a, Is(call.key, "prepared"), Stored(call.key, a) PROVE RowsStay
  BY <1>4 DEF RowsStay, Stored, Is
<1> QED BY <1>1, <1>2, <1>3, <1>4, CallInvStep DEF OpsStep

LEMMA AppliedStay ==
  ASSUME CallInv, [Next]_vars, ~AppliesStep
  PROVE  AppliedKeys' = AppliedKeys
<1>m. ASSUME NEW k \in DOMAIN ops, NEW to, Moved(k, to), ops[k].st # "applied", to # "applied"
      PROVE  AppliedKeys' = AppliedKeys
  BY <1>m DEF AppliedKeys, Moved
<1>u. UNCHANGED ops => AppliedKeys' = AppliedKeys
  BY DEF AppliedKeys
<1>1. CASE Invoke
  BY <1>1, <1>u, InvokeEffect DEF Reserved, AppliedKeys
<1>2. CASE MarkFailed \/ RefuseFutileRetry
  BY <1>2, <1>m, DropEffect DEF Is
<1>3. ASSUME NEW a \in Answers(call.key, call.about), Complete(a) PROVE AppliedKeys' = AppliedKeys
  <2>1. Is(call.key, "prepared") /\ Stored(call.key, a)
    BY <1>3, CompleteEffect
  <2> QED BY <2>1 DEF Stored, AppliedKeys, Is
<1>4. CASE QuietStep \/ Crash \/ UserResumes \/ UserAnswers \/ UNCHANGED vars
  BY <1>4, <1>u, QuietOps DEF vars
<1>5. CASE Restart
  <2>1. ASSUME NEW k \in OpenKeys, ParkedAtStart(k) PROVE AppliedKeys' = AppliedKeys
    BY <2>1, <1>m DEF ParkedAtStart, Is
  <2> QED BY <1>5, <1>u, <2>1, RestartEffect DEF TakenUpAtStart, NotDueAtStart
<1>6. CASE Park
  BY <1>6, <1>m, ParkEffect DEF Is
<1>7. CASE Reclaim
  BY <1>7, <1>m, ReclaimEffect DEF Is
<1> QED BY <1>1, <1>2, <1>3, <1>4, <1>5, <1>6, <1>7, StepKinds

\* An effect adds its call to those applied, or is applied again.
LEMMA AppliedGrow ==
  ASSUME CallInv, NEW stages, NEW answers, Applies(stages, answers)
  PROVE  /\ AppliedKeys' = AppliedKeys \cup {call.key}
         /\ Replayed <=> call.key \in AppliedKeys
         /\ call.key \in DOMAIN ops /\ ops'[call.key].answer = ops[call.key].answer
         /\ ops'[call.key].no = ops[call.key].no /\ ops'[call.key].about = ops[call.key].about
         /\ ops[call.key].st \in {"completed", "applied"}
         /\ \A l \in AppliedKeys : ops'[l] = ops[l]
<1>1. CASE Is(call.key, "completed") /\ Moved(call.key, "applied") /\ ~Replayed
  BY <1>1 DEF AppliedKeys, Moved, Is, Replayed
<1>2. CASE Is(call.key, "applied") /\ UNCHANGED ops /\ Replayed
  BY <1>2 DEF AppliedKeys, Is, Replayed
<1> QED BY <1>1, <1>2, AppliesEffect

LEMMA AppliedFinite ==
  ASSUME OpsShape, NEW S \in SUBSET AppliedKeys
  PROVE  IsFiniteSet(S) /\ Cardinality(S) \in Nat
BY FS_Subset, FS_CardinalityType DEF OpsShape, AppliedKeys

-----------------------------------------------------------------------------
(* Budgets                                                                  *)

Helps == {k \in AppliedKeys : k[1] \in Mediations}
Spent(t) == Answered(Of(AppliedKeys, Reviews, t), Again)

\* A round counts each help once: the help of a round carries its number.
BudgetInv ==
  /\ rounds = Cardinality(Helps) /\ rounds <= Rounds
  /\ \A k \in Helps : k[3] \in Nat /\ k[3] <= rounds
  /\ \A t \in Tasks : Cardinality(Spent(t)) <= attempts[t] /\ attempts[t] <= Cap

LEMMA BudgetInit == Init => BudgetInv
<1> SUFFICES ASSUME Init PROVE BudgetInv
  OBVIOUS
<1>1. Helps = {} /\ \A t \in Tasks : Spent(t) = {} /\ attempts[t] = 0
  BY DEF Init, Helps, Spent, AppliedKeys, Answered, Of
<1>2. 0 <= Rounds /\ 0 <= Cap /\ 0 <= 0 /\ rounds = 0
  BY ExecutionConstants DEF Init
<1> QED BY <1>1, <1>2, FS_EmptySet DEF BudgetInv

LEMMA BudgetStep == CallInv /\ BudgetInv /\ [Next]_vars => BudgetInv'
<1> SUFFICES ASSUME CallInv, BudgetInv, [Next]_vars PROVE BudgetInv'
  OBVIOUS
<1>i. OpsShape /\ attempts \in [Tasks -> Nat] /\ rounds \in Nat
  BY DEF CallInv, TasksShape
<1>n. Rounds \in Nat /\ Cap \in Nat
  BY ExecutionConstants
<1>t. /\ \A m \in Nat : m <= m + 1
      /\ \A l, m \in Nat : l <= m => l + 1 <= m + 1 /\ l <= m + 1
      /\ \A m, n \in Nat : m < n => m + 1 <= n
  OBVIOUS
<1>c. Cardinality(Helps) \in Nat /\ \A t \in Tasks : Cardinality(Spent(t)) \in Nat
  BY <1>i, AppliedFinite DEF Helps, Spent, Answered, Of
\* what the step makes of the two sets
<1>h. ASSUME Helps' = Helps, UNCHANGED rounds PROVE (BudgetInv!1)' /\ (BudgetInv!2)'
  BY <1>h DEF BudgetInv
<1>s. ASSUME \A t \in Tasks : Spent(t)' = Spent(t), UNCHANGED attempts PROVE (BudgetInv!3)'
  BY <1>s DEF BudgetInv
<1>1. CASE ~AppliesStep
  <2>1. AppliedKeys' = AppliedKeys /\ \A k \in AppliedKeys : ops'[k] = ops[k]
    BY <1>1, AppliedStay, RowsStayStep DEF RowsStay, AppliedKeys
  <2>2. Helps' = Helps /\ \A t \in Tasks : Spent(t)' = Spent(t)
    BY <2>1 DEF Helps, Spent, Answered, Of
  <2>3. CASE UNCHANGED <<attempts, rounds>>
    BY <2>2, <2>3, <1>h, <1>s DEF BudgetInv
  <2>4. CASE Consume
    <3>1. UNCHANGED rounds
      BY <2>4 DEF Consume
    <3>2. CASE UNCHANGED attempts
      BY <2>2, <3>1, <3>2, <1>h, <1>s DEF BudgetInv
    <3>3. CASE attempts' = [attempts EXCEPT ![call.key[2]] = @ + 1] /\ ~(attempts[call.key[2]] >= Cap)
      <4>1. ASSUME NEW t \in Tasks PROVE Cardinality(Spent(t))' <= attempts'[t] /\ attempts'[t] <= Cap
        <5>1. Cardinality(Spent(t)) <= attempts[t] /\ attempts[t] <= Cap /\ attempts[t] \in Nat
              /\ Cardinality(Spent(t)) \in Nat
          BY <1>i, <1>c DEF BudgetInv
        <5>2. Cardinality(Spent(t))' = Cardinality(Spent(t))
          BY <2>2
        <5>3. CASE t = call.key[2]
          <6>1. attempts'[t] = attempts[t] + 1 /\ ~(attempts[t] >= Cap)
            BY <1>i, <3>3, <5>3
          <6> QED BY <5>1, <5>2, <6>1, <1>n
        <5>4. CASE t # call.key[2]
          BY <1>i, <3>3, <5>1, <5>2, <5>4
        <5> QED BY <5>3, <5>4
      <4> QED BY <2>2, <3>1, <4>1, <1>h DEF BudgetInv
    <3> QED BY <2>4, <3>2, <3>3 DEF Consume
  <2>5. Consume \/ UNCHANGED <<attempts, rounds>>
    BY <1>1, StepKinds, RestartEffect, QuietTables DEF QuietStep, KeepsTables, counters, Error, Chain, StartTask,
       SkipDependents, Park, Reclaim, UserAnswers
  <2> QED BY <2>3, <2>4, <2>5
\* an effect that is no review's retry leaves the attempts alone, and their sets
<1>a. ASSUME NEW stages, NEW answers, Applies(stages, answers), UNCHANGED attempts,
             stages \cap Reviews = {} \/ answers \cap Again = {}
      PROVE  (BudgetInv!3)'
  <2>1. /\ AppliedKeys' = AppliedKeys \cup {call.key} /\ (\A l \in AppliedKeys : ops'[l] = ops[l])
        /\ ops'[call.key].answer = ops[call.key].answer
    BY <1>a, AppliedGrow
  <2>2. call.key[1] \notin Reviews \/ ops'[call.key].answer \notin Again
    BY <1>a, <2>1, AppliesEffect
  <2>3. \A t \in Tasks : Spent(t)' = Spent(t)
    BY <2>1, <2>2 DEF Spent, Answered, Of, AppliedKeys
  <2> QED BY <1>a, <1>s, <2>3
<1>b. ASSUME NEW stages, NEW answers, Applies(stages, answers), UNCHANGED rounds, stages \cap Mediations = {}
      PROVE  (BudgetInv!1)' /\ (BudgetInv!2)'
  <2>1. AppliedKeys' = AppliedKeys \cup {call.key} /\ call.key[1] \notin Mediations
    BY <1>b, AppliedGrow, AppliesEffect
  <2>2. Helps' = Helps
    BY <2>1 DEF Helps
  <2> QED BY <1>b, <1>h, <2>2
<1>d. ASSUME NEW stages \in SUBSET Mediations, NEW answers, Applies(stages, answers), CountRound(call.key[3])
      PROVE  (BudgetInv!1)' /\ (BudgetInv!2)'
  <2>1. /\ AppliedKeys' = AppliedKeys \cup {call.key} /\ call.key[1] \in Mediations
        /\ call.key \in AppliedKeys <=> Replayed
    BY <1>d, AppliedGrow, AppliesEffect
  <2>2. rounds + 1 = call.key[3] /\ rounds < Rounds
    BY <1>d, <2>1, AppliesEffect, FitsEffect DEF RoundFits
  <2>3. call.key \notin Helps
    BY <2>2, <1>i DEF BudgetInv
  <2>4. Helps' = Helps \cup {call.key}
    BY <2>1 DEF Helps
  <2>5. Cardinality(Helps') = Cardinality(Helps) + 1
    BY <1>i, <2>3, <2>4, AppliedFinite, FS_AddElement DEF Helps
  <2>6. rounds' = rounds + 1
    BY <1>d, <2>2 DEF CountRound
  <2>7. rounds' = Cardinality(Helps') /\ rounds' <= Rounds
    BY <2>2, <2>5, <2>6, <1>i, <1>n, <1>t DEF BudgetInv
  <2>8. \A k \in Helps' : k[3] \in Nat /\ k[3] <= rounds'
    BY <2>2, <2>4, <2>6, <1>i, <1>t DEF BudgetInv
  <2> QED BY <2>7, <2>8 DEF BudgetInv
<1>e. Mediations \cap Workers = {} /\ Mediations \cap Reviews = {} /\ Mediations \cap Syntheses = {}
      /\ Workers \cap Reviews = {} /\ Reviews \cap Syntheses = {} /\ Asks \cap Again = {}
      /\ {"fail"} \cap Again = {} /\ {"mediation_lead"} \in SUBSET Mediations
      /\ {"consult_peer"} \in SUBSET Mediations /\ {"mediation_lead"} \cap Reviews = {}
      /\ {"consult_peer"} \cap Reviews = {}
  BY DEF Mediations, Workers, Reviews, Syntheses, Asks, Again
<1>j. (BudgetInv!1)' /\ (BudgetInv!2)' /\ (BudgetInv!3)' => BudgetInv'
  BY DEF BudgetInv
<1>2. CASE ApplyQuery \/ ApplyOutcome
  BY <1>2, <1>a, <1>b, <1>e, <1>j DEF ApplyQuery, ApplyOutcome
<1>3. CASE ApplyMediation \/ ApplyConsult \/ MediationAsksUser
  BY <1>3, <1>a, <1>d, <1>e, <1>j DEF ApplyMediation, ApplyConsult, MediationAsksUser, Tell
<1>4. CASE ReviewAsksUser \/ ReviewGivesUp
  BY <1>4, <1>a, <1>b, <1>e, <1>j DEF ReviewAsksUser, ReviewGivesUp, counters
<1>5. CASE ApplySynthesis \/ ApplySynthesisDecision
  BY <1>5, <1>a, <1>b, <1>e, <1>j DEF ApplySynthesis, ApplySynthesisDecision, counters
<1>6. CASE ApplyReview
  <2>1. Applies(Reviews, Again) /\ UNCHANGED rounds /\ attempts' = [attempts EXCEPT ![call.key[2]] = call.key[3]]
    BY <1>6 DEF ApplyReview
  <2>2. (BudgetInv!1)' /\ (BudgetInv!2)'
    BY <2>1, <1>b, <1>e
  <2>3. /\ AppliedKeys' = AppliedKeys \cup {call.key} /\ (\A l \in AppliedKeys : ops'[l] = ops[l])
        /\ call.key \in DOMAIN ops
    BY <2>1, AppliedGrow
  <2>4. /\ call.key[2] \in Tasks /\ attempts[call.key[2]] + 1 = call.key[3] /\ call.key[3] <= Cap
    <3>1. call.key[1] \in Reviews /\ ops[call.key].answer \in Again /\ IsKey(call.key) /\ Fits
      BY <2>1, AppliesEffect
    <3> QED BY <3>1, FitsEffect, StageKinds DEF ReviewFits
  <2>5. ASSUME NEW t \in Tasks PROVE Cardinality(Spent(t))' <= attempts'[t] /\ attempts'[t] <= Cap
    <3>1. Cardinality(Spent(t)) <= attempts[t] /\ attempts[t] <= Cap /\ attempts[t] \in Nat
          /\ Cardinality(Spent(t)) \in Nat
      BY <1>i, <1>c DEF BudgetInv
    <3>2. CASE t # call.key[2]
      <4>1. Spent(t)' = Spent(t)
        BY <2>3, <3>2 DEF Spent, Answered, Of, AppliedKeys
      <4> QED BY <2>1, <3>1, <3>2, <4>1, <1>i
    <3>3. CASE t = call.key[2]
      <4>0. PICK k : k = call.key
        OBVIOUS
      <4>1. Spent(t)' = Spent(t) \/ Spent(t)' = Spent(t) \cup {k}
        BY <2>3, <4>0 DEF Spent, Answered, Of, AppliedKeys
      <4>2. IsFiniteSet(Spent(t))
        BY <1>i, AppliedFinite DEF Spent, Answered, Of
      <4>3. Cardinality(Spent(t))' \in {Cardinality(Spent(t)), Cardinality(Spent(t)) + 1}
        BY <4>1, <4>2, FS_AddElement
      <4>4. attempts'[t] = attempts[t] + 1 /\ attempts'[t] <= Cap
        BY <2>1, <2>4, <3>3, <1>i
      <4> QED BY <3>1, <4>3, <4>4, <1>t
    <3> QED BY <3>2, <3>3
  <2> QED BY <2>2, <2>5 DEF BudgetInv
<1> QED BY <1>1, <1>2, <1>3, <1>4, <1>5, <1>6 DEF AppliesStep

\* The rounds and the attempts are what was spent, never more than the budgets allow:
\* no replay, no restart and no second review of the same outcome counts a help twice
\* or takes one that is not counted.
THEOREM BudgetsStayCounted == Spec => []BudgetsAreCounted
<1>1. CallInv /\ BudgetInv => BudgetsAreCounted
  BY DEF BudgetInv, BudgetsAreCounted, Helps, Spent
<1> QED BY <1>1, CallInvInit, CallInvStep, BudgetInit, BudgetStep, PTL DEF Spec

-----------------------------------------------------------------------------
(* Types                                                                    *)

RunStatus == {"running", "summarizing", "interrupted", "waiting_for_user",
              "waiting_for_provider", "completed", "completed_with_failures", "failed", "blocked"}

\* The operations are numbered in the order they were made, the open one is the newest.
NumbersFit ==
  /\ \A k \in DOMAIN ops : ops[k].no \in 1 .. Cardinality(DOMAIN ops)
  /\ \A k, l \in DOMAIN ops : ops[k].no = ops[l].no => k = l
  /\ \A k \in OpenKeys : ops[k].no = Cardinality(DOMAIN ops)

\* A task holds an outcome of its own that was applied.
StoredFits ==
  \A t \in Tasks : stored[t] # NoKey =>
    /\ Is(stored[t], "applied") /\ stored[t][2] = t /\ stored[t][1] \in Workers
    /\ ops[stored[t]].answer \in Outcomes

QuestionsFit ==
  /\ request \in {"none", "collecting", "awaiting"}
  /\ items \cup resolved \subseteq DOMAIN ops \cup {System}

WorldFits ==
  plan \in Plans /\ left \subseteq Tasks /\ run \in RunStatus /\ mishaps \in 0 .. MaxMishaps

TableInv == NumbersFit /\ StoredFits /\ QuestionsFit /\ WorldFits

LEMMA NumbersStep ==
  ASSUME CallInv, NumbersFit, [Next]_vars
  PROVE  NumbersFit'
<1> DEFINE N == Cardinality(DOMAIN ops)
<1>i. OpsShape /\ OneOpen /\ OpsStep
  BY CallInvStep DEF CallInv
<1>n. N \in Nat /\ IsFiniteSet(DOMAIN ops)
  BY <1>i, FS_CardinalityType DEF OpsShape
<1>a. ASSUME DOMAIN ops' = DOMAIN ops, OpenKeys' \subseteq OpenKeys, \A k \in DOMAIN ops : ops'[k].no = ops[k].no
      PROVE  NumbersFit'
  BY <1>a DEF NumbersFit, OpenKeys
<1>1. CASE OpenKeys = {} /\ Reserved(call.key)
  <2>k. PICK k : k = call.key
    OBVIOUS
  <2>1. /\ k \notin DOMAIN ops /\ DOMAIN ops' = DOMAIN ops \cup {k} /\ ops'[k].no = N + 1
        /\ \A l \in DOMAIN ops : ops'[l] = ops[l]
    BY <1>1, <2>k DEF Reserved
  <2>2. Cardinality(DOMAIN ops') = N + 1
    BY <1>n, <2>1, FS_AddElement
  <2>3. OpenKeys' \subseteq {k}
    BY <1>1, <2>1 DEF OpenKeys
  <2>4. \A l \in DOMAIN ops : ops'[l].no \in 1 .. N /\ ops'[l].no = ops[l].no
    BY <2>1 DEF NumbersFit
  <2> HIDE DEF N
  <2>5. \A x \in 1 .. N : x \in 1 .. N + 1 /\ x # N + 1
    BY <1>n
  <2>6. N + 1 \in 1 .. N + 1
    BY <1>n
  <2>7. \A l \in DOMAIN ops' : ops'[l].no \in 1 .. N + 1
    BY <2>1, <2>4, <2>5, <2>6
  <2>8. \A l, m \in DOMAIN ops' : ops'[l].no = ops'[m].no => l = m
    BY <2>1, <2>4, <2>5 DEF NumbersFit
  <2>9. \A l \in OpenKeys' : ops'[l].no = N + 1
    BY <2>1, <2>3
  <2> QED BY <2>2, <2>7, <2>8, <2>9 DEF NumbersFit
<1>2. CASE UNCHANGED ops
  BY <1>2, <1>a DEF OpenKeys
<1>3. ASSUME NEW k \in DOMAIN ops, NEW to \in Statuses, Moved(k, to), Tabular
      PROVE  DOMAIN ops' = DOMAIN ops /\ \A l \in DOMAIN ops : ops'[l].no = ops[l].no
  BY <1>3 DEF Moved
<1>4. ASSUME NEW a, Stored(call.key, a)
      PROVE  DOMAIN ops' = DOMAIN ops /\ \A l \in DOMAIN ops : ops'[l].no = ops[l].no
  BY <1>4 DEF Stored
<1>5. ASSUME DOMAIN ops' = DOMAIN ops PROVE OpenKeys' \subseteq OpenKeys
  <2>1. ~Reserved(call.key)
    BY <1>5 DEF Reserved
  <2> QED BY <1>i, <2>1, OpsStepEffect
<1> HIDE DEF N
<1> QED BY <1>i, <1>1, <1>2, <1>3, <1>4, <1>5, <1>a DEF OpsStep

LEMMA StoredStep ==
  ASSUME CallInv, StoredFits, [Next]_vars
  PROVE  StoredFits'
<1>r. \A k : Is(k, "applied") => Is(k, "applied")' /\ ops'[k] = ops[k]
  BY RowsStayStep DEF RowsStay, Is
<1>a. ASSUME UNCHANGED stored PROVE StoredFits'
  BY <1>a, <1>r DEF StoredFits
<1>1. CASE ApplyOutcome
  <2>k. PICK k : k = call.key
    OBVIOUS
  <2>1. /\ k[2] \in Tasks /\ k[1] \in Workers /\ ops[k].answer \in Outcomes
        /\ stored' = [stored EXCEPT ![k[2]] = k]
    <3>1. Applies(Workers, Outcomes) /\ stored' = [stored EXCEPT ![call.key[2]] = call.key]
      BY <1>1 DEF ApplyOutcome
    <3>2. IsKey(call.key) /\ call.key[1] \in Workers /\ Fits /\ ops[call.key].answer \in Outcomes
      BY <3>1, AppliesEffect
    <3> QED BY <2>k, <3>1, <3>2, FitsEffect, StageKinds
  <2>2. Is(k, "applied")' /\ ops'[k].answer = ops[k].answer
    <3>1. call.key \in AppliedKeys' /\ ops'[call.key].answer = ops[call.key].answer
      BY <1>1, AppliedGrow DEF ApplyOutcome
    <3> QED BY <3>1, <2>k DEF AppliedKeys, Is
  <2>3. ASSUME NEW t \in Tasks, stored'[t] # NoKey
        PROVE  \E l : /\ l = stored'[t] /\ Is(l, "applied")' /\ l[2] = t /\ l[1] \in Workers
                      /\ ops'[l].answer \in Outcomes
    <3>1. PICK l : l = stored'[t]
      OBVIOUS
    <3>2. l = IF t = k[2] THEN k ELSE stored[t]
      BY <2>1, <3>1 DEF CallInv, TasksShape
    <3>3. CASE t = k[2]
      BY <2>1, <2>2, <3>1, <3>2, <3>3
    <3>4. CASE t # k[2]
      <4>1. l = stored[t] /\ l # NoKey
        BY <2>3, <3>1, <3>2, <3>4
      <4>2. Is(l, "applied") /\ l[2] = t /\ l[1] \in Workers /\ ops[l].answer \in Outcomes
        BY <4>1 DEF StoredFits
      <4>3. Is(l, "applied")' /\ ops'[l] = ops[l]
        BY <4>2, <1>r
      <4> QED BY <3>1, <4>2, <4>3
    <3> QED BY <3>3, <3>4
  <2>4. StoredFits'
    <3> SUFFICES ASSUME NEW t \in Tasks, stored'[t] # NoKey
                 PROVE  /\ stored'[t] \in DOMAIN ops' /\ ops'[stored'[t]].st = "applied"
                        /\ stored'[t][2] = t /\ stored'[t][1] \in Workers
                        /\ ops'[stored'[t]].answer \in Outcomes
      BY DEF StoredFits, Is
    <3> QED BY <2>3 DEF Is
  <2> QED BY <2>4
<1>2. CASE ~ApplyOutcome
  <2>1. UNCHANGED stored
    BY <1>2, StepKinds, QuietTables, RestartEffect
       DEF QuietStep, AppliesStep, KeepsTables, Error, Consume, Chain, StartTask, SkipDependents,
           Park, Reclaim, UserAnswers, ApplyQuery, ApplyMediation, ApplyConsult, Tell,
           MediationAsksUser, ApplyReview, ReviewAsksUser, ReviewGivesUp, ApplySynthesis,
           ApplySynthesisDecision, counters
  <2> QED BY <1>a, <2>1
<1> QED BY <1>1, <1>2

LEMMA QuestionsStep ==
  ASSUME CallInv, QuestionsFit, [Next]_vars
  PROVE  QuestionsFit'
<1>d. DOMAIN ops \subseteq DOMAIN ops'
  BY RowsStayStep DEF RowsStay
<1>a. ASSUME UNCHANGED <<items, resolved>>, request' \in {request, "collecting", "awaiting"}
      PROVE  QuestionsFit'
  BY <1>a, <1>d DEF QuestionsFit
<1>b. ASSUME NEW stages, NEW answers, Applies(stages, answers), AppendItem, UNCHANGED resolved
      PROVE  QuestionsFit'
  BY <1>b, <1>d, AppliesEffect DEF QuestionsFit, AppendItem
<1>1. CASE AppliesStep
  <2>1. CASE MediationAsksUser \/ ReviewAsksUser \/ ApplySynthesisDecision
    BY <2>1, <1>b DEF MediationAsksUser, ReviewAsksUser, ApplySynthesisDecision, AsksUser
  <2>2. CASE UNCHANGED questions
    BY <2>2, <1>a DEF questions
  <2> QED BY <1>1, <2>1, <2>2 DEF AppliesStep, ApplyQuery, ApplyOutcome, ApplyMediation,
             ApplyConsult, Tell, ApplyReview, ReviewGivesUp, ApplySynthesis
<1>2. CASE Raise
  BY <1>2, <1>d DEF Raise, QuestionsFit
<1>3. CASE Publish
  BY <1>3, <1>a DEF Publish
<1>4. CASE Restart
  BY <1>4, <1>a, RestartEffect DEF ParkedAtStart, TakenUpAtStart, NotDueAtStart, PublishAtStart
<1>5. CASE UserAnswers
  BY <1>5, <1>d DEF UserAnswers, QuestionsFit
<1>6. CASE UNCHANGED questions
  BY <1>6, <1>a DEF questions
<1>7. \/ AppliesStep \/ Raise \/ Publish \/ Restart \/ UserAnswers \/ UNCHANGED questions
  BY StepKinds DEF QuietStep, Invoke, MarkFailed, RefuseFutileRetry, Complete, Repair,
     RepairSynthesis, Error, Consume, RefuseEffect, RecoverOpen, Chain, StartTask, LeaveLoop,
     SettleQuestions, SkipDependents, Settle, Synthesize, Park, Crash, Reclaim, UserResumes, vars,
     questions
<1> QED BY <1>1, <1>2, <1>3, <1>4, <1>5, <1>6, <1>7

LEMMA EndKinds ==
  /\ \A states, required, deps :
       Disposition(states, required, deps) \in
         {"failed", "incomplete", "blocked", "unresolved", "completed_with_failures", "completed"}
  /\ \A states, required :
       EffectStatus(states, required) \in
         {"conflict", "failed", "blocked", "completed", "completed_with_failures"}
<1>1. ASSUME NEW states, NEW required, NEW deps
      PROVE  Disposition(states, required, deps) \in
               {"failed", "incomplete", "blocked", "unresolved", "completed_with_failures", "completed"}
  BY DEF Disposition
<1>2. ASSUME NEW states, NEW required
      PROVE  EffectStatus(states, required) \in
               {"conflict", "failed", "blocked", "completed", "completed_with_failures"}
  BY DEF EffectStatus
<1> QED BY <1>1, <1>2

LEMMA WorldStep ==
  ASSUME CallInv, WorldFits, [Next]_vars
  PROVE  WorldFits'
<1>a. ASSUME UNCHANGED <<plan, mishaps>>, left' \subseteq Tasks, run' \in RunStatus PROVE WorldFits'
  BY <1>a DEF WorldFits
<1>r. {"running", "summarizing", "interrupted", "waiting_for_user", "waiting_for_provider",
       "failed", "blocked", "completed", "completed_with_failures"} \subseteq RunStatus
  BY DEF RunStatus
<1>1. CASE \/ Invoke \/ MarkFailed \/ RefuseFutileRetry \/ Repair \/ RepairSynthesis \/ Consume
           \/ Raise \/ RefuseEffect \/ RecoverOpen \/ Chain \/ StartTask \/ LeaveLoop
           \/ SettleQuestions \/ SkipDependents \/ Synthesize
  BY <1>1, <1>a DEF WorldFits, Invoke, MarkFailed, RefuseFutileRetry, Repair, RepairSynthesis,
     Consume, Raise, RefuseEffect, RecoverOpen, Chain, StartTask, LeaveLoop, SettleQuestions,
     SkipDependents, Synthesize, contract
<1>2. CASE Error \/ Publish
  <2>1. UNCHANGED <<plan, mishaps, left>> /\ run' \in {run, "failed", "waiting_for_user"}
    BY <1>2 DEF Error, Publish, contract
  <2> QED BY <2>1, <1>a, <1>r DEF WorldFits
<1>3. ASSUME NEW a \in Answers(call.key, call.about), Complete(a) PROVE WorldFits'
  <2>1. left' \in FilesAfter(call.key, a) /\ UNCHANGED <<plan, run, mishaps>>
    BY <1>3 DEF Complete
  <2>2. call.key[1] \in Workers => call.key[2] \in Tasks
    BY <1>3, CompleteEffect, StageKinds, ExecutionConstants DEF IsKey, Tasks
  <2>3. left' \subseteq Tasks
    BY <2>1, <2>2 DEF WorldFits, FilesAfter
  <2> QED BY <2>1, <2>3, <1>a DEF WorldFits
<1>4. CASE Settle
  <2>1. UNCHANGED <<plan, mishaps, left>> /\ run' \in {run, "failed", "blocked", "summarizing"}
    BY <1>4 DEF Settle, contract
  <2> QED BY <2>1, <1>a, <1>r DEF WorldFits
<1>5. CASE ApplySynthesis
  <2>1. SynthesisFits
    BY <1>5, AppliesEffect, FitsEffect DEF ApplySynthesis
  <2>2. run' = EffectStatus(tasks, plan.required) /\ UNCHANGED <<plan, mishaps, left>>
    BY <1>5 DEF ApplySynthesis, contract
  <2>3. run' \in {"failed", "blocked", "completed", "completed_with_failures"}
    BY <2>1, <2>2, EndKinds DEF SynthesisFits
  <2> QED BY <2>2, <2>3, <1>a, <1>r DEF WorldFits
<1>6. CASE AppliesStep /\ ~ApplySynthesis
  <2>1. UNCHANGED <<plan, mishaps, left, run>>
    BY <1>6 DEF AppliesStep, ApplyQuery, ApplyOutcome, ApplyMediation, ApplyConsult, Tell,
                MediationAsksUser, ApplyReview, ReviewAsksUser, ReviewGivesUp,
                ApplySynthesisDecision, contract
  <2> QED BY <2>1, <1>a DEF WorldFits
<1>7. CASE Restart
  <2>1. UNCHANGED <<plan, left, mishaps>>
    BY <1>7, RestartEffect DEF contract
  <2>2. run' \in {run, "running", "waiting_for_user", "waiting_for_provider", "interrupted"}
    BY <1>7, RestartEffect DEF ParkedAtStart, TakenUpAtStart, NotDueAtStart, PublishAtStart
  <2> QED BY <2>1, <2>2, <1>a, <1>r DEF WorldFits
<1>8. CASE Reclaim \/ UserResumes \/ UserAnswers
  <2>1. UNCHANGED <<plan, left, mishaps>> /\ run' = "running"
    BY <1>8 DEF Reclaim, UserResumes, UserAnswers, contract
  <2> QED BY <2>1, <1>a, <1>r DEF WorldFits
<1>9. CASE Park \/ Crash
  <2>1. /\ UNCHANGED <<plan, left>> /\ run' \in {run, "waiting_for_provider"}
        /\ mishaps' = mishaps + 1 /\ mishaps < MaxMishaps
    BY <1>9 DEF Park, Crash, contract
  <2>2. mishaps' \in 0 .. MaxMishaps
    BY <2>1, ExecutionConstants DEF WorldFits
  <2> QED BY <2>1, <2>2, <1>r DEF WorldFits
<1>10. CASE UNCHANGED vars
  BY <1>10, <1>a DEF vars, WorldFits
<1> QED BY <1>1, <1>2, <1>3, <1>4, <1>5, <1>6, <1>7, <1>8, <1>9, <1>10, StepKinds DEF QuietStep

LEMMA TableInit == Init => TableInv
<1> SUFFICES ASSUME Init PROVE TableInv
  OBVIOUS
<1>1. DOMAIN ops = {} /\ \A t \in Tasks : stored[t] = NoKey
  BY DEF Init
<1>2. 0 \in 0 .. MaxMishaps
  BY ExecutionConstants
<1> QED BY <1>1, <1>2 DEF Init, TableInv, NumbersFit, OpenKeys, StoredFits, QuestionsFit, WorldFits,
        RunStatus

LEMMA TableStep == CallInv /\ TableInv /\ [Next]_vars => TableInv'
BY NumbersStep, StoredStep, QuestionsStep, WorldStep DEF TableInv

\* Ledger, tables and coroutine stay well typed, for every plan and every budget.
THEOREM ExecutionTypes == Spec => []TypeOK
<1>1. CallInv /\ TableInv /\ BudgetInv => TypeOK
  <2> SUFFICES ASSUME CallInv, TableInv, BudgetInv PROVE TypeOK
    OBVIOUS
  <2>1. \A k \in DOMAIN ops :
          /\ ops[k].st \in OpStatus /\ ops[k].no \in 1 .. Cardinality(DOMAIN ops)
          /\ ops[k].answer \in {"none"} \cup Parsed(k[1], ops[k].about)
    BY DEF CallInv, OpsShape, IsRow, Statuses, OpStatus, TableInv, NumbersFit
  <2>2. attempts \in [Tasks -> 0 .. Cap]
    <3>1. \A t \in Tasks : attempts[t] \in 0 .. Cap
      BY ExecutionConstants DEF CallInv, TasksShape, BudgetInv
    <3> QED BY <3>1 DEF CallInv, TasksShape
  <2>3. rounds \in 0 .. Rounds
    BY ExecutionConstants DEF CallInv, TasksShape, BudgetInv
  <2>4. \A t \in Tasks : stored[t] = NoKey \/ stored[t] \in DOMAIN ops
    BY DEF TableInv, StoredFits, Is
  <2> QED BY <2>1, <2>2, <2>3, <2>4 DEF TypeOK, CallInv, TasksShape, TableInv, QuestionsFit,
          WorldFits, RunStatus
<1> QED BY <1>1, CallInvInit, CallInvStep, BudgetInit, BudgetStep, TableInit, TableStep, PTL DEF Spec

-----------------------------------------------------------------------------
(* Earned statuses.  A completed task is frozen: nothing of its own is      *)
(* applied, stored or left any more.                                        *)

Extras(t) == Answered(Of(AppliedKeys, Workers, t), {"extra"})

\* Only a file that an outcome was rejected for is admitted.
AdmitNeedsExtra ==
  \A k \in DOMAIN ops : k[1] \in Reviews /\ ops[k].answer = "admit" => Extras(k[2]) # {}

\* A repair is made of a review that was asked for.
RepairsReview ==
  /\ \A k \in DOMAIN ops : k[1] \in Reviews => Key("acceptance_lead", k[2], k[3]) \in DOMAIN ops
  /\ call.key[1] = "acceptance_lead_repair" =>
       Key("acceptance_lead", call.key[2], call.key[3]) \in DOMAIN ops

EarnedInv == AdmitNeedsExtra /\ RepairsReview /\ (request = "none" => items = {}) /\ StatusIsEarned

\* what a task's applied calls answered, as long as none is added, or with those added
LEMMA OwnCalls ==
  ASSUME CallInv, [Next]_vars, NEW t, NEW stages, NEW kinds
  PROVE  /\ Answered(Of(AppliedKeys, stages, t), kinds) \subseteq
              Answered(Of(AppliedKeys, stages, t), kinds)'
         /\ Of(AppliedKeys, stages, t)' = Of(AppliedKeys, stages, t) =>
              Answered(Of(AppliedKeys, stages, t), kinds)' = Answered(Of(AppliedKeys, stages, t), kinds)
<1>1. \A k \in AppliedKeys : k \in AppliedKeys' /\ ops'[k] = ops[k]
  BY RowsStayStep DEF RowsStay, AppliedKeys
<1>2. \A k \in Of(AppliedKeys, stages, t) : k \in AppliedKeys
  BY DEF Of
<1> QED BY <1>1, <1>2 DEF Answered, Of

\* Which calls of a task a step applies: its task is in progress.
LEMMA OwnApplied ==
  ASSUME WorkInv, [Next]_vars, NEW t \in Tasks, ~Working(t)
  PROVE  \A stages : Of(AppliedKeys, stages, t)' = Of(AppliedKeys, stages, t)
<1>i. CallInv
  BY DEF WorkInv
<1>1. CASE ~AppliesStep
  BY <1>1, <1>i, AppliedStay DEF Of
<1>2. CASE AppliesStep
  <2>1. PICK stages, answers : Applies(stages, answers)
    BY <1>2, <1>i, AppliesStepEffect
  <2>2. AppliedKeys' = AppliedKeys \cup {call.key} /\ (Replayed <=> call.key \in AppliedKeys)
    BY <1>i, <2>1, AppliedGrow
  <2>3. IsKey(call.key) /\ Fits
    BY <1>i, <2>1, AppliesEffect
  <2>4. call.key[2] # t \/ Replayed
    <3>1. CASE call.key[1] \in Workers
      BY <2>3, <3>1, FitsEffect DEF OutcomeFits
    <3>2. CASE call.key[1] \in Mediations
      BY <2>3, <3>2, FitsEffect DEF RoundFits
    <3>3. CASE call.key[1] \in Reviews
      BY <2>3, <3>3, FitsEffect DEF ReviewFits
    <3>4. CASE call.key[1] \in Syntheses
      BY <2>3, <3>4, ExecutionConstants DEF IsKey, Tasks
    <3> QED BY <2>3, <3>1, <3>2, <3>3, <3>4 DEF IsKey, Stages
  <2> QED BY <2>2, <2>4 DEF Of
<1> QED BY <1>1, <1>2

LEMMA StoredMoves ==
  ASSUME CallInv, [Next]_vars, NEW t \in Tasks, stored'[t] # stored[t]
  PROVE  ApplyOutcome /\ call.key[2] = t /\ stored'[t] = call.key /\ ~Replayed /\ Working(t)
<1>1. ApplyOutcome
  BY StepKinds, QuietTables, RestartEffect
     DEF QuietStep, AppliesStep, KeepsTables, Error, Consume, Chain, StartTask, SkipDependents,
         Park, Reclaim, UserAnswers, ApplyQuery, ApplyMediation, ApplyConsult, Tell,
         MediationAsksUser, ApplyReview, ReviewAsksUser, ReviewGivesUp, ApplySynthesis,
         ApplySynthesisDecision, counters
<1>2. stored' = [stored EXCEPT ![call.key[2]] = call.key] /\ Applies(Workers, Outcomes)
  BY <1>1 DEF ApplyOutcome
<1>3. call.key[2] = t /\ stored'[t] = call.key
  BY <1>2 DEF CallInv, TasksShape
<1>4. call.key[1] \in Workers /\ ops[call.key].answer \notin Queries /\ IsKey(call.key) /\ Fits
  BY <1>2, AppliesEffect, StageKinds
<1>5. OutcomeFits(t)
  BY <1>3, <1>4, FitsEffect, StageKinds
<1> QED BY <1>1, <1>3, <1>5 DEF OutcomeFits

LEMMA LeftMoves ==
  ASSUME WorkInv, [Next]_vars, NEW t \in Tasks, ~Working(t)
  PROVE  t \in left' <=> t \in left
<1>1. CASE UNCHANGED left
  BY <1>1
<1>2. ASSUME NEW a \in Answers(call.key, call.about), Complete(a) PROVE t \in left' <=> t \in left
  <2>1. left' \in FilesAfter(call.key, a) /\ pc = "call"
    BY <1>2 DEF Complete
  <2>2. call.key[2] # t
    BY <2>1, ExecutionConstants DEF WorkInv, CallWorks, Tasks
  <2> QED BY <2>1, <2>2 DEF FilesAfter
<1>3. UNCHANGED left \/ \E a \in Answers(call.key, call.about) : Complete(a)
  BY StepKinds, RestartEffect
     DEF WorkInv, QuietStep, AppliesStep, Invoke, MarkFailed, RefuseFutileRetry, Repair, RepairSynthesis, Error,
         Consume, Raise, Publish, RefuseEffect, RecoverOpen, Chain, StartTask, LeaveLoop,
         SettleQuestions, SkipDependents, Settle, Synthesize, Park, Crash, Reclaim, UserResumes,
         UserAnswers, ApplyQuery, ApplyOutcome, ApplyMediation, ApplyConsult, Tell,
         MediationAsksUser, ApplyReview, ReviewAsksUser, ReviewGivesUp, ApplySynthesis,
         ApplySynthesisDecision, contract, vars
<1> QED BY <1>1, <1>2, <1>3

LEMMA AdmitStep ==
  ASSUME CallInv, AdmitNeedsExtra, [Next]_vars
  PROVE  AdmitNeedsExtra'
<1> SUFFICES ASSUME NEW k \in DOMAIN ops', k[1] \in Reviews, ops'[k].answer = "admit"
             PROVE  Extras(k[2])' # {}
  BY DEF AdmitNeedsExtra
<1>1. Extras(k[2]) \subseteq Extras(k[2])'
  BY OwnCalls DEF Extras
<1>2. CASE k \in DOMAIN ops /\ ops[k].answer = "admit"
  BY <1>1, <1>2 DEF AdmitNeedsExtra
<1>3. CASE k \notin DOMAIN ops \/ ops[k].answer # "admit"
  <2>1. ASSUME NEW l \in DOMAIN ops, NEW to, Moved(l, to) PROVE FALSE
    BY <1>3, <2>1 DEF Moved
  <2>2. ~Reserved(call.key)
    BY <1>3 DEF Reserved
  <2>3. ops' # ops
    BY <1>3
  <2>4. ~Invoke /\ ~MarkFailed /\ ~RefuseFutileRetry /\ ~Park /\ ~Reclaim
    BY <2>1, <2>2, <2>3, InvokeEffect, DropEffect, ParkEffect, ReclaimEffect DEF Is, OpenKeys
  <2>5. ~QuietStep /\ ~Crash /\ ~UserResumes /\ ~UserAnswers /\ ~UNCHANGED vars
    BY <2>3, QuietOps DEF vars
  <2>6. ~AppliesStep
    BY <2>1, <2>3, AppliesStepEffect, AppliesEffect
  <2>7. ~Restart
    <3>1. \A l \in OpenKeys : ~ParkedAtStart(l)
      BY <2>1 DEF ParkedAtStart, OpenKeys
    <3> QED BY <2>3, <3>1, RestartEffect DEF TakenUpAtStart, NotDueAtStart
  <2>8. PICK a \in Answers(call.key, call.about) : Complete(a)
    BY <2>4, <2>5, <2>6, <2>7, StepKinds
  <2>9. Stored(call.key, a)
    BY <2>8, CompleteEffect
  <2>10. k = call.key /\ a = "admit"
    BY <1>3, <2>9 DEF Stored
  <2>11. Blamed(k[2])
    BY <2>8, <2>10 DEF Complete
  <2>12. Extras(k[2]) # {}
    BY <2>11 DEF Blamed, Extras
  <2> QED BY <1>1, <2>12
<1> QED BY <1>2, <1>3

\* The call the coroutine is at after a step: that of before, none, an open one, or a new
\* one, which repairs a review only if that was not parsed.
LEMMA NextCall ==
  ASSUME CallInv, [Next]_vars
  PROVE  \/ UNCHANGED call
         \/ call' = NoCall
         \/ call'.key \in OpenKeys
         \/ call'.key[1] # "acceptance_lead_repair"
         \/ /\ call'.key = Key("acceptance_lead_repair", call.key[2], call.key[3])
            /\ call.key[1] = "acceptance_lead" /\ Is(call.key, "failed") /\ IsKey(call.key)
<1>a. ASSUME NEW stage, NEW t, NEW n, NEW about, NEW g, Invoking(Key(stage, t, n), about, g),
             stage # "acceptance_lead_repair"
      PROVE  call'.key[1] # "acceptance_lead_repair"
  BY <1>a DEF Invoking, Key
<1>1. CASE \/ Invoke \/ MarkFailed \/ RefuseFutileRetry \/ Error \/ Consume \/ Raise \/ Publish
           \/ RefuseEffect \/ LeaveLoop \/ SettleQuestions \/ SkipDependents \/ Settle \/ Park
           \/ Crash \/ Reclaim \/ UserResumes \/ UserAnswers \/ UNCHANGED vars
           \/ \E a \in Answers(call.key, call.about) : Complete(a)
  BY <1>1 DEF Invoke, MarkFailed, RefuseFutileRetry, Error, Consume, Raise, Publish, RefuseEffect,
     LeaveLoop, SettleQuestions, SkipDependents, Settle, Park, Crash, Reclaim, UserResumes,
     UserAnswers, Complete, vars, Goto, Fails
<1>2. CASE Restart
  BY <1>2, RestartFits
<1>3. CASE Repair
  <2>1. pc = "invalid" /\ Is(call.key, "failed") /\ IsKey(call.key)
    BY <1>3 DEF Repair, CallInv, CallFits, CallShape, InCall
  <2>2. \/ UNCHANGED call
        \/ Invoking(Key("worker", call.key[2], 1), call.about, call.guarded)
        \/ /\ call.key[1] = "acceptance_lead"
           /\ Invoking(Key("acceptance_lead_repair", call.key[2], call.key[3]), <<"repair", 0>>,
                       call.guarded)
        \/ Invoking(Key("acceptance_worker_repair", call.key[2], call.key[3]), <<"repair", 0>>,
                    call.guarded)
    BY <1>3 DEF Repair, Fails
  <2> QED BY <1>a, <2>1, <2>2 DEF Invoking
<1>4. CASE RepairSynthesis
  <2>1. \/ UNCHANGED call
        \/ Invoking(Key("synthesis_repair", 0, call.key[3]), <<"repair", 0>>, FALSE)
    BY <1>4 DEF RepairSynthesis, Fails
  <2> QED BY <1>a, <2>1
<1>5. CASE RecoverOpen \/ Synthesize
  <2> DEFINE first == CHOOSE k \in OpenKeys : TRUE
  <2>1. CASE OpenKeys = {}
    BY <1>5, <1>a, <2>1 DEF RecoverOpen, Synthesize
  <2>2. CASE OpenKeys # {}
    <3>1. first \in OpenKeys /\ (TakeUpInLoop(first) \/ TakeUp(first, TRUE))
      BY <1>5, <2>2 DEF RecoverOpen, Synthesize
    <3> HIDE DEF first
    <3> QED BY <3>1 DEF TakeUpInLoop, TakeUp, Goto
  <2> QED BY <2>1, <2>2
<1>6. CASE Chain
  <2> DEFINE t == Min(Chained)  last == Last(t)
  <2>1. t \in Chained
    BY <1>6, MinIsIn DEF Chain, Chained
  <2>2. \/ Review(t, FALSE)
        \/ Invoking(Key(IF last[1] \in Reviews THEN "acceptance_worker" ELSE "mediation_worker",
                        t, last[3]), <<"user", 0>>, FALSE)
        \/ HaveItDone(t, last[3])
        \/ Fails
    BY <1>6, <2>1 DEF Chain, Chained
  <2> HIDE DEF t, last
  <2> QED BY <1>a, <2>2 DEF Review, HaveItDone, Fails
<1>7. CASE StartTask
  BY <1>7, <1>a DEF StartTask
<1>8. CASE AppliesStep
  <2>1. \/ call' = NoCall
        \/ \E stage \in {"mediation_worker", "consult_peer", "mediation_lead", "acceptance_lead",
                         "acceptance_worker"} : \E n, about :
             Invoking(Key(stage, call.key[2], n), about, call.guarded)
    <3>1. CASE ApplyQuery
      BY <3>1 DEF ApplyQuery, Mediate, Respondent
    <3>2. CASE ApplyOutcome
      BY <3>2 DEF ApplyOutcome, Review, Goto
    <3>3. CASE ApplyMediation \/ ApplyConsult
      BY <3>3 DEF ApplyMediation, ApplyConsult, Tell
    <3>4. CASE ApplyReview
      BY <3>4 DEF ApplyReview, HaveItDone
    <3>5. CASE MediationAsksUser \/ ReviewAsksUser \/ ReviewGivesUp \/ ApplySynthesis
               \/ ApplySynthesisDecision
      BY <3>5 DEF MediationAsksUser, ReviewAsksUser, ReviewGivesUp, ApplySynthesis,
                  ApplySynthesisDecision, AsksUser, Goto
    <3> QED BY <1>8, <3>1, <3>2, <3>3, <3>4, <3>5 DEF AppliesStep
  <2> QED BY <1>a, <2>1
<1> QED BY <1>1, <1>2, <1>3, <1>4, <1>5, <1>6, <1>7, <1>8, StepKinds DEF QuietStep

LEMMA RepairsStep ==
  ASSUME CallInv, RepairsReview, [Next]_vars
  PROVE  RepairsReview'
<1>d. DOMAIN ops \subseteq DOMAIN ops'
  BY RowsStayStep DEF RowsStay
<1>1. ASSUME NEW k \in DOMAIN ops', k[1] \in Reviews
      PROVE  Key("acceptance_lead", k[2], k[3]) \in DOMAIN ops'
  <2>1. CASE k \in DOMAIN ops
    BY <1>1, <1>d, <2>1 DEF RepairsReview
  <2>2. CASE k \notin DOMAIN ops
    <3>1. k = call.key /\ DOMAIN ops' = DOMAIN ops \cup {k} /\ IsKey(k)
      <4>1. OpsStep /\ OpsShape'
        BY CallInvStep DEF CallInv
      <4> QED BY <2>2, <4>1 DEF OpsStep, Reserved, Moved, Stored, OpsShape
    <3>2. CASE k[1] = "acceptance_lead"
      BY <3>1, <3>2 DEF IsKey, Key
    <3>3. CASE k[1] = "acceptance_lead_repair"
      BY <1>d, <3>1, <3>3 DEF RepairsReview
    <3> QED BY <1>1, <3>2, <3>3 DEF Reviews
  <2> QED BY <2>1, <2>2
<1>2. ASSUME call'.key[1] = "acceptance_lead_repair"
      PROVE  Key("acceptance_lead", call'.key[2], call'.key[3]) \in DOMAIN ops'
  <2>1. CASE UNCHANGED call
    BY <1>2, <1>d, <2>1 DEF RepairsReview
  <2>2. CASE call' = NoCall
    BY <1>2, <2>2 DEF NoCall, NoKey, Key
  <2>3. CASE call'.key \in OpenKeys
    <3>1. call'.key \in DOMAIN ops /\ call'.key[1] \in Reviews
      BY <1>2, <2>3 DEF OpenKeys, Reviews
    <3> QED BY <1>d, <3>1 DEF RepairsReview
  <2>4. CASE /\ call'.key = Key("acceptance_lead_repair", call.key[2], call.key[3])
             /\ call.key[1] = "acceptance_lead" /\ Is(call.key, "failed") /\ IsKey(call.key)
    BY <1>d, <2>4 DEF Is, IsKey, Key
  <2> QED BY <1>2, <2>1, <2>2, <2>3, <2>4, NextCall
<1> QED BY <1>1, <1>2 DEF RepairsReview

\* What a completed task is judged by stays as it is.
LEMMA CompletedIsFrozen ==
  ASSUME WorkInv, RepairsReview, [Next]_vars, NEW t \in Tasks, tasks[t] = "completed"
  PROVE  /\ tasks'[t] = "completed" /\ stored'[t] = stored[t] /\ (t \in left' <=> t \in left)
         /\ Admitted(t)' = Admitted(t) /\ Extras(t)' = Extras(t) /\ Reviewed(t)' = Reviewed(t)
<1>i. CallInv
  BY DEF WorkInv
<1>w. ~Working(t)
  BY DEF Working
<1>1. tasks'[t] = "completed"
  BY TaskMoves DEF TaskMove, Started, Skipped, Stopped, Suspended, Resumed, ParkedLate, Delivered,
     Asked, Told, Working
<1>2. stored'[t] = stored[t] /\ (t \in left' <=> t \in left)
  BY <1>i, <1>w, StoredMoves, LeftMoves
<1>3. \A stages : Of(AppliedKeys, stages, t)' = Of(AppliedKeys, stages, t)
  BY <1>w, OwnApplied
<1>4. Admitted(t)' = Admitted(t) /\ Extras(t)' = Extras(t)
  BY <1>i, <1>3, OwnCalls DEF Admitted, Extras
<1>5. \A k \in Of(AppliedKeys, Reviews, t) :
        LET lead == Key("acceptance_lead", t, k[3]) IN ops'[lead].about = ops[lead].about
  BY <1>i, RowsStayStep DEF RowsStay, RepairsReview, Of, AppliedKeys
<1>6. Reviewed(t)' = Reviewed(t)
  BY <1>3, <1>5 DEF Reviewed
<1> QED BY <1>1, <1>2, <1>4, <1>6

\* What the delivery that completes a task finds and leaves.
LEMMA DeliveredEffect ==
  ASSUME WorkInv, RepairsReview, [Next]_vars, NEW t \in Tasks, Delivered(t)
  PROVE  LET answer == ops[call.key].answer IN
         /\ stored'[t] = call.key /\ call.key \in AppliedKeys' /\ ops'[call.key].answer = answer
         /\ Admitted(t)' = Admitted(t) /\ Reviewed(t)' = Reviewed(t)
         /\ AsContracted(t, answer) /\ UNCHANGED left
         /\ answer # "extra" => Extras(t)' = Extras(t)
<1>i. CallInv
  BY DEF WorkInv
<1>1. /\ Applies(Workers, Outcomes) /\ stored' = [stored EXCEPT ![call.key[2]] = call.key]
      /\ UNCHANGED left /\ call.key[2] = t /\ AsContracted(t, ops[call.key].answer)
  BY DEF Delivered, ApplyOutcome, contract
<1>2. /\ AppliedKeys' = AppliedKeys \cup {call.key} /\ ops'[call.key].answer = ops[call.key].answer
      /\ \A l \in AppliedKeys : ops'[l] = ops[l]
  BY <1>i, <1>1, AppliedGrow
<1>3. stored'[t] = call.key
  BY <1>1 DEF WorkInv, CallInv, TasksShape
<1>4. call.key[1] \notin Reviews
  BY <1>i, <1>1, AppliesEffect, StageKinds
<1>5. Of(AppliedKeys, Reviews, t)' = Of(AppliedKeys, Reviews, t)
  BY <1>2, <1>4 DEF Of
<1>6. Admitted(t)' = Admitted(t)
  BY <1>i, <1>5, OwnCalls DEF Admitted
<1>7. \A k \in Of(AppliedKeys, Reviews, t) :
        LET lead == Key("acceptance_lead", t, k[3]) IN ops'[lead].about = ops[lead].about
  BY <1>i, RowsStayStep DEF RowsStay, RepairsReview, Of, AppliedKeys
<1>8. Reviewed(t)' = Reviewed(t)
  BY <1>5, <1>7 DEF Reviewed
<1>9. ops[call.key].answer # "extra" => Extras(t)' = Extras(t)
  BY <1>2 DEF Extras, Answered, Of
<1> QED BY <1>1, <1>2, <1>3, <1>6, <1>8, <1>9

LEMMA NoAdmission ==
  ASSUME AdmitNeedsExtra, NEW t, Extras(t) = {}
  PROVE  ~Admitted(t) /\ ~Lingers(t)
<1>1. ~Admitted(t)
  BY DEF AdmitNeedsExtra, Admitted, Answered, Of, AppliedKeys
<1>2. ~Blamed(t)
  BY DEF Blamed, Extras
<1> QED BY <1>1, <1>2 DEF Lingers

LEMMA CompletedStep ==
  ASSUME WorkInv, TableInv, EarnedInv, [Next]_vars
  PROVE  CompletedHasAcceptedOutcome'
<1> DEFINE Delivers(t) == ops[stored[t]].answer = (IF Admitted(t) THEN "extra" ELSE "plain")
<1>i. CallInv /\ AdmitNeedsExtra /\ RepairsReview /\ StoredFits /\ CompletedHasAcceptedOutcome
  BY DEF WorkInv, TableInv, EarnedInv, StatusIsEarned
<1>n. AdmitNeedsExtra' /\ StoredFits'
  BY <1>i, AdmitStep, StoredStep
<1>1. ASSUME NEW t \in Tasks, tasks'[t] = "completed"
      PROVE  stored'[t] # NoKey /\ ops'[stored'[t]].st = "applied" /\ Delivers(t)'
  <2>1. CASE tasks[t] = "completed"
    <3>1. stored[t] # NoKey /\ Delivers(t) /\ stored[t] \in AppliedKeys
      BY <1>i, <2>1 DEF CompletedHasAcceptedOutcome, StoredFits, Is, AppliedKeys
    <3>2. stored'[t] = stored[t] /\ Admitted(t)' = Admitted(t)
      BY <1>i, <2>1, CompletedIsFrozen
    <3>3. ops'[stored[t]] = ops[stored[t]] /\ ops[stored[t]].st = "applied"
      BY <1>i, <3>1, RowsStayStep DEF RowsStay, AppliedKeys
    <3> QED BY <3>1, <3>2, <3>3
  <2>2. CASE tasks[t] # "completed"
    <3>1. Delivered(t)
      BY <1>1, <2>2, TaskMoves DEF TaskMove, Started, Skipped, Stopped, Suspended, Resumed,
         ParkedLate, Asked, Told
    <3>2. /\ stored'[t] = call.key /\ ops'[call.key].answer = ops[call.key].answer
          /\ Admitted(t)' = Admitted(t) /\ AsContracted(t, ops[call.key].answer)
          /\ call.key \in AppliedKeys'
      BY <1>i, <3>1, DeliveredEffect
    <3>3. Delivers(t)'
      BY <3>2 DEF AsContracted
    <3>4. stored'[t] # NoKey
      BY <1>i, <3>1, <3>2, AppliesEffect DEF Delivered, ApplyOutcome, NoKey, Key, Workers
    <3> QED BY <3>2, <3>3, <3>4 DEF AppliedKeys
  <2> QED BY <2>1, <2>2
<1>2. ASSUME NEW t \in Tasks, stored'[t] # NoKey, Delivers(t)', Extras(t)' = {}
      PROVE  tasks'[t] = "completed"
  <2>1. Extras(t) = {}
    BY <1>2, <1>i, OwnCalls DEF Extras
  <2>2. ~Admitted(t) /\ ~Lingers(t) /\ ~Admitted(t)'
    <3>1. ~Admitted(t) /\ ~Lingers(t)
      BY <1>i, <2>1, NoAdmission
    <3>2. ~Admitted(t)'
      BY <1>2, <1>n DEF AdmitNeedsExtra, Admitted, Extras, Answered, Of, AppliedKeys
    <3> QED BY <3>1, <3>2
  <2>3. ops'[stored'[t]].answer = "plain"
    BY <1>2, <2>2
  <2>4. CASE stored'[t] = stored[t]
    <3>1. stored[t] \in AppliedKeys /\ ops[stored[t]].st = "applied"
      BY <1>2, <1>i, <2>4 DEF StoredFits, Is, AppliedKeys
    <3>2. ops'[stored[t]] = ops[stored[t]]
      BY <1>i, <3>1, RowsStayStep DEF RowsStay, AppliedKeys
    <3>3. tasks[t] = "completed"
      BY <1>2, <1>i, <2>1, <2>2, <2>3, <2>4, <3>1, <3>2 DEF CompletedHasAcceptedOutcome, Extras
    <3> QED BY <1>i, <3>3, CompletedIsFrozen
  <2>5. CASE stored'[t] # stored[t]
    <3>1. ApplyOutcome /\ call.key[2] = t /\ stored'[t] = call.key
      BY <1>i, <2>5, StoredMoves
    <3>2. ops[call.key].answer = "plain"
      BY <1>i, <2>3, <3>1, AppliedGrow DEF ApplyOutcome
    <3>3. Verdict(t, ops[call.key].answer) = "completed"
      BY <2>2, <3>2 DEF Verdict, AsContracted
    <3>4. FinishTask(t, "completed")
      BY <3>1, <3>3 DEF ApplyOutcome
    <3> QED BY <3>4, <1>i DEF FinishTask, CallInv, TasksShape
  <2> QED BY <2>4, <2>5
<1> QED BY <1>1, <1>2 DEF CompletedHasAcceptedOutcome, Extras

LEMMA FilesStep ==
  ASSUME WorkInv, EarnedInv, [Next]_vars
  PROVE  FilesAreDeclared'
<1>i. CallInv /\ RepairsReview /\ FilesAreDeclared
  BY DEF WorkInv, EarnedInv, StatusIsEarned
<1> SUFFICES ASSUME NEW t \in Tasks, tasks'[t] = "completed", t \in left', ~Admitted(t)',
                    NEW w \in Extras(t)', ops'[w].no \in Reviewed(t)'
             PROVE  FALSE
  BY DEF FilesAreDeclared, Extras
<1>r. ASSUME w \in Extras(t) PROVE ops'[w] = ops[w]
  BY <1>i, <1>r, RowsStayStep DEF RowsStay, Extras, Answered, Of, AppliedKeys
<1>1. CASE tasks[t] = "completed"
  <2>1. /\ t \in left /\ ~Admitted(t) /\ w \in Extras(t) /\ ops[w].no \in Reviewed(t)
    BY <1>i, <1>1, <1>r, CompletedIsFrozen
  <2> QED BY <1>1, <1>i, <2>1 DEF FilesAreDeclared, Extras
<1>2. CASE tasks[t] # "completed"
  <2>1. Delivered(t)
    BY <1>2, TaskMoves DEF TaskMove, Started, Skipped, Stopped, Suspended, Resumed,
       ParkedLate, Asked, Told
  <2>2. /\ t \in left /\ ~Admitted(t) /\ AsContracted(t, ops[call.key].answer)
        /\ Reviewed(t)' = Reviewed(t)
        /\ ops[call.key].answer # "extra" => Extras(t)' = Extras(t)
    BY <1>i, <2>1, DeliveredEffect
  <2>3. ops[call.key].answer = "plain" /\ ~Lingers(t)
    BY <2>2 DEF AsContracted
  <2>4. w \in Extras(t) /\ ops[w].no \in Reviewed(t)
    BY <2>2, <2>3, <1>r
  <2>5. Blamed(t)
    BY <2>4 DEF Blamed, Extras
  <2> QED BY <2>2, <2>3, <2>5 DEF Lingers
<1> QED BY <1>1, <1>2

\* What a step makes of the questions that are asked.
LEMMA ItemsStep ==
  ASSUME CallInv, [Next]_vars
  PROVE  \/ items' = items /\ (request' = request \/ (request # "none" /\ request' = "awaiting")
                               \/ Publish)
         \/ /\ MediationAsksUser \/ ReviewAsksUser
            /\ request' = "collecting" /\ items' = items \cup {call.key} /\ AsksUser(call.key[2])
         \/ request' = "collecting" /\ \E k : k[2] = 0 /\ items' = items \cup {k}
         \/ UserAnswers /\ request' = "none" /\ items' = {}
<1>1. CASE MediationAsksUser \/ ReviewAsksUser
  BY <1>1 DEF MediationAsksUser, ReviewAsksUser, AsksUser, AppendItem
<1>2. CASE ApplySynthesisDecision
  <2>1. call.key[2] = 0
    <3>1. IsKey(call.key) /\ call.key[1] \in Syntheses
      BY <1>2, AppliesEffect DEF ApplySynthesisDecision
    <3> QED BY <3>1 DEF IsKey
  <2> QED BY <1>2, <2>1 DEF ApplySynthesisDecision, AppendItem
<1>3. CASE Raise
  BY <1>3 DEF Raise, System, Key
<1>4. CASE Publish
  BY <1>4 DEF Publish
<1>5. CASE Restart
  BY <1>5, RestartEffect DEF ParkedAtStart, TakenUpAtStart, NotDueAtStart, PublishAtStart
<1>6. CASE UserAnswers
  BY <1>6 DEF UserAnswers
<1>7. CASE UNCHANGED questions
  BY <1>7 DEF questions
<1>8. \/ MediationAsksUser \/ ReviewAsksUser \/ ApplySynthesisDecision \/ Raise \/ Publish
      \/ Restart \/ UserAnswers \/ UNCHANGED questions
  BY StepKinds DEF QuietStep, AppliesStep, ApplyQuery, ApplyOutcome, ApplyMediation, ApplyConsult,
     Tell, ApplyReview, ReviewGivesUp, ApplySynthesis, Invoke, MarkFailed, RefuseFutileRetry,
     Complete, Repair, RepairSynthesis, Error, Consume, RefuseEffect, RecoverOpen, Chain,
     StartTask, LeaveLoop, SettleQuestions, SkipDependents, Settle, Synthesize, Park, Crash,
     Reclaim, UserResumes, vars, questions
<1> QED BY <1>1, <1>2, <1>3, <1>4, <1>5, <1>6, <1>7, <1>8

LEMMA WaitingStep ==
  ASSUME WorkInv, TableInv, EarnedInv, [Next]_vars
  PROVE  WaitingIsAsked' /\ (request = "none" => items = {})'
<1>i. CallInv /\ WaitingIsAsked /\ (request = "none" => items = {})
  BY DEF WorkInv, EarnedInv, StatusIsEarned
<1>a. ASSUME NEW t \in Tasks, ~(MediationAsksUser \/ ReviewAsksUser), ~UserAnswers
      PROVE  tasks'[t] = "waiting_for_user" <=> tasks[t] = "waiting_for_user"
  BY <1>a, TaskMoves DEF TaskMove, Started, Skipped, Stopped, Suspended, Resumed, ParkedLate,
     Delivered, Asked, Told, Working
<1>z. 0 \notin Tasks
  BY ExecutionConstants DEF Tasks
<1>1. CASE UserAnswers
  <2>1. request' = "none" /\ items' = {} /\ tasks' = Released
    BY <1>1 DEF UserAnswers
  <2>2. \A t \in Tasks : tasks'[t] # "waiting_for_user"
    BY <1>i, <2>1 DEF Released, WaitingIsAsked
  <2> QED BY <2>1, <2>2 DEF WaitingIsAsked
<1>2. CASE (MediationAsksUser \/ ReviewAsksUser) /\ ~UserAnswers
  <2>k. PICK k : k = call.key
    OBVIOUS
  <2>1. /\ tasks' = [tasks EXCEPT ![k[2]] = "waiting_for_user"]
        /\ request' = "collecting" /\ items' = items \cup {k}
    BY <1>2, <2>k DEF MediationAsksUser, ReviewAsksUser, AsksUser, AppendItem
  <2>2. ASSUME NEW t \in Tasks
        PROVE  tasks'[t] = "waiting_for_user" <=> \E l \in items' : l[2] = t
    <3>1. CASE t = k[2]
      BY <1>i, <2>1, <3>1 DEF CallInv, TasksShape
    <3>2. CASE t # k[2]
      <4>1. tasks'[t] = tasks[t] /\ ((\E l \in items' : l[2] = t) <=> \E l \in items : l[2] = t)
        BY <1>i, <2>1, <3>2 DEF CallInv, TasksShape
      <4>2. tasks[t] = "waiting_for_user" <=> \E l \in items : l[2] = t
        BY <1>i DEF WaitingIsAsked
      <4> QED BY <4>1, <4>2
    <3> QED BY <3>1, <3>2
  <2> QED BY <2>1, <2>2 DEF WaitingIsAsked
<1>3. CASE ~(MediationAsksUser \/ ReviewAsksUser) /\ ~UserAnswers
  <2>1. \/ items' = items /\ (request' = request \/ (request # "none" /\ request' = "awaiting")
                               \/ Publish)
        \/ request' = "collecting" /\ \E k : k[2] = 0 /\ items' = items \cup {k}
    BY <1>i, <1>3, ItemsStep
  <2>2. \A t \in Tasks : (\E l \in items' : l[2] = t) <=> (\E l \in items : l[2] = t)
    BY <1>z, <2>1
  <2>3. Publish => request' = "awaiting"
    BY DEF Publish
  <2>4. request' # "none" \/ (request' = request /\ items' = items)
    BY <2>1, <2>3
  <2>5. ASSUME NEW t \in Tasks
        PROVE  tasks'[t] = "waiting_for_user" <=> request' # "none" /\ \E l \in items' : l[2] = t
    <3>1. tasks[t] = "waiting_for_user" <=> \E l \in items : l[2] = t
      BY <1>i DEF WaitingIsAsked
    <3>2. tasks'[t] = "waiting_for_user" <=> \E l \in items' : l[2] = t
      BY <1>3, <1>a, <2>2, <3>1
    <3> QED BY <1>i, <2>4, <3>2
  <2>6. (request = "none" => items = {})'
    BY <1>i, <2>4
  <2> QED BY <2>5, <2>6 DEF WaitingIsAsked
<1> QED BY <1>1, <1>2, <1>3

LEMMA EarnedInit == Init => EarnedInv
<1> SUFFICES ASSUME Init PROVE EarnedInv
  OBVIOUS
<1>1. DOMAIN ops = {} /\ items = {} /\ call.key[1] = "none"
  BY DEF Init, NoCall, NoKey, Key
<1>2. \A t \in Tasks : tasks[t] = "pending" /\ stored[t] = NoKey
  BY DEF Init
<1> QED BY <1>1, <1>2 DEF EarnedInv, AdmitNeedsExtra, RepairsReview, StatusIsEarned,
        CompletedHasAcceptedOutcome, FilesAreDeclared, WaitingIsAsked

LEMMA EarnedStep == WorkInv /\ TableInv /\ EarnedInv /\ [Next]_vars => EarnedInv'
<1> SUFFICES ASSUME WorkInv, TableInv, EarnedInv, [Next]_vars PROVE EarnedInv'
  OBVIOUS
<1>1. CallInv /\ AdmitNeedsExtra /\ RepairsReview
  BY DEF WorkInv, EarnedInv
<1>2. AdmitNeedsExtra' /\ RepairsReview'
  BY <1>1, AdmitStep, RepairsStep
<1> QED BY <1>2, CompletedStep, FilesStep, WaitingStep DEF EarnedInv, StatusIsEarned

\* A completed task was completed by an applied outcome that delivers its contract and
\* leaves no file that was refused, and such an outcome is enough; a task waits for the
\* user exactly as long as its question is asked - across every interleaving of reviews,
\* questions, parked calls, crashes and restarts.
THEOREM StatusesAreEarned == Spec => []StatusIsEarned
<1>1. EarnedInv => StatusIsEarned
  BY DEF EarnedInv
<1>2. WorkInv => CallInv
  BY DEF WorkInv
<1> QED BY <1>1, <1>2, WorkInvInit, WorkInvStep, TableInit, TableStep, EarnedInit, EarnedStep, PTL
        DEF Spec

-----------------------------------------------------------------------------
(* The plan's order.  What a task waits for stays completed, so it is enough *)
(* to look at the steps that start a task.                                  *)

LEMMA NewestIs ==
  ASSUME OpsShape, NumbersFit, NEW ks \in SUBSET DOMAIN ops, ks # {}
  PROVE  Newest(ks) \in ks /\ \A l \in ks : ops[l].no <= ops[Newest(ks)].no
<1> DEFINE nos == {ops[k].no : k \in ks}  N == Cardinality(DOMAIN ops)
<1>1. N \in Nat
  BY FS_CardinalityType DEF OpsShape
<1>2. nos \in SUBSET Nat /\ nos # {} /\ \A x \in nos : x <= N
  <2> HIDE DEF N
  <2>1. \A k \in ks : ops[k].no \in 1 .. N
    BY DEF NumbersFit, N
  <2> QED BY <1>1, <2>1
<1>3. PICK m \in nos : \A x \in nos : x <= m
  <2> HIDE DEF nos, N
  <2> QED BY <1>1, <1>2, Greatest
<1>4. PICK k \in ks : ops[k].no = m
  BY <1>3
<1>5. \A l \in ks : ops[l].no <= ops[k].no
  BY <1>3, <1>4
<1>6. \E l \in ks : \A j \in ks : ops[j].no <= ops[l].no
  BY <1>5
<1> QED BY <1>6 DEF Newest

\* the calls of a task that were applied, and the last of them
Own(t) == {k \in AppliedKeys : k[2] = t}

LEMMA LastIs ==
  ASSUME OpsShape, NumbersFit, NEW t, Own(t) # {}
  PROVE  Last(t) \in Own(t) /\ \A l \in Own(t) : ops[l].no <= ops[Last(t)].no
<1>1. Own(t) \in SUBSET DOMAIN ops
  BY DEF Own, AppliedKeys
<1> QED BY <1>1, NewestIs DEF Last, Own

LEMMA NoLast == ASSUME NEW t, Own(t) = {} PROVE Last(t) = NoKey
BY DEF Last, Own, Newest

\* Only an invocation adds to the ledger: the call the coroutine is at.
LEMMA NewRow ==
  ASSUME CallInv, [Next]_vars, NEW k \in DOMAIN ops', k \notin DOMAIN ops
  PROVE  Invoke /\ pc = "invoke" /\ k = call.key /\ Reserved(k) /\ OpenKeys = {}
<1>m. ASSUME NEW l, NEW to, Moved(l, to) PROVE FALSE
  BY <1>m DEF Moved
<1>u. ops' # ops
  OBVIOUS
<1>1. CASE Invoke
  BY <1>1, <1>u, InvokeEffect DEF Reserved, Invoke
<1>2. ~MarkFailed /\ ~RefuseFutileRetry /\ ~Park /\ ~Reclaim
  BY <1>m, DropEffect, ParkEffect, ReclaimEffect
<1>3. ~QuietStep /\ ~Crash /\ ~UserResumes /\ ~UserAnswers /\ ~UNCHANGED vars
  BY <1>u, QuietOps DEF vars
<1>4. ~AppliesStep
  BY <1>m, <1>u, AppliesStepEffect, AppliesEffect
<1>5. ~Restart
  BY <1>m, <1>u, RestartEffect DEF ParkedAtStart, TakenUpAtStart, NotDueAtStart
<1>6. \A a \in Answers(call.key, call.about) : ~Complete(a)
  BY CompleteEffect DEF Stored
<1> QED BY <1>1, <1>2, <1>3, <1>4, <1>5, <1>6, StepKinds

LEMMA PlanStays == [Next]_vars => UNCHANGED plan
BY DEF Next, Step, World, Invoke, MarkFailed, RefuseFutileRetry, Complete, Repair, RepairSynthesis,
   Error, Consume, Raise, Publish, RefuseEffect, ApplyQuery, ApplyOutcome, ApplyMediation,
   ApplyConsult, Tell, MediationAsksUser, ApplyReview, ReviewAsksUser, ReviewGivesUp,
   ApplySynthesis, ApplySynthesisDecision, RecoverOpen, Chain, StartTask, LeaveLoop,
   SettleQuestions, SkipDependents, Settle, Synthesize, Restart, Park, Crash, Reclaim, UserResumes,
   UserAnswers, contract, vars

DepsDone(t) == \A d \in plan.deps[t] : tasks[d] = "completed"

LEMMA DepsStay ==
  ASSUME WorkInv, WorldFits, RepairsReview, [Next]_vars, NEW t \in Tasks, DepsDone(t)
  PROVE  DepsDone(t)'
<1>1. plan' = plan
  BY PlanStays
<1>2. plan.deps[t] \subseteq Tasks
  BY DEF WorldFits, Plans
<1>3. \A d \in plan.deps[t] : tasks'[d] = "completed"
  BY <1>2, CompletedIsFrozen DEF DepsDone
<1> QED BY <1>1, <1>3 DEF DepsDone

\* Only a task that had its turn has calls.
OrderInv == PrerequisitesAreDone /\ \A k \in DOMAIN ops : k[2] # 0 => DepsDone(k[2])

LEMMA StartsInOrder ==
  ASSUME WorkInv, TableInv, OrderInv, Chain \/ StartTask, NEW t \in Tasks, tasks'[t] # tasks[t]
  PROVE  DepsDone(t)
<1>i. OpsShape /\ NumbersFit /\ tasks \in [Tasks -> TaskStatus]
  BY DEF WorkInv, CallInv, TasksShape, TableInv
<1>1. CASE StartTask
  <2> DEFINE u == Min(Ready)
  <2>1. u \in Ready /\ BeginTask(u)
    BY <1>1, MinIsIn DEF StartTask, Ready
  <2> HIDE DEF u
  <2>2. t = u
    BY <1>i, <2>1 DEF BeginTask
  <2>3. {tasks[d] : d \in plan.deps[t]} \subseteq {"completed"}
    BY <2>1, <2>2 DEF Ready, Prerequisites
  <2> QED BY <2>3 DEF DepsDone
<1>2. CASE Chain
  <2> DEFINE u == Min(Chained)
  <2>1. u \in Chained /\ BeginTask(u)
    BY <1>2, MinIsIn DEF Chain, Chained
  <2> HIDE DEF u
  <2>2. t = u
    BY <1>i, <2>1 DEF BeginTask
  <2>3. Last(t) # NoKey
    BY <2>1, <2>2 DEF Chained, UserDecided, ReviewDue, ReviewGiven, Mediations, Reviews, Workers,
       NoKey, Key
  <2>4. Last(t) \in DOMAIN ops /\ Last(t)[2] = t
    BY <1>i, <2>3, LastIs, NoLast DEF Own, AppliedKeys
  <2> QED BY <2>4, ExecutionConstants DEF OrderInv, Tasks
<1> QED BY <1>1, <1>2

LEMMA OrderStep ==
  ASSUME WorkInv, TableInv, RepairsReview, OrderInv, [Next]_vars
  PROVE  OrderInv'
<1>i. CallInv /\ WorldFits
  BY DEF WorkInv, TableInv
<1>1. ASSUME NEW t \in Tasks, tasks'[t] \notin {"pending", "skipped"} PROVE DepsDone(t)'
  <2>1. CASE tasks[t] \notin {"pending", "skipped"}
    BY <1>i, <2>1, DepsStay DEF OrderInv, PrerequisitesAreDone, DepsDone
  <2>2. CASE tasks[t] \in {"pending", "skipped"}
    <3>1. Chain \/ StartTask
      BY <1>1, <2>2, TaskMoves DEF TaskMove, Started, Skipped, Stopped, Suspended, Resumed,
         ParkedLate, Delivered, Asked, Told, Working
    <3>2. DepsDone(t)
      BY <1>1, <2>2, <3>1, StartsInOrder
    <3> QED BY <1>i, <3>2, DepsStay
  <2> QED BY <2>1, <2>2
<1>2. ASSUME NEW k \in DOMAIN ops', k[2] # 0 PROVE DepsDone(k[2])'
  <2>t. k[2] \in Tasks
    BY <1>i, <1>2, CallInvStep, ExecutionConstants DEF CallInv, OpsShape, IsKey, Tasks
  <2>1. CASE k \in DOMAIN ops
    BY <1>i, <1>2, <2>t, <2>1, DepsStay DEF OrderInv
  <2>2. CASE k \notin DOMAIN ops
    <3>1. Invoke /\ k = call.key
      BY <1>i, <2>2, NewRow
    <3>2. Working(k[2])
      BY <1>2, <3>1 DEF Invoke, WorkInv, CallWorks
    <3>3. DepsDone(k[2])
      BY <2>t, <3>2 DEF Working, OrderInv, PrerequisitesAreDone, DepsDone
    <3> QED BY <1>i, <2>t, <3>3, DepsStay
  <2> QED BY <2>1, <2>2
<1> QED BY <1>1, <1>2 DEF OrderInv, PrerequisitesAreDone, DepsDone

-----------------------------------------------------------------------------
(* The status of the run.                                                   *)

Completes(s) == s \in {"completed", "completed_with_failures"}

\* The effect's rule and the loop's agree where the run completes, although the loop
\* follows causes through the dependencies and the effect looks at statuses only.
LEMMA RulesAgree ==
  ASSUME NEW states, NEW required, NEW deps, required \subseteq DOMAIN states, DOMAIN states # {},
         Completes(EffectStatus(states, required))
  PROVE  /\ \A t \in required : states[t] = "completed"
         /\ Disposition(states, required, deps) = EffectStatus(states, required)
<1> DEFINE issues == {t \in DOMAIN states : states[t] # "completed"}
           causes == {Causes(states, deps)[t] : t \in issues \cap required}
<1>1. /\ \A t \in DOMAIN states : states[t] \in {"blocked", "completed", "failed", "canceled"}
      /\ \A t \in required : states[t] \notin {"failed", "blocked", "canceled"}
  BY DEF EffectStatus, Completes
<1>2. \A t \in required : states[t] = "completed"
  BY <1>1
<1>3. causes = {}
  BY <1>2
<1>4. EffectStatus(states, required) = IF issues = {} THEN "completed" ELSE "completed_with_failures"
  BY <1>1 DEF EffectStatus, Completes
<1>5. \A t \in DOMAIN states : states[t] \in TerminalTask
  BY <1>1 DEF TerminalTask
<1>6. Disposition(states, required, deps) =
        IF issues = {} THEN "completed" ELSE "completed_with_failures"
  <2>1. CASE issues = {}
    BY <1>3, <1>5, <2>1 DEF Disposition
  <2>2. CASE issues # {}
    BY <1>3, <1>5, <2>2 DEF Disposition
  <2> QED BY <2>1, <2>2
<1> QED BY <1>2, <1>4, <1>6

LEMMA FinalStep ==
  ASSUME WorkInv, WorldFits, FinalStatusAgrees, [Next]_vars
  PROVE  FinalStatusAgrees'
<1> SUFFICES ASSUME Completes(run')
             PROVE  /\ \A t \in plan'.required : tasks'[t] = "completed"
                    /\ run' = Disposition(tasks', plan'.required, plan'.deps)
  BY DEF FinalStatusAgrees, Completes
<1>i. CallInv /\ RunWorks /\ DOMAIN tasks = Tasks /\ plan' = plan
  BY PlanStays DEF WorkInv, CallInv, TasksShape
<1>1. CASE UNCHANGED <<run, tasks>>
  BY <1>1, <1>i DEF FinalStatusAgrees, Completes
<1>2. CASE ApplySynthesis
  <2>1. run' = EffectStatus(tasks, plan.required) /\ UNCHANGED tasks
    BY <1>2 DEF ApplySynthesis
  <2>2. plan.required \subseteq Tasks /\ Tasks # {}
    BY ExecutionConstants DEF WorldFits, Plans, Tasks
  <2> QED BY <1>i, <2>1, <2>2, RulesAgree
<1>3. ASSUME pc \notin Rest, ~ApplySynthesis PROVE FALSE
  <2>1. run' \in {run, "failed", "blocked", "summarizing", "waiting_for_user", "waiting_for_provider"}
    BY <1>3, StepKinds
       DEF QuietStep, AppliesStep, Invoke, MarkFailed, RefuseFutileRetry, Complete, Repair,
           RepairSynthesis, Error, Consume, Raise, Publish, RefuseEffect, RecoverOpen, Chain,
           StartTask, LeaveLoop, SettleQuestions, SkipDependents, Settle, Synthesize, ApplyQuery,
           ApplyOutcome, ApplyMediation, ApplyConsult, Tell, MediationAsksUser, ApplyReview,
           ReviewAsksUser, ReviewGivesUp, ApplySynthesisDecision, Restart, Park, Crash, Reclaim,
           UserResumes, UserAnswers, Rest, vars
  <2>2. run \in {"running", "summarizing"}
    BY <1>i, <1>3 DEF RunWorks
  <2> QED BY <2>1, <2>2 DEF Completes
<1>4. CASE pc \in Rest
  <2>1. Restart \/ Crash \/ Reclaim \/ UserResumes \/ UserAnswers \/ UNCHANGED vars
    BY <1>4, StepKinds
       DEF QuietStep, AppliesStep, Invoke, MarkFailed, RefuseFutileRetry, Complete, Repair,
           RepairSynthesis, Error, Consume, Raise, Publish, RefuseEffect, RecoverOpen, Chain,
           StartTask, LeaveLoop, SettleQuestions, SkipDependents, Settle, Synthesize, ApplyQuery,
           ApplyOutcome, ApplyMediation, ApplyConsult, MediationAsksUser, ApplyReview,
           ReviewAsksUser, ReviewGivesUp, ApplySynthesis, ApplySynthesisDecision, Applies, Park, Rest
  <2>2. CASE Restart
    <3>1. run' \in {"running", "interrupted", "waiting_for_user", "waiting_for_provider"}
          \/ UNCHANGED <<run, tasks>>
      BY <1>i, <2>2, RestartEffect DEF ParkedAtStart, TakenUpAtStart, NotDueAtStart, PublishAtStart
    <3> QED BY <1>1, <3>1 DEF Completes
  <2>3. CASE Reclaim \/ UserResumes \/ UserAnswers
    BY <2>3 DEF Reclaim, UserResumes, UserAnswers, Completes
  <2>4. CASE Crash \/ UNCHANGED vars
    BY <1>1, <2>4 DEF Crash, vars
  <2> QED BY <2>1, <2>2, <2>3, <2>4
<1> QED BY <1>2, <1>3, <1>4

-----------------------------------------------------------------------------
(* Where the calls come from: each is made by one of a few steps, and what  *)
(* that step looked at tells what came before.                              *)

\* the calls made so far, and the one the coroutine is about to make
Known == DOMAIN ops \cup {k \in {call.key} : pc \in InCall}

\* no help is left to be asked for
Exhausted == rounds >= Rounds \/ reinv >= ReCap

\* the call that a repair repairs
Repaired(k) ==
  IF k[1] = "worker" /\ k[3] # 0 THEN Key("worker", k[2], 0)
  ELSE IF k[1] = "acceptance_worker_repair" THEN Key("acceptance_worker", k[2], k[3])
  ELSE IF k[1] = "acceptance_lead_repair" THEN Key("acceptance_lead", k[2], k[3]) ELSE NoKey

RepairStages == {"worker", "acceptance_worker_repair", "acceptance_lead_repair"}

Begins(t) == StartTask /\ t \in Ready /\ call'.key = Key("worker", t, 0)
Mends ==
  /\ Repair /\ pc = "invalid" /\ Is(call.key, "failed") /\ call'.key[1] \in RepairStages
  /\ call'.key[2] = call.key[2] /\ Repaired(call'.key) = call.key /\ call.key # NoKey
  /\ call'.key[3] \in {call.key[3], 1}
BudgetSpent ==
  /\ ApplyQuery /\ Exhausted' /\ call'.about = <<"budget", 0>>
  /\ call'.key = Key("mediation_worker", call.key[2], Max({rounds, Reinvoked}) + 1)
Enquires ==
  /\ ApplyQuery /\ ~Exhausted' /\ call'.key[1] \in Mediations
  /\ call'.key = Key(call'.key[1], call.key[2], rounds + 1)
Tells ==
  /\ ApplyMediation \/ ApplyConsult
  /\ call'.about = <<"answer", 0>>
  /\ call'.key = Key("mediation_worker", call.key[2], call.key[3])
TellsDecision(t) ==
  /\ Chain /\ t \in Tasks /\ UserDecided(t) /\ Last(t)[1] \in Mediations
  /\ call'.about = <<"user", 0>> /\ call'.key = Key("mediation_worker", t, Last(t)[3])
Submits ==
  /\ ApplyOutcome /\ Verdict(call.key[2], ops[call.key].answer) = "review"
  /\ call'.key = Key("acceptance_lead", call.key[2], attempts[call.key[2]] + 1)
SubmitsLate(t) ==
  /\ Chain /\ t \in Tasks /\ ReviewDue(t)
  /\ call'.key = Key("acceptance_lead", t, attempts[t] + 1)
Returns == ApplyReview /\ call'.key = Key("acceptance_worker", call.key[2], call.key[3])
ReturnsLate(t) ==
  /\ Chain /\ t \in Tasks
  /\ ReviewGiven(t) \/ (UserDecided(t) /\ Last(t)[1] \in Reviews)
  /\ call'.key = Key("acceptance_worker", t, Last(t)[3])
SumsUp == (Synthesize \/ RepairSynthesis) /\ UNCHANGED <<ops, tasks>> /\ call'.key[1] \in Syntheses

Makes ==
  \/ Mends \/ BudgetSpent \/ Enquires \/ Tells \/ Submits \/ Returns \/ SumsUp
  \/ \E t \in Tasks : \/ Begins(t) \/ TellsDecision(t) \/ SubmitsLate(t) \/ ReturnsLate(t)

\* The call the coroutine is at after a step: as before, one that is taken up, none (it
\* fails without one), or a new one.
Stays ==
  /\ pc \in InCall /\ UNCHANGED call
  /\ pc' \in {"invoke", "invalid"} => UNCHANGED vars \/ MarkFailed \/ RefuseFutileRetry
  /\ pc' = "apply" => UNCHANGED vars \/ Invoke \/ \E a \in Answers(call.key, call.about) : Complete(a)
  /\ pc' \in {"consume", "raise"} => UNCHANGED vars \/ pc = "consume" \/ call.key[1] \in Reviews
Resumes == UNCHANGED ops /\ call'.key \in OpenKeys /\ pc' \in {"call", "apply", "error"}
Stumbles == pc' = "error" /\ call' = NoCall

LEMMA ChainKinds ==
  ASSUME CallInv, Chain, pc' \in InCall
  PROVE  \/ Stays \/ Stumbles
         \/ pc' = "invoke" /\ \E t \in Tasks : TellsDecision(t) \/ SubmitsLate(t) \/ ReturnsLate(t)
<1> DEFINE u == Min(Chained)  last == Last(u)
<1>1. u \in Chained /\ u \in Tasks
  BY MinIsIn DEF Chain, Chained
<1>2. call = NoCall /\ stored' = stored
  BY DEF CallInv, CallShape, InCall, Chain
<1>3. CASE ReviewDue(u)
  <2>1. Review(u, FALSE)
    BY <1>3, StageKinds DEF Chain, ReviewDue, UserDecided, ReviewGiven
  <2> HIDE DEF u, last
  <2> QED BY <1>1, <1>3, <2>1 DEF Review, Invoking, SubmitsLate
<1>4. CASE UserDecided(u)
  <2>1. Invoking(Key(IF last[1] \in Reviews THEN "acceptance_worker" ELSE "mediation_worker", u, last[3]),
                 <<"user", 0>>, FALSE)
    BY <1>4, StageKinds DEF Chain, ReviewDue, UserDecided, ReviewGiven
  <2>2. last[1] \in Mediations \cup Reviews /\ last = Last(u)
    BY <1>4 DEF UserDecided
  <2> HIDE DEF u, last
  <2>3. CASE last[1] \in Reviews
    BY <1>1, <1>4, <2>1, <2>2, <2>3 DEF Invoking, ReturnsLate
  <2>4. CASE last[1] \notin Reviews
    BY <1>1, <1>4, <2>1, <2>2, <2>4 DEF Invoking, TellsDecision
  <2> QED BY <2>3, <2>4
<1>5. CASE ReviewGiven(u)
  <2>1. HaveItDone(u, last[3]) \/ Fails
    BY <1>5, StageKinds DEF Chain, ReviewDue, UserDecided, ReviewGiven
  <2>2. last = Last(u)
    OBVIOUS
  <2> HIDE DEF u, last
  <2> QED BY <1>1, <1>2, <1>5, <2>1, <2>2 DEF HaveItDone, Invoking, ReturnsLate, Fails, Stumbles
<1>6. ReviewDue(u) \/ UserDecided(u) \/ ReviewGiven(u)
  BY <1>1 DEF Chained
<1> QED BY <1>3, <1>4, <1>5, <1>6

LEMMA ChainGoesOn == Chain => pc' \in {"invoke", "error"} /\ UNCHANGED <<ops, questions>>
<1> SUFFICES ASSUME Chain PROVE pc' \in {"invoke", "error"} /\ UNCHANGED <<ops, questions>>
  OBVIOUS
<1> DEFINE u == Min(Chained)
<1>1. u \in Chained
  BY MinIsIn DEF Chain, Chained
<1>2. ReviewDue(u) \/ UserDecided(u) \/ ReviewGiven(u)
  BY <1>1 DEF Chained
<1>3. CASE ReviewDue(u)
  BY <1>3, StageKinds DEF Chain, Review, Invoking, ReviewDue, UserDecided, ReviewGiven
<1>4. CASE UserDecided(u) /\ ~ReviewDue(u)
  BY <1>4, StageKinds DEF Chain, Invoking, UserDecided, ReviewGiven
<1>5. CASE ReviewGiven(u) /\ ~UserDecided(u) /\ ~ReviewDue(u)
  BY <1>5, StageKinds DEF Chain, Invoking, HaveItDone, Fails
<1> QED BY <1>2, <1>3, <1>4, <1>5 DEF Chain

LEMMA AppliesKinds ==
  ASSUME CallInv, AppliesStep, pc' \in InCall
  PROVE  pc' = "invoke" /\ (BudgetSpent \/ Enquires \/ Tells \/ Submits \/ Returns)
<1>1. CASE ApplyQuery
  <2>1. /\ rounds' = rounds /\ reinv' = Reinvoked
        /\ Mediate(call.key[2], ops[call.key].answer, Reinvoked)
    BY <1>1 DEF ApplyQuery
  <2>2. CASE Exhausted'
    BY <1>1, <2>1, <2>2 DEF Exhausted, Mediate, Invoking, BudgetSpent
  <2>3. CASE ~Exhausted'
    BY <1>1, <2>1, <2>3 DEF Exhausted, Mediate, Invoking, Enquires, Respondent, Mediations, Key
  <2> QED BY <2>2, <2>3
<1>2. CASE ApplyOutcome
  BY <1>2 DEF ApplyOutcome, Review, Invoking, Submits, Goto, InCall
<1>3. CASE ApplyMediation \/ ApplyConsult
  BY <1>3 DEF ApplyMediation, ApplyConsult, Tell, Invoking, Tells
<1>4. CASE ApplyReview
  BY <1>4 DEF ApplyReview, HaveItDone, Invoking, Returns
<1>5. CASE MediationAsksUser \/ ReviewAsksUser \/ ReviewGivesUp \/ ApplySynthesis
           \/ ApplySynthesisDecision
  BY <1>5 DEF MediationAsksUser, ReviewAsksUser, ReviewGivesUp, ApplySynthesis,
              ApplySynthesisDecision, AsksUser, Goto, InCall
<1> QED BY <1>1, <1>2, <1>3, <1>4, <1>5 DEF AppliesStep

LEMMA NextCalls ==
  ASSUME CallInv, [Next]_vars, pc' \in InCall
  PROVE  Stays \/ Resumes \/ Stumbles \/ (pc' = "invoke" /\ Makes)
<1>n. pc \notin InCall => call = NoCall
  BY DEF CallInv, CallShape
<1>1. CASE Invoke \/ MarkFailed \/ RefuseFutileRetry \/ Consume \/ RefuseEffect \/ UNCHANGED vars
           \/ \E a \in Answers(call.key, call.about) : Complete(a)
  BY <1>1 DEF Invoke, MarkFailed, RefuseFutileRetry, Consume, RefuseEffect, Complete, vars, InCall,
     Stays, Fails
<1>2. CASE Error \/ Raise \/ Publish \/ LeaveLoop \/ SettleQuestions \/ Park \/ Crash \/ Reclaim
           \/ UserResumes \/ UserAnswers
  BY <1>2 DEF Error, Raise, Publish, LeaveLoop, SettleQuestions, Park, Crash, Reclaim, UserResumes,
     UserAnswers, Goto, InCall
<1>3. CASE SkipDependents \/ Settle
  BY <1>3, <1>n DEF SkipDependents, Settle, InCall, Stumbles, Goto, Fails
<1>4. CASE Restart
  BY <1>4, RestartEffect DEF ParkedAtStart, TakenUpAtStart, NotDueAtStart, InCall
<1>5. CASE Repair
  <2>k. PICK k : k = call.key
    OBVIOUS
  <2>1. pc = "invalid" /\ Is(k, "failed") /\ IsKey(k) /\ k # NoKey
    BY <1>5, <2>k DEF Repair, CallInv, CallFits, CallShape, InCall, IsKey, NoKey, Key, Stages,
       Workers, Reviews, Mediations, Syntheses
  <2>2. k = <<k[1], k[2], k[3]>>
    BY <2>1 DEF IsKey
  <2>3. \/ UNCHANGED call /\ (pc' = "error" \/ (pc' = "consume" /\ k[1] \in Reviews))
        \/ /\ k[1] = "worker" /\ k[3] = 0 /\ pc' = "invoke"
           /\ call'.key = Key("worker", k[2], 1)
        \/ /\ k[1] = "acceptance_lead" /\ pc' = "invoke"
           /\ call'.key = Key("acceptance_lead_repair", k[2], k[3])
        \/ /\ k[1] = "acceptance_worker" /\ pc' = "invoke"
           /\ call'.key = Key("acceptance_worker_repair", k[2], k[3])
    BY <1>5, <2>k DEF Repair, Fails, Invoking, Reviews
  <2>4. call'.key # k /\ ~UNCHANGED call => pc' = "invoke" /\ Mends
    BY <1>5, <2>k, <2>1, <2>2, <2>3 DEF Mends, Repaired, RepairStages, Key
  <2> QED BY <1>n, <2>1, <2>3, <2>4, <2>k, <2>2 DEF Makes, Stays, InCall, Key
<1>6. CASE RepairSynthesis
  <2>1. \/ UNCHANGED call /\ pc' = "error" /\ pc = "invalid"
        \/ pc' = "invoke" /\ call'.key = Key("synthesis_repair", 0, call.key[3]) /\ UNCHANGED <<ops, tasks>>
    BY <1>6 DEF RepairSynthesis, Fails, Invoking
  <2> QED BY <1>6, <2>1 DEF Stays, InCall, Makes, SumsUp, Syntheses, Key
<1>7. CASE RecoverOpen \/ Synthesize
  <2> DEFINE first == CHOOSE k \in OpenKeys : TRUE
  <2>1. CASE OpenKeys = {}
    BY <1>7, <2>1 DEF RecoverOpen, Synthesize, Invoking, Makes, SumsUp, Syntheses, Key
  <2>2. CASE OpenKeys # {}
    <3>1. first \in OpenKeys /\ (TakeUpInLoop(first) \/ TakeUp(first, TRUE)) /\ UNCHANGED ops
      BY <1>7, <2>2 DEF RecoverOpen, Synthesize
    <3> HIDE DEF first
    <3> QED BY <3>1 DEF TakeUpInLoop, TakeUp, Goto, Resumes, InCall
  <2> QED BY <2>1, <2>2
<1>8. CASE Chain
  BY <1>8, ChainKinds DEF Makes
<1>9. CASE StartTask
  <2> DEFINE u == Min(Ready)
  <2>1. u \in Ready /\ u \in Tasks /\ Invoking(Key("worker", u, 0), <<"task", Version(u)>>, TRUE)
    BY <1>9, MinIsIn DEF StartTask, Ready
  <2> HIDE DEF u
  <2> QED BY <1>9, <2>1 DEF Invoking, Makes, Begins
<1>10. CASE AppliesStep
  BY <1>10, AppliesKinds DEF Makes
<1> QED BY <1>1, <1>2, <1>3, <1>4, <1>5, <1>6, <1>7, <1>8, <1>9, <1>10, StepKinds DEF QuietStep

LEMMA KnownGrows ==
  ASSUME CallInv, [Next]_vars, NEW k \in Known'
  PROVE  k \in Known \/ k = NoKey \/ (pc' = "invoke" /\ k = call'.key /\ Makes)
<1>1. CASE k \in DOMAIN ops'
  <2>1. k \notin DOMAIN ops => k = call.key /\ pc = "invoke"
    BY <1>1, NewRow
  <2> QED BY <2>1 DEF Known, InCall
<1>2. CASE k = call'.key /\ pc' \in InCall
  <2>1. CASE Stays
    BY <1>2, <2>1 DEF Stays, Known
  <2>2. CASE Resumes
    BY <1>2, <2>2 DEF Resumes, Known, OpenKeys
  <2>3. CASE Stumbles
    BY <1>2, <2>3 DEF Stumbles, NoCall
  <2> QED BY <1>2, <2>1, <2>2, <2>3, NextCalls
<1> QED BY <1>1, <1>2 DEF Known

LEMMA AppliedKept ==
  ASSUME CallInv, [Next]_vars
  PROVE  AppliedKeys \subseteq AppliedKeys' /\ \A k \in AppliedKeys : ops'[k] = ops[k]
BY RowsStayStep DEF RowsStay, AppliedKeys

\* A call that stays at its invocation has not moved.
LEMMA StillInvoking ==
  ASSUME [Next]_vars, pc' = "invoke", Stays
  PROVE  UNCHANGED vars
BY DEF Stays, MarkFailed, RefuseFutileRetry

-----------------------------------------------------------------------------
(* Repairs, and questions *)

\* Only what leader or peer answered is asked of the user, and what the run itself asks.
AskedFits == \A k \in items \cup resolved : k = System \/ (k \in AppliedKeys /\ k[1] \notin Workers)

LEMMA AskedStep ==
  ASSUME CallInv, AskedFits, [Next]_vars
  PROVE  AskedFits'
<1>g. AppliedKeys \subseteq AppliedKeys'
  BY AppliedKept
<1>a. ASSUME items' \cup resolved' \subseteq items \cup resolved \cup {System} PROVE AskedFits'
  BY <1>a, <1>g DEF AskedFits
<1>b. ASSUME NEW stages, NEW answers, Applies(stages, answers), stages \cap Workers = {}, AppendItem,
             UNCHANGED resolved
      PROVE  AskedFits'
  <2>1. call.key \in AppliedKeys' /\ call.key[1] \notin Workers
    BY <1>b, AppliedGrow, AppliesEffect
  <2>k. PICK k : k = call.key
    OBVIOUS
  <2>2. items' = items \cup {k}
    BY <1>b, <2>k DEF AppendItem
  <2> QED BY <1>b, <1>g, <2>1, <2>2, <2>k DEF AskedFits
<1>1. CASE AppliesStep
  <2>1. CASE MediationAsksUser \/ ReviewAsksUser \/ ApplySynthesisDecision
    <3>1. {"mediation_lead"} \cap Workers = {} /\ Reviews \cap Workers = {} /\ Syntheses \cap Workers = {}
      BY DEF Workers, Reviews, Syntheses
    <3> QED BY <2>1, <3>1, <1>b DEF MediationAsksUser, ReviewAsksUser, ApplySynthesisDecision, AsksUser
  <2>2. CASE UNCHANGED questions
    BY <2>2, <1>a DEF questions
  <2> QED BY <1>1, <2>1, <2>2 DEF AppliesStep, ApplyQuery, ApplyOutcome, ApplyMediation,
             ApplyConsult, Tell, ApplyReview, ReviewGivesUp, ApplySynthesis
<1>2. CASE Raise
  BY <1>2, <1>a DEF Raise
<1>3. CASE Publish
  BY <1>3, <1>a DEF Publish
<1>4. CASE Restart
  BY <1>4, <1>a, RestartEffect
<1>5. CASE UserAnswers
  BY <1>5, <1>a DEF UserAnswers
<1>6. CASE UNCHANGED questions
  BY <1>6, <1>a DEF questions
<1>7. \/ AppliesStep \/ Raise \/ Publish \/ Restart \/ UserAnswers \/ UNCHANGED questions
  BY StepKinds DEF QuietStep, Invoke, MarkFailed, RefuseFutileRetry, Complete, Repair,
     RepairSynthesis, Error, Consume, RefuseEffect, RecoverOpen, Chain, StartTask, LeaveLoop,
     SettleQuestions, SkipDependents, Settle, Synthesize, Park, Crash, Reclaim, UserResumes, vars,
     questions
<1> QED BY <1>1, <1>2, <1>3, <1>4, <1>5, <1>6, <1>7

\* A repair follows the failure of what it repairs, and is made once.
RepairsFit ==
  /\ \A k \in Known : Repaired(k) # NoKey => Is(Repaired(k), "failed")
  /\ pc = "invalid" => \A k \in DOMAIN ops : Repaired(k) # call.key
  /\ pc = "invoke" /\ Repaired(call.key) # NoKey => call.key \notin DOMAIN ops

LEMMA RepairsOnly == ASSUME Makes, Repaired(call'.key) # NoKey PROVE Mends
<1>s. \A k : Repaired(k) # NoKey => \/ k[1] = "worker" /\ k[3] # 0
                                    \/ k[1] \in {"acceptance_worker_repair", "acceptance_lead_repair"}
  BY DEF Repaired
<1>1. ~SumsUp
  BY <1>s DEF SumsUp, Syntheses
<1>2. ~BudgetSpent /\ ~Enquires /\ ~Tells /\ ~Submits /\ ~Returns
  BY <1>s DEF BudgetSpent, Enquires, Mediations, Tells, Submits, Returns, Key
<1>3. \A t \in Tasks : ~Begins(t) /\ ~TellsDecision(t) /\ ~SubmitsLate(t) /\ ~ReturnsLate(t)
  BY <1>s DEF Begins, TellsDecision, SubmitsLate, ReturnsLate, Key
<1> QED BY <1>1, <1>2, <1>3 DEF Makes

LEMMA RepairsFitStep ==
  ASSUME CallInv, RepairsFit, [Next]_vars
  PROVE  RepairsFit'
<1>f. \A k : Is(k, "failed") => Is(k, "failed")'
  BY RowsStayStep DEF RowsStay, Is
<1>1. ASSUME NEW k \in Known', Repaired(k) # NoKey PROVE Is(Repaired(k), "failed")'
  <2>1. k # NoKey
    BY <1>1 DEF Repaired, NoKey, Key
  <2>2. CASE k \in Known
    BY <1>1, <1>f, <2>2 DEF RepairsFit
  <2>3. CASE k = call'.key /\ Makes
    BY <1>1, <1>f, <2>3, RepairsOnly DEF Mends
  <2> QED BY <2>1, <2>2, <2>3, KnownGrows
<1>2. ASSUME pc' = "invalid", NEW k \in DOMAIN ops' PROVE Repaired(k) # call'.key
  <2>1. CASE MarkFailed \/ RefuseFutileRetry
    <3>c. PICK c : c = call.key
      OBVIOUS
    <3>1. Is(c, "prepared") /\ Moved(c, "failed") /\ call'.key = c /\ IsKey(c)
      BY <2>1, <3>c, DropEffect
    <3>2. k \in Known /\ c # NoKey
      BY <3>1 DEF Moved, Known, IsKey, NoKey, Key, Stages, Workers, Reviews, Mediations, Syntheses
    <3> QED BY <3>1, <3>2 DEF RepairsFit, Is
  <2>2. CASE UNCHANGED vars
    BY <1>2, <2>2 DEF RepairsFit, vars
  <2>3. MarkFailed \/ RefuseFutileRetry \/ UNCHANGED vars
    <3>1. Stays
      BY <1>2, NextCalls DEF InCall, Resumes, Stumbles
    <3> QED BY <1>2, <3>1 DEF Stays
  <2> QED BY <2>1, <2>2, <2>3
<1>3. ASSUME pc' = "invoke", Repaired(call'.key) # NoKey PROVE call'.key \notin DOMAIN ops'
  <2>1. CASE Stays
    BY <1>3, <2>1, StillInvoking DEF RepairsFit, vars
  <2>2. CASE Makes
    <3>1. Mends /\ UNCHANGED ops
      BY <1>3, <2>2, RepairsOnly, QuietOps DEF Mends, QuietStep
    <3> QED BY <3>1 DEF Mends, RepairsFit
  <2> QED BY <1>3, <2>1, <2>2, NextCalls DEF InCall, Resumes, Stumbles
<1> QED BY <1>1, <1>2, <1>3 DEF RepairsFit

-----------------------------------------------------------------------------
(* What the calls of a task show of each other: which came first, and what  *)
(* the budgets were.                                                       *)

\* a call with what its prompt is about: those made, and the one about to be made
Made == {<<k, ops[k].about>> : k \in DOMAIN ops} \cup {c \in {<<call.key, call.about>>} : pc = "invoke"}

\* the worker is told to finish within the budget, or told an answer
Budgeted(c) == c[1][1] = "mediation_worker" /\ c[2][1] = "budget"
Informed(c) == c[1][1] = "mediation_worker" /\ c[2][1] # "budget"
\* a call that asks, or may be answered by a query
Asking(c) == c[1][1] = "worker" \/ c[1][1] \in Mediations \/ Informed(c)

LEMMA InvokesNext ==
  ASSUME CallInv, [Next]_vars, pc' = "invoke"
  PROVE  UNCHANGED vars \/ (Makes /\ DOMAIN ops' = DOMAIN ops)
<1>1. UNCHANGED vars \/ Makes
  BY NextCalls, StillInvoking DEF InCall, Resumes, Stumbles
<1>2. \A k \in DOMAIN ops' : k \in DOMAIN ops
  <2>1. ~(\E k : Reserved(k) /\ Invoke)
    BY DEF Invoke
  <2> QED BY <2>1, NewRow
<1>3. DOMAIN ops \subseteq DOMAIN ops'
  BY RowsStayStep DEF RowsStay
<1> QED BY <1>1, <1>2, <1>3

LEMMA MadeGrows ==
  ASSUME CallInv, [Next]_vars, NEW c \in Made'
  PROVE  c \in Made \/ (pc' = "invoke" /\ c = <<call'.key, call'.about>> /\ Makes)
<1>1. ASSUME NEW k \in DOMAIN ops', c = <<k, ops'[k].about>> PROVE c \in Made
  <2>1. CASE k \in DOMAIN ops
    BY <1>1, <2>1, RowsStayStep DEF RowsStay, Made
  <2>2. CASE k \notin DOMAIN ops
    <3>1. pc = "invoke" /\ k = call.key /\ Reserved(k)
      BY <1>1, <2>2, NewRow
    <3>2. ops'[k].about = call.about
      BY <3>1 DEF Reserved
    <3> QED BY <1>1, <3>1, <3>2 DEF Made
  <2> QED BY <2>1, <2>2
<1>2. CASE pc' = "invoke" /\ c = <<call'.key, call'.about>>
  <2>1. CASE UNCHANGED vars
    BY <1>2, <2>1 DEF vars, Made
  <2> QED BY <1>2, <2>1, InvokesNext
<1> QED BY <1>1, <1>2 DEF Made

\* What was spent stays spent, and only an effect spends.
LEMMA SpentGrows ==
  ASSUME CallInv, [Next]_vars
  PROVE  /\ rounds' \in Nat /\ rounds <= rounds' /\ (Exhausted => Exhausted')
         /\ UNCHANGED <<rounds, reinv>> \/ (AppliesStep /\ OpenKeys' = {})
<1>i. rounds \in Nat /\ reinv \in Nat /\ {Rounds, ReCap} \subseteq Nat
  BY ExecutionConstants DEF CallInv, TasksShape
<1>a. ASSUME rounds' \in {rounds, rounds + 1}, reinv' \in {reinv, reinv + 1}
      PROVE  rounds' \in Nat /\ rounds <= rounds' /\ (Exhausted => Exhausted')
  BY <1>a, <1>i DEF Exhausted
<1>2. ApplyQuery \/ ApplyOutcome => rounds' = rounds /\ reinv' \in {reinv, reinv + 1}
  BY DEF ApplyQuery, ApplyOutcome, Reinvoked
<1>3. ApplyMediation \/ ApplyConsult \/ MediationAsksUser => rounds' = rounds + 1 /\ reinv' = reinv
  <2> SUFFICES ASSUME ApplyMediation \/ ApplyConsult \/ MediationAsksUser
               PROVE  rounds' = rounds + 1 /\ reinv' = reinv
    OBVIOUS
  <2>1. rounds' = call.key[3] /\ reinv' = reinv
    BY DEF ApplyMediation, ApplyConsult, MediationAsksUser, Tell, CountRound
  <2>2. PICK stages, answers : Applies(stages, answers) /\ stages \subseteq Mediations
    BY DEF ApplyMediation, ApplyConsult, MediationAsksUser, Mediations
  <2>3. RoundFits(call.key[2], call.key[3])
    BY <2>2, AppliesEffect, FitsEffect
  <2> QED BY <2>1, <2>3 DEF RoundFits
<1>4. AppliesStep => OpenKeys' = {}
  BY AppliesStepEffect, AppliesCloses
<1>5. UNCHANGED <<rounds, reinv>> \/ AppliesStep
  BY StepKinds, QuietTables, RestartEffect
     DEF QuietStep, KeepsTables, Error, Consume, Chain, StartTask, SkipDependents, Park, Reclaim,
         UserAnswers, counters
<1>6. UNCHANGED <<rounds, reinv>> \/ ApplyQuery \/ ApplyOutcome \/ ApplyMediation \/ ApplyConsult
      \/ MediationAsksUser
  BY <1>5 DEF AppliesStep, ApplyReview, ReviewAsksUser, ReviewGivesUp, ApplySynthesis,
     ApplySynthesisDecision, counters
<1> QED BY <1>a, <1>2, <1>3, <1>4, <1>5, <1>6

LEMMA LastOwn ==
  ASSUME OpsShape, NumbersFit, NEW t, Last(t)[1] \in Stages
  PROVE  Last(t) \in Own(t) /\ \A l \in Own(t) : ops[l].no <= ops[Last(t)].no
<1>1. CASE Own(t) = {}
  BY <1>1, NoLast, StageKinds DEF NoKey, Key
<1> QED BY <1>1, LastIs

\* the worker of a task asked: what follows a query follows one of its first call
Queried(t) == Answered(Of(AppliedKeys, {"worker"}, t), Queries) # {}
QueriedFirst == \A k \in Known : k[1] \in Mediations \cup {"mediation_worker"} => Queried(k[2])

\* A query is answered by a worker's call, and not by one that may not ask.
LEMMA QueryKinds ==
  ASSUME OpsShape, NEW k \in DOMAIN ops, ops[k].answer \in Queries
  PROVE  Asking(<<k, ops[k].about>>) /\ k[1] \in {"worker", "mediation_worker"}
<1>1. IsKey(k) /\ ops[k].answer \in Parsed(k[1], ops[k].about)
  BY DEF OpsShape, IsRow, Queries
<1> QED BY <1>1 DEF Parsed, Queries, Outcomes, MediationAnswers, Asks, ReviewAnswers, Again,
        SynthesisAnswers, Reviews, Mediations, Syntheses, Asking, Informed

LEMMA QueriedStep ==
  ASSUME CallInv, NumbersFit, QueriedFirst, [Next]_vars
  PROVE  QueriedFirst'
<1>g. \A t : Queried(t) => Queried(t)'
  BY OwnCalls DEF Queried
<1>o. OpsShape
  BY DEF CallInv
<1> SUFFICES ASSUME NEW k \in Known', k[1] \in Mediations \cup {"mediation_worker"}
             PROVE  Queried(k[2])'
  BY DEF QueriedFirst
<1>1. CASE k \in Known
  BY <1>1, <1>g DEF QueriedFirst
<1>2. CASE k = call'.key /\ Makes
  <2>1. CASE BudgetSpent \/ Enquires
    <3>c. PICK c : c = call.key
      OBVIOUS
    <3>1. /\ Applies(Workers, Queries) /\ k[2] = c[2]
      BY <1>2, <2>1, <3>c DEF BudgetSpent, Enquires, ApplyQuery, Key
    <3>2. c \in DOMAIN ops /\ ops[c].answer \in Queries /\ pc = "apply"
      BY <3>1, <3>c, AppliesEffect
    <3>3. c \in AppliedKeys' /\ ops'[c].answer = ops[c].answer
      BY <3>1, <3>c, AppliedGrow
    <3>4. c[1] = "worker" => Queried(c[2])'
      BY <3>2, <3>3 DEF Queried, Answered, Of
    <3>5. c[1] = "mediation_worker" => Queried(c[2])
      BY <3>2 DEF QueriedFirst, Known
    <3> QED BY <1>g, <1>o, <3>1, <3>2, <3>4, <3>5, QueryKinds
  <2>2. CASE Tells
    <3>1. /\ call.key \in DOMAIN ops /\ call.key[1] \in Mediations /\ k[2] = call.key[2]
      BY <1>2, <2>2, AppliesEffect DEF Tells, ApplyMediation, ApplyConsult, Mediations, Key
    <3> QED BY <1>g, <3>1 DEF QueriedFirst, Known
  <2>3. ASSUME NEW t \in Tasks, TellsDecision(t) PROVE Queried(k[2])'
    <3>1. Last(t)[1] \in Mediations /\ k[2] = t
      BY <1>2, <2>3 DEF TellsDecision, Key
    <3>2. Last(t) \in Known /\ Last(t)[2] = t
      BY <1>o, <3>1, LastOwn DEF Own, AppliedKeys, Known, Stages
    <3> QED BY <1>g, <3>1, <3>2 DEF QueriedFirst
  <2>4. ~Mends /\ ~Submits /\ ~Returns /\ ~SumsUp
        /\ \A t \in Tasks : ~Begins(t) /\ ~SubmitsLate(t) /\ ~ReturnsLate(t)
    BY <1>2 DEF Mends, RepairStages, Submits, Returns, SumsUp, Begins, SubmitsLate, ReturnsLate, Key,
       Mediations, Syntheses
  <2> QED BY <1>2, <2>1, <2>2, <2>3, <2>4 DEF Makes
<1>3. k # NoKey
  BY DEF NoKey, Key, Mediations
<1> QED BY <1>1, <1>2, <1>3, KnownGrows

\* A call that a step applies is the newest of the cycle.
LEMMA NewlyApplied ==
  ASSUME CallInv, NumbersFit, [Next]_vars, NEW k \in AppliedKeys', k \notin AppliedKeys
  PROVE  /\ AppliesStep /\ k = call.key /\ k \in OpenKeys /\ k \in DOMAIN ops /\ IsKey(k) /\ Fits
         /\ pc = "apply" /\ ~Replayed /\ DOMAIN ops' = DOMAIN ops
         /\ ops'[k].answer = ops[k].answer /\ \A l \in DOMAIN ops : ops[l].no <= ops[k].no
<1>1. AppliesStep
  BY AppliedStay
<1>2. PICK stages, answers : Applies(stages, answers)
  BY <1>1, AppliesStepEffect
<1>3. AppliedKeys' = AppliedKeys \cup {call.key}
  BY <1>2, AppliedGrow
<1>4. k = call.key
  BY <1>3
<1>5. ~Is(k, "applied")
  BY DEF AppliedKeys, Is
<1>6. Is(k, "completed") /\ Moved(k, "applied") /\ IsKey(k) /\ Fits /\ pc = "apply" /\ ~Replayed
  BY <1>2, <1>4, <1>5, AppliesEffect
<1>7. k \in OpenKeys /\ k \in DOMAIN ops
  BY <1>6 DEF OpenKeys, Is, OpenOp
<1>8. \A l \in DOMAIN ops : ops[l].no <= ops[k].no
  <2> DEFINE N == Cardinality(DOMAIN ops)
  <2>1. ops[k].no = N /\ \A l \in DOMAIN ops : ops[l].no \in 1 .. N
    BY <1>7 DEF NumbersFit
  <2> HIDE DEF N
  <2> QED BY <2>1
<1> QED BY <1>1, <1>4, <1>6, <1>7, <1>8 DEF Moved

\* Only a teammate that the budget allows is asked, a worker is told what a mediation
\* within the rounds said, or to finish because no help is left.
HelpFits ==
  /\ \A c \in Made : /\ Informed(c) => c[1][3] \in Nat /\ c[1][3] <= rounds
                     /\ Budgeted(c) => Exhausted
  /\ \A k \in OpenKeys \cup {l \in {call.key} : pc = "invoke"} : k[1] \in Mediations => ~Exhausted

LEMMA HelpFitsStep ==
  ASSUME CallInv, NumbersFit, BudgetInv, HelpFits, [Next]_vars
  PROVE  HelpFits'
<1>g. rounds \in Nat /\ rounds' \in Nat /\ rounds <= rounds' /\ (Exhausted => Exhausted')
  BY SpentGrows DEF CallInv, TasksShape
<1>1. ASSUME NEW c \in Made' PROVE /\ Informed(c) => c[1][3] \in Nat /\ c[1][3] <= rounds'
                                   /\ Budgeted(c) => Exhausted'
  <2>1. CASE c \in Made
    BY <1>g, <2>1 DEF HelpFits
  <2>2. CASE c = <<call'.key, call'.about>> /\ Makes
    <3>1. CASE Tells
      <4>1. PICK stages, answers : Applies(stages, answers) /\ stages \subseteq Mediations
        BY <3>1 DEF Tells, ApplyMediation, ApplyConsult, Mediations
      <4>2. RoundFits(call.key[2], call.key[3]) /\ rounds' = call.key[3]
        BY <3>1, <4>1, AppliesEffect, FitsEffect DEF Tells, ApplyMediation, ApplyConsult, Tell, CountRound
      <4>3. c[1][3] = rounds + 1 /\ c[1][3] = rounds' /\ c[2] = <<"answer", 0>>
        BY <2>2, <3>1, <4>2 DEF Tells, RoundFits, Key
      <4> QED BY <1>g, <4>3 DEF Budgeted
    <3>2. ASSUME NEW t \in Tasks, TellsDecision(t) PROVE <1>1!2
      <4>1. Last(t) \in Helps /\ c[1][3] = Last(t)[3] /\ c[2] = <<"user", 0>>
        BY <2>2, <3>2, LastOwn DEF TellsDecision, Own, Helps, Key, CallInv, Stages
      <4>2. c[1][3] \in Nat /\ c[1][3] <= rounds
        BY <4>1 DEF BudgetInv
      <4> QED BY <1>g, <4>1, <4>2 DEF Budgeted
    <3>3. CASE BudgetSpent
      BY <2>2, <3>3 DEF BudgetSpent, Informed
    <3>4. ~Tells /\ ~BudgetSpent /\ (\A t \in Tasks : ~TellsDecision(t)) => c[1][1] # "mediation_worker"
      BY <2>2 DEF Makes, Mends, RepairStages, Enquires, Submits, Returns, SumsUp, Begins, SubmitsLate,
         ReturnsLate, Key, Mediations, Syntheses
    <3> QED BY <3>1, <3>2, <3>3, <3>4 DEF Informed, Budgeted
  <2> QED BY <2>1, <2>2, MadeGrows
<1>2. ASSUME NEW k \in OpenKeys', k[1] \in Mediations PROVE ~Exhausted'
  <2>1. UNCHANGED <<rounds, reinv>>
    BY SpentGrows
  <2>2. k \in OpenKeys \/ (pc = "invoke" /\ k = call.key)
    <3>1. CASE k \in DOMAIN ops
      BY <3>1, CallInvStep, OpsStepEffect DEF CallInv, Reserved
    <3>2. CASE k \notin DOMAIN ops
      BY <3>2, NewRow DEF OpenKeys
    <3> QED BY <3>1, <3>2
  <2> QED BY <1>2, <2>1, <2>2 DEF HelpFits, Exhausted
<1>3. ASSUME pc' = "invoke", call'.key[1] \in Mediations PROVE ~Exhausted'
  <2>1. CASE UNCHANGED vars
    BY <1>3, <2>1 DEF HelpFits, Exhausted, vars
  <2>2. CASE Makes
    <3>1. Enquires
      BY <1>3, <2>2 DEF Makes, Mends, RepairStages, BudgetSpent, Tells, TellsDecision, Submits, Returns,
         SumsUp, Begins, SubmitsLate, ReturnsLate, Key, Mediations, Syntheses
    <3> QED BY <3>1 DEF Enquires
  <2> QED BY <1>3, <2>1, <2>2, InvokesNext
<1> QED BY <1>1, <1>2, <1>3 DEF HelpFits

\* The worker's first call and its one repair are all that start a task.
WorkerOnce == \A k \in Known : k[1] = "worker" => k[3] \in {0, 1}

LEMMA WorkerOnceStep ==
  ASSUME CallInv, WorkerOnce, [Next]_vars
  PROVE  WorkerOnce'
<1> SUFFICES ASSUME NEW k \in Known', k[1] = "worker" PROVE k[3] \in {0, 1}
  BY DEF WorkerOnce
<1>1. CASE k \in Known
  BY <1>1 DEF WorkerOnce
<1>2. CASE k = call'.key /\ Makes
  <2>1. CASE Mends
    BY <1>2, <2>1 DEF Mends, Repaired, Key
  <2>2. ASSUME NEW t \in Tasks, Begins(t) PROVE k[3] = 0
    BY <1>2, <2>2 DEF Begins, Key
  <2>3. Mends \/ \E t \in Tasks : Begins(t)
    BY <1>2 DEF Makes, Enquires, BudgetSpent, Tells, TellsDecision, Submits, Returns,
       SumsUp, SubmitsLate, ReturnsLate, Key, Mediations, Syntheses
  <2> QED BY <2>1, <2>2, <2>3
<1>3. k # NoKey
  BY DEF NoKey, Key
<1> QED BY <1>1, <1>2, <1>3, KnownGrows

\* A mediation's answer is given after the mediation; and once the worker of a task has
\* been told to finish, the task asks nothing more.
InOrder ==
  /\ \A m \in Helps, w \in DOMAIN ops :
       Informed(<<w, ops[w].about>>) /\ m[2] = w[2] /\ m[3] <= w[3] => ops[m].no < ops[w].no
  /\ \A b \in AppliedKeys, k \in DOMAIN ops :
       Budgeted(<<b, ops[b].about>>) /\ Asking(<<k, ops[k].about>>) /\ k[2] = b[2] =>
         ops[k].no < ops[b].no
  /\ pc = "invoke" /\ call.key \notin DOMAIN ops /\ Asking(<<call.key, call.about>>) =>
       \A b \in AppliedKeys : b[2] = call.key[2] => ~Budgeted(<<b, ops[b].about>>)

\* Rows keep their number and what they are about; a new one has the highest number.
LEMMA RowsOrder ==
  ASSUME CallInv, NumbersFit, [Next]_vars
  PROVE  /\ \A k \in DOMAIN ops : k \in DOMAIN ops' /\ ops'[k].no = ops[k].no /\ ops'[k].about = ops[k].about
                                  /\ ops[k].no \in Nat
         /\ \A k \in DOMAIN ops' \ DOMAIN ops :
              /\ pc = "invoke" /\ k = call.key /\ ops'[k].about = call.about /\ ops'[k].no \in Nat
              /\ AppliedKeys' = AppliedKeys
              /\ \A l \in DOMAIN ops : ops[l].no < ops'[k].no
<1>1. \A k \in DOMAIN ops : k \in DOMAIN ops' /\ ops'[k].no = ops[k].no /\ ops'[k].about = ops[k].about
  BY RowsStayStep DEF RowsStay
<1>c. Cardinality(DOMAIN ops) \in Nat
  BY FS_CardinalityType DEF CallInv, OpsShape
<1>n. \A k \in DOMAIN ops : ops[k].no \in Nat
  BY <1>c DEF NumbersFit
<1>2. ASSUME NEW k \in DOMAIN ops', k \notin DOMAIN ops
      PROVE  /\ pc = "invoke" /\ k = call.key /\ ops'[k].about = call.about /\ ops'[k].no \in Nat
             /\ AppliedKeys' = AppliedKeys
             /\ \A l \in DOMAIN ops : ops[l].no < ops'[k].no
  <2>1. pc = "invoke" /\ k = call.key /\ Reserved(k)
    BY <1>2, NewRow
  <2>2. ops'[k].about = call.about /\ ops'[k].no = Cardinality(DOMAIN ops) + 1
    BY <2>1 DEF Reserved
  <2>3. AppliedKeys' = AppliedKeys
    BY <2>1 DEF Reserved, AppliedKeys
  <2> DEFINE N == Cardinality(DOMAIN ops)
  <2>4. \A l \in DOMAIN ops : ops[l].no \in 1 .. N
    BY DEF NumbersFit
  <2> HIDE DEF N
  <2>5. ops'[k].no = N + 1 /\ N \in Nat
    BY <1>c, <2>2 DEF N
  <2> QED BY <2>1, <2>2, <2>3, <2>4, <2>5
<1> QED BY <1>1, <1>n, <1>2

\* When a call is about to be made that may be answered by a query, no worker of its
\* task has been told to finish.
LEMMA NothingMoreIsAsked ==
  ASSUME CallInv, NumbersFit, BudgetInv, RepairsFit, QueriedFirst, WorkerOnce, HelpFits, InOrder,
         [Next]_vars, Makes, pc' = "invoke", call'.key \notin DOMAIN ops',
         Asking(<<call'.key, call'.about>>),
         NEW b \in AppliedKeys', b[2] = call'.key[2], Budgeted(<<b, ops'[b].about>>)
  PROVE  FALSE
<1>n. QueriedFirst' /\ RepairsFit' /\ WorkerOnce' /\ HelpFits' /\ CallInv'
  BY QueriedStep, RepairsFitStep, WorkerOnceStep, HelpFitsStep, CallInvStep
<1>b. b \in DOMAIN ops' /\ b[1] = "mediation_worker"
  BY DEF AppliedKeys, Budgeted
<1>1. PICK w \in AppliedKeys' : w[1] = "worker" /\ w[2] = b[2]
  BY <1>b, <1>n DEF QueriedFirst, Queried, Known, Answered, Of
<1>2. w \in DOMAIN ops' /\ ops'[w].st = "applied" /\ IsKey(w)
  BY <1>1, <1>n DEF AppliedKeys, CallInv, OpsShape
<1>3. w[3] \in {0, 1} /\ w = <<w[1], w[2], w[3]>>
  BY <1>1, <1>2, <1>n DEF WorkerOnce, Known, IsKey
<1>4. w[3] = 1 => Is(Key("worker", b[2], 0), "failed")'
  <2>1. w[3] = 1 => Repaired(w) = Key("worker", b[2], 0) /\ Repaired(w) # NoKey
    BY <1>1, <1>2, <1>3 DEF Repaired, NoKey, Key
  <2> QED BY <1>2, <1>n, <2>1 DEF RepairsFit, Known
<1>5. CASE Mends
  <2>1. call'.key[1] = "worker" /\ Is(call.key, "failed") /\ Repaired(call'.key) = call.key
    BY <1>5 DEF Mends, RepairStages, Asking, Informed, Mediations
  <2>2. call.key = Key("worker", b[2], 0) /\ call'.key[3] = 1 /\ UNCHANGED ops
    BY <1>5, <2>1, QuietOps DEF Repaired, Mends, QuietStep, NoKey, Key
  <2>3. call'.key = Key("worker", b[2], 1)
    BY <2>1, <2>2, <1>n DEF CallInv, CallShape, InCall, IsKey, Key, NoCall, NoKey
  <2>4. w = call.key \/ w = call'.key
    BY <1>1, <1>3, <2>2, <2>3 DEF Key
  <2> QED BY <1>2, <2>1, <2>2, <2>4 DEF Is
<1>6. ASSUME NEW t \in Tasks, Begins(t) PROVE FALSE
  <2>1. call'.key = Key("worker", b[2], 0)
    BY <1>6 DEF Begins, Key
  <2>2. w[3] = 0 => w = call'.key
    BY <1>1, <1>3, <2>1 DEF Key
  <2> QED BY <1>2, <1>3, <1>4, <2>1, <2>2 DEF Is
<1>7. CASE Enquires
  <2>1. Exhausted'
    BY <1>b, <1>n DEF HelpFits, Made
  <2> QED BY <1>7, <2>1 DEF Enquires
<1>8. CASE Tells
  <2>1. PICK stages, answers : Applies(stages, answers) /\ stages \subseteq Mediations
    BY <1>8 DEF Tells, ApplyMediation, ApplyConsult, Mediations
  <2>2. RoundFits(call.key[2], call.key[3]) /\ call.key[1] \in Mediations
    BY <2>1, AppliesEffect, FitsEffect
  <2>3. call.key \notin AppliedKeys
    <3>1. ~(rounds + 1 <= rounds)
      BY DEF CallInv, TasksShape
    <3> QED BY <2>2, <3>1 DEF RoundFits, BudgetInv, Helps
  <2>4. call.key \in OpenKeys
    BY <2>1, <2>3, AppliesEffect DEF OpenKeys, AppliedKeys, Is, OpenOp
  <2>5. ~Exhausted
    BY <2>2, <2>4 DEF HelpFits
  <2>6. b # call.key
    BY <1>b, <2>2 DEF Mediations
  <2>7. b \in AppliedKeys
    BY <2>1, <2>6, AppliedGrow
  <2>8. <<b, ops[b].about>> \in Made /\ ops'[b] = ops[b]
    BY <2>7, AppliedKept DEF Made, AppliedKeys
  <2> QED BY <2>5, <2>8 DEF HelpFits
<1>9. ASSUME NEW t \in Tasks, TellsDecision(t) PROVE FALSE
  <2>1. UNCHANGED ops
    BY <1>9, QuietOps DEF TellsDecision, QuietStep
  <2>2. b \in Own(t)
    BY <1>9, <2>1 DEF TellsDecision, Key, Own, AppliedKeys
  <2>3. Last(t) \in Own(t) /\ Last(t)[1] \in Mediations /\ ops[b].no <= ops[Last(t)].no
    BY <1>9, <2>2, LastOwn DEF TellsDecision, CallInv, Stages
  <2>4. Last(t) \in DOMAIN ops /\ b \in DOMAIN ops /\ b \in AppliedKeys /\ Last(t)[2] = b[2]
    BY <2>2, <2>3 DEF Own, AppliedKeys
  <2>5. ops[Last(t)].no < ops[b].no
    BY <2>1, <2>3, <2>4 DEF InOrder, Asking
  <2>6. ops[Last(t)].no \in Nat /\ ops[b].no \in Nat
    BY <2>4, RowsOrder
  <2> QED BY <2>3, <2>5, <2>6
<1>10. ~BudgetSpent /\ ~Submits /\ ~Returns /\ ~SumsUp
       /\ \A t \in Tasks : ~SubmitsLate(t) /\ ~ReturnsLate(t)
  BY DEF BudgetSpent, Submits, Returns, SumsUp, SubmitsLate, ReturnsLate, Key, Mediations, Syntheses,
     Asking, Informed
<1> QED BY <1>5, <1>6, <1>7, <1>8, <1>9, <1>10 DEF Makes

LEMMA InOrderStep ==
  ASSUME CallInv, NumbersFit, BudgetInv, RepairsFit, QueriedFirst, WorkerOnce, HelpFits, InOrder,
         [Next]_vars
  PROVE  InOrder'
<1>d. AppliedKeys \subseteq DOMAIN ops /\ Helps \subseteq AppliedKeys
  BY DEF AppliedKeys, Helps
<1>1. ASSUME NEW m \in Helps', NEW w \in DOMAIN ops', Informed(<<w, ops'[w].about>>), m[2] = w[2], m[3] <= w[3]
      PROVE  ops'[m].no < ops'[w].no
  <2>0. m \in AppliedKeys' /\ m[1] \in Mediations
    BY DEF Helps
  <2>1. CASE w \notin DOMAIN ops
    <3>1. m \in DOMAIN ops
      BY <1>d, <2>0, <2>1, RowsOrder
    <3> QED BY <2>1, <3>1, RowsOrder
  <2>2. CASE w \in DOMAIN ops /\ m \in AppliedKeys
    <3>1. m \in Helps /\ Informed(<<w, ops[w].about>>)
      BY <1>1, <2>0, <2>2, RowsOrder DEF Helps
    <3>2. ops[m].no < ops[w].no
      BY <1>1, <2>2, <3>1 DEF InOrder
    <3> QED BY <1>d, <2>2, <3>2, RowsOrder
  <2>3. CASE w \in DOMAIN ops /\ m \notin AppliedKeys
    <3>1. m = call.key /\ IsKey(m) /\ Fits
      BY <2>0, <2>3, NewlyApplied
    <3>2. m[3] = rounds + 1
      BY <2>0, <3>1, FitsEffect DEF RoundFits
    <3>3. w[3] \in Nat /\ w[3] <= rounds
      <4>1. <<w, ops[w].about>> \in Made /\ Informed(<<w, ops[w].about>>)
        BY <1>1, <2>3, RowsOrder DEF Made
      <4> QED BY <4>1 DEF HelpFits
    <3>4. rounds \in Nat
      BY DEF CallInv, TasksShape
    <3> QED BY <1>1, <3>2, <3>3, <3>4
  <2> QED BY <2>1, <2>2, <2>3
<1>2. ASSUME NEW b \in AppliedKeys', NEW k \in DOMAIN ops', Budgeted(<<b, ops'[b].about>>),
             Asking(<<k, ops'[k].about>>), k[2] = b[2]
      PROVE  ops'[k].no < ops'[b].no
  <2>1. CASE k \notin DOMAIN ops
    <3>1. pc = "invoke" /\ k = call.key /\ ops'[k].about = call.about /\ b \in AppliedKeys
      BY <2>1, RowsOrder
    <3>2. ops'[b].about = ops[b].about
      BY <3>1, <1>d, RowsOrder
    <3> QED BY <1>2, <2>1, <3>1, <3>2 DEF InOrder
  <2>2. CASE k \in DOMAIN ops /\ b \in AppliedKeys
    <3>1. Budgeted(<<b, ops[b].about>>) /\ Asking(<<k, ops[k].about>>)
      BY <1>2, <1>d, <2>2, RowsOrder
    <3>2. ops[k].no < ops[b].no
      BY <1>2, <2>2, <3>1 DEF InOrder
    <3> QED BY <1>d, <2>2, <3>2, RowsOrder
  <2>3. CASE k \in DOMAIN ops /\ b \notin AppliedKeys
    <3>1. b \in DOMAIN ops /\ ops[k].no <= ops[b].no
      BY <2>3, NewlyApplied
    <3>2. k # b
      BY <1>2 DEF Asking, Budgeted, Informed, Mediations
    <3>3. ops[k].no # ops[b].no
      BY <2>3, <3>1, <3>2 DEF NumbersFit
    <3>4. ops[k].no \in Nat /\ ops[b].no \in Nat /\ ops'[k].no = ops[k].no /\ ops'[b].no = ops[b].no
      BY <2>3, <3>1, RowsOrder
    <3> QED BY <3>1, <3>3, <3>4
  <2> QED BY <2>1, <2>2, <2>3
<1>3. ASSUME pc' = "invoke", call'.key \notin DOMAIN ops', Asking(<<call'.key, call'.about>>),
             NEW b \in AppliedKeys', b[2] = call'.key[2], Budgeted(<<b, ops'[b].about>>)
      PROVE  FALSE
  <2>1. CASE UNCHANGED vars
    <3>1. b \in AppliedKeys /\ Budgeted(<<b, ops[b].about>>)
      BY <1>3, <2>1 DEF AppliedKeys, vars
    <3> QED BY <1>3, <2>1, <3>1 DEF InOrder, vars
  <2>2. CASE Makes
    BY <1>3, <2>2, NothingMoreIsAsked
  <2> QED BY <1>3, <2>1, <2>2, InvokesNext
<1> QED BY <1>1, <1>2, <1>3 DEF InOrder

\* The worker is told of a review after that review was applied.
ReviewedFirst ==
  \A k \in Known : k[1] = "acceptance_worker" =>
    \E r \in AppliedKeys : /\ r[1] \in Reviews /\ r[2] = k[2] /\ r[3] = k[3]
                           /\ k \in DOMAIN ops => ops[r].no < ops[k].no

LEMMA ReviewedFirstStep ==
  ASSUME CallInv, NumbersFit, ReviewedFirst, [Next]_vars
  PROVE  ReviewedFirst'
<1>d. AppliedKeys \subseteq DOMAIN ops /\ AppliedKeys \subseteq AppliedKeys' /\ DOMAIN ops \subseteq Known
  BY AppliedKept DEF AppliedKeys, Known
<1> SUFFICES ASSUME NEW k \in Known', k[1] = "acceptance_worker"
             PROVE  \E r \in AppliedKeys' : /\ r[1] \in Reviews /\ r[2] = k[2] /\ r[3] = k[3]
                                            /\ k \in DOMAIN ops' => ops'[r].no < ops'[k].no
  BY DEF ReviewedFirst
<1>1. CASE k \in Known
  <2>1. PICK r \in AppliedKeys : /\ r[1] \in Reviews /\ r[2] = k[2] /\ r[3] = k[3]
                                 /\ k \in DOMAIN ops => ops[r].no < ops[k].no
    BY <1>1 DEF ReviewedFirst
  <2>2. k \in DOMAIN ops' => ops'[r].no < ops'[k].no
    BY <1>d, <2>1, RowsOrder
  <2> QED BY <1>d, <2>1, <2>2
<1>2. CASE k \notin Known /\ pc' = "invoke" /\ k = call'.key /\ Makes
  <2>1. k \notin DOMAIN ops'
    <3>1. CASE UNCHANGED vars
      BY <1>2, <3>1 DEF vars, Known, InCall
    <3> QED BY <1>2, <1>d, <3>1, InvokesNext
  <2>2. CASE Returns
    <3>1. Applies(Reviews, Again) /\ k[2] = call.key[2] /\ k[3] = call.key[3]
      BY <1>2, <2>2 DEF Returns, ApplyReview, Key
    <3>2. call.key \in AppliedKeys' /\ call.key[1] \in Reviews
      BY <3>1, AppliesEffect, AppliedGrow
    <3> QED BY <2>1, <3>1, <3>2
  <2>3. ASSUME NEW t \in Tasks, ReturnsLate(t)
        PROVE  \E r \in AppliedKeys' : r[1] \in Reviews /\ r[2] = k[2] /\ r[3] = k[3]
    <3>1. Last(t)[1] \in Reviews /\ k[2] = t /\ k[3] = Last(t)[3]
      BY <1>2, <2>3 DEF ReturnsLate, ReviewGiven, Key
    <3>2. Last(t) \in AppliedKeys /\ Last(t)[2] = t
      BY <3>1, LastOwn DEF Own, CallInv, Stages
    <3> QED BY <1>d, <3>1, <3>2
  <2>4. Returns \/ \E t \in Tasks : ReturnsLate(t)
    BY <1>2 DEF Makes, Mends, RepairStages, Enquires, BudgetSpent, Tells, TellsDecision, Submits,
       Begins, SumsUp, SubmitsLate, Key, Mediations, Syntheses
  <2> QED BY <2>1, <2>2, <2>3, <2>4
<1>3. k # NoKey
  BY DEF NoKey, Key
<1> QED BY <1>1, <1>2, <1>3, KnownGrows

HistoryInv ==
  BudgetInv /\ AskedFits /\ RepairsFit /\ WorkerOnce /\ QueriedFirst /\ HelpFits /\ InOrder /\ ReviewedFirst

LEMMA HistoryInit == Init => HistoryInv
<1> SUFFICES ASSUME Init PROVE HistoryInv
  OBVIOUS
<1>1. Known = {} /\ Made = {} /\ AppliedKeys = {} /\ Helps = {} /\ OpenKeys = {} /\ DOMAIN ops = {}
  BY DEF Init, Known, Made, InCall, AppliedKeys, Helps, OpenKeys
<1>2. pc = "loop" /\ items = {} /\ resolved = {}
  BY DEF Init
<1> QED BY <1>1, <1>2, BudgetInit DEF HistoryInv, AskedFits, RepairsFit, WorkerOnce, QueriedFirst,
        HelpFits, InOrder, ReviewedFirst

LEMMA HistoryStep == CallInv /\ TableInv /\ HistoryInv /\ [Next]_vars => HistoryInv'
BY BudgetStep, AskedStep, RepairsFitStep, WorkerOnceStep, QueriedStep, HelpFitsStep, InOrderStep,
   ReviewedFirstStep DEF HistoryInv, TableInv

-----------------------------------------------------------------------------
(* The last call of a task, and whether its outcome can still be reviewed    *)

LastFits ==
  \A t : IF Own(t) = {} THEN Last(t) = NoKey
         ELSE Last(t) \in Own(t) /\ \A l \in Own(t) : ops[l].no <= ops[Last(t)].no

LEMMA LastFitsHolds == OpsShape /\ NumbersFit => LastFits
BY LastIs, NoLast DEF LastFits

LEMMA LastStays ==
  ASSUME CallInv, NumbersFit, [Next]_vars, NEW t, Own(t)' = Own(t)
  PROVE  Last(t)' = Last(t)
<1>n. OpsShape /\ OpsShape' /\ NumbersFit'
  BY CallInvStep, NumbersStep DEF CallInv
<1>l. LastFits /\ LastFits'
  BY <1>n, LastFitsHolds, PTL
<1>1. CASE Own(t) = {}
  BY <1>1, <1>l DEF LastFits
<1>2. CASE Own(t) # {}
  <2>1. Last(t) \in Own(t) /\ \A l \in Own(t) : ops[l].no <= ops[Last(t)].no
    BY <1>2, <1>l DEF LastFits
  <2>2. Last(t)' \in Own(t) /\ \A l \in Own(t) : ops'[l].no <= ops'[Last(t)'].no
    BY <1>2, <1>l DEF LastFits
  <2>3. \A l \in Own(t) : l \in DOMAIN ops /\ ops'[l].no = ops[l].no /\ ops[l].no \in Nat
    BY RowsOrder DEF Own, AppliedKeys
  <2>4. ops[Last(t)'].no = ops[Last(t)].no
    BY <2>1, <2>2, <2>3
  <2> QED BY <2>1, <2>2, <2>3, <2>4 DEF NumbersFit
<1> QED BY <1>1, <1>2

\* A call that a step applies is the last one of its task then.
LEMMA LastApplied ==
  ASSUME CallInv, NumbersFit, [Next]_vars, NEW k \in AppliedKeys', k \notin AppliedKeys
  PROVE  Last(k[2])' = k
<1>n. OpsShape /\ OpsShape' /\ NumbersFit'
  BY CallInvStep, NumbersStep DEF CallInv
<1>l. LastFits'
  BY <1>n, LastFitsHolds, PTL
<1>1. k \in Own(k[2])'
  BY DEF Own
<1>2. PICK l : l = Last(k[2])'
  OBVIOUS
<1>3. l \in Own(k[2])' /\ ops'[k].no <= ops'[l].no
  BY <1>1, <1>2, <1>l DEF LastFits
<1>4. k \in DOMAIN ops /\ DOMAIN ops' = DOMAIN ops /\ \A x \in DOMAIN ops : ops[x].no <= ops[k].no
  BY NewlyApplied
<1>5. l \in DOMAIN ops' /\ k \in DOMAIN ops'
  BY <1>3 DEF Own, AppliedKeys
<1>6. ops'[k].no = ops[k].no /\ ops'[l].no = ops[l].no /\ ops[k].no \in Nat /\ ops[l].no \in Nat
  BY <1>4, <1>5, RowsOrder
<1>7. ops'[l].no = ops'[k].no
  BY <1>3, <1>4, <1>5, <1>6
<1> QED BY <1>2, <1>5, <1>7, <1>n DEF NumbersFit

\* only the user resolves what was asked
LEMMA ResolvedStays == [Next]_vars /\ ~UserAnswers => UNCHANGED resolved
BY StepKinds, RestartEffect
   DEF QuietStep, AppliesStep, Invoke, MarkFailed, RefuseFutileRetry, Complete, Repair,
       RepairSynthesis, Error, Consume, Raise, Publish, RefuseEffect, RecoverOpen, Chain, StartTask,
       LeaveLoop, SettleQuestions, SkipDependents, Settle, Synthesize, Park, Crash, Reclaim,
       UserResumes, ApplyQuery, ApplyOutcome, ApplyMediation, ApplyConsult, Tell, MediationAsksUser,
       ApplyReview, ReviewAsksUser, ReviewGivesUp, ApplySynthesis, ApplySynthesisDecision, AsksUser,
       AppendItem, vars, questions, Restart

\* The last call of the task delivered an outcome, or reviewed one, and no question
\* about it was answered: that outcome is due for review, or for what the review said.
Reviewable(t) ==
  /\ Last(t) \notin resolved
  /\ Last(t)[1] \in Reviews \/ (Last(t)[1] \in Workers /\ ops[Last(t)].answer \in Outcomes)

LEMMA ReviewableStays ==
  ASSUME CallInv, NumbersFit, [Next]_vars, NEW t, Reviewable(t), Own(t)' = Own(t),
         Last(t) \notin resolved'
  PROVE  Reviewable(t)'
<1>1. Last(t)' = Last(t)
  BY LastStays
<1>2. Last(t) \in AppliedKeys
  BY LastOwn DEF Reviewable, CallInv, Stages, Own
<1>3. ops'[Last(t)] = ops[Last(t)]
  BY <1>2, AppliedKept
<1> QED BY <1>1, <1>3 DEF Reviewable

LEMMA OwnStays == ASSUME AppliedKeys' = AppliedKeys PROVE \A t : Own(t)' = Own(t)
BY DEF Own

\* a review that is no use twice is consumed
RaisedFits == pc \in {"consume", "raise"} => call.key[1] \in Reviews

LEMMA RaisedStep ==
  ASSUME CallInv, RaisedFits, [Next]_vars
  PROVE  RaisedFits'
<1> SUFFICES ASSUME pc' \in {"consume", "raise"} PROVE call'.key[1] \in Reviews
  BY DEF RaisedFits
<1>1. Stays
  BY NextCalls DEF InCall, Resumes, Stumbles
<1> QED BY <1>1 DEF Stays, RaisedFits, vars

\* the leader is about to sum up, or a call of it is open
SummingUp ==
  \/ \E k \in OpenKeys : k[1] \in Syntheses
  \/ pc \in InCall /\ call.key[1] \in Syntheses
  \/ pc = "synthesize"

\* The run waits for the user as long as a request awaits an answer, and no call that
\* could be taken up is open; the leader sums up when nothing is asked.
AwaitFits ==
  /\ request = "awaiting" =>
       pc \in Rest /\ run = "waiting_for_user" /\ \A k \in OpenKeys : ops[k].st = "waiting"
  /\ pc = "publish" => OpenKeys = {} /\ request = "collecting"
  /\ SummingUp => request = "none"

LEMMA RequestMoves ==
  ASSUME CallInv, [Next]_vars
  PROVE  \/ UNCHANGED questions
         \/ /\ MediationAsksUser \/ ReviewAsksUser \/ ApplySynthesisDecision
            /\ OpenKeys' = {} /\ pc' \in {"loop", "settle", "publish"} /\ request' = "collecting"
         \/ Raise /\ OpenKeys = {} /\ UNCHANGED ops
         \/ Publish /\ UNCHANGED ops
         \/ Restart \/ UserAnswers
<1>1. CASE MediationAsksUser \/ ReviewAsksUser \/ ApplySynthesisDecision
  <2>1. OpenKeys' = {}
    BY <1>1, AppliesCloses DEF MediationAsksUser, ReviewAsksUser, ApplySynthesisDecision
  <2>2. pc' \in {"loop", "settle", "publish"} /\ request' = "collecting"
    BY <1>1 DEF MediationAsksUser, ReviewAsksUser, ApplySynthesisDecision, AsksUser, AppendItem, Goto
  <2> QED BY <1>1, <2>1, <2>2
<1>2. CASE Raise
  BY <1>2 DEF Raise, CallInv, CallFits, Free
<1>3. CASE Publish
  BY <1>3 DEF Publish
<1> QED BY <1>1, <1>2, <1>3, StepKinds
   DEF QuietStep, AppliesStep, Invoke, MarkFailed, RefuseFutileRetry, Complete, Repair,
       RepairSynthesis, Error, Consume, RefuseEffect, RecoverOpen, Chain, StartTask,
       LeaveLoop, SettleQuestions, SkipDependents, Settle, Synthesize, Park, Crash, Reclaim,
       UserResumes, ApplyQuery, ApplyOutcome, ApplyMediation, ApplyConsult, Tell, ApplyReview,
       ReviewGivesUp, ApplySynthesis, vars, questions

\* At rest nothing but the world moves.
LEMMA RestMoves ==
  ASSUME [Next]_vars, pc \in Rest
  PROVE  Restart \/ Crash \/ Reclaim \/ UserResumes \/ UserAnswers \/ UNCHANGED vars
BY StepKinds
   DEF Rest, QuietStep, AppliesStep, Invoke, MarkFailed, RefuseFutileRetry, Complete, Repair,
       RepairSynthesis, Error, Consume, Raise, Publish, RefuseEffect, RecoverOpen, Chain, StartTask,
       LeaveLoop, SettleQuestions, SkipDependents, Settle, Synthesize, Park, ApplyQuery, ApplyOutcome,
       ApplyMediation, ApplyConsult, MediationAsksUser, ApplyReview, ReviewAsksUser, ReviewGivesUp,
       ApplySynthesis, ApplySynthesisDecision, Applies

LEMMA SumsUpNext ==
  ASSUME CallInv, [Next]_vars, SummingUp'
  PROVE  SummingUp \/ (Settle /\ request # "collecting" /\ pc = "settle")
<1>1. ASSUME NEW k \in OpenKeys', k[1] \in Syntheses PROVE SummingUp
  <2>1. CASE k \in DOMAIN ops
    <3>1. k \in OpenKeys
      BY <2>1, CallInvStep, OpsStepEffect DEF CallInv, Reserved
    <3> QED BY <1>1, <3>1 DEF SummingUp
  <2>2. CASE k \notin DOMAIN ops
    BY <1>1, <2>2, NewRow DEF OpenKeys, SummingUp, InCall
  <2> QED BY <2>1, <2>2
<1>2. ASSUME pc' \in InCall, call'.key[1] \in Syntheses PROVE SummingUp
  <2>1. CASE Stays
    BY <1>2, <2>1 DEF Stays, SummingUp
  <2>2. CASE Resumes
    BY <1>2, <2>2 DEF Resumes, SummingUp
  <2>3. CASE Stumbles
    BY <1>2, <2>3 DEF Stumbles, NoCall, NoKey, Key, Syntheses
  <2>4. CASE Makes
    <3>1. SumsUp
      BY <1>2, <2>4 DEF Makes, Mends, RepairStages, Enquires, BudgetSpent, Tells, TellsDecision, Submits,
         Begins, SubmitsLate, Returns, ReturnsLate, Key, Mediations, Syntheses
    <3> QED BY <3>1 DEF SumsUp, Synthesize, RepairSynthesis, SummingUp, InCall
  <2> QED BY <1>2, <2>1, <2>2, <2>3, <2>4, NextCalls
<1>3. ASSUME pc' = "synthesize" PROVE SummingUp \/ (Settle /\ request # "collecting" /\ pc = "settle")
  <2>1. CASE UNCHANGED vars
    BY <1>3, <2>1 DEF vars, SummingUp
  <2>2. ~AppliesStep
    BY <1>3, AppliesGoesOn DEF GoesOn
  <2>3. CASE Settle
    BY <2>3 DEF Settle
  <2>4. CASE Restart
    BY <1>3, <2>4, RestartEffect DEF ParkedAtStart, TakenUpAtStart, NotDueAtStart
  <2>5. CASE SkipDependents
    BY <1>3, <2>5 DEF SkipDependents
  <2>6. CASE Chain
    BY <1>3, <2>6, ChainGoesOn
  <2>7. CASE StartTask \/ RecoverOpen \/ Synthesize
    BY <1>3, <2>7 DEF StartTask, RecoverOpen, Synthesize, TakeUpInLoop, TakeUp, Goto, Invoking
  <2> QED BY <1>3, <2>1, <2>2, <2>3, <2>4, <2>5, <2>6, <2>7, StepKinds
      DEF QuietStep, Invoke, MarkFailed, RefuseFutileRetry, Complete, Repair, RepairSynthesis,
          Error, Consume, Raise, Publish, RefuseEffect, LeaveLoop, SettleQuestions, Park,
          Crash, Reclaim, UserResumes, UserAnswers, Goto, Fails, Invoking
<1> QED BY <1>1, <1>2, <1>3 DEF SummingUp

LEMMA AwaitStep ==
  ASSUME CallInv, QuestionsFit, RaisedFits, AwaitFits, [Next]_vars
  PROVE  AwaitFits'
<1>s. \A k \in OpenKeys : k[2] = 0 => k[1] \in Syntheses
  BY DEF CallInv, OpsShape, OpenKeys, IsKey
<1>1. ASSUME request' = "awaiting"
      PROVE  pc' \in Rest /\ run' = "waiting_for_user" /\ \A k \in OpenKeys' : ops'[k].st = "waiting"
  <2>1. CASE UNCHANGED questions
    <3>1. /\ pc \in Rest /\ run = "waiting_for_user" /\ request = "awaiting"
          /\ \A k \in OpenKeys : ops[k].st = "waiting"
      BY <1>1, <2>1 DEF AwaitFits, questions
    <3>2. CASE Crash \/ UNCHANGED vars
      BY <3>1, <3>2 DEF Crash, vars, Goto, Rest, OpenKeys
    <3>3. CASE Restart
      <4>1. NotDueAtStart
        BY <3>1, <3>3, RestartEffect DEF ParkedAtStart, TakenUpAtStart, Is
      <4> QED BY <3>1, <4>1 DEF NotDueAtStart, PublishAtStart, OpenKeys, Rest
    <3>4. ~Reclaim /\ ~UserResumes
      BY <3>1 DEF Reclaim, UserResumes
    <3>5. ~UserAnswers
      BY <1>1 DEF UserAnswers
    <3> QED BY <3>1, <3>2, <3>3, <3>4, <3>5, RestMoves
  <2>2. CASE Publish /\ UNCHANGED ops
    BY <2>2 DEF Publish, AwaitFits, Goto, Rest, OpenKeys
  <2>3. CASE Restart
    <3>1. CASE TakenUpAtStart
      BY <1>1, <3>1 DEF TakenUpAtStart, AwaitFits
    <3>2. ASSUME NEW k \in OpenKeys, ParkedAtStart(k) PROVE <1>1!2
      <4>1. request # "awaiting"
        BY <3>2 DEF ParkedAtStart, AwaitFits, Is
      <4>2. request = "collecting" /\ run' = "waiting_for_user" /\ pc' = "idle"
        BY <1>1, <3>2, <4>1 DEF ParkedAtStart, PublishAtStart
      <4>3. \A l \in OpenKeys' : l = k
        BY <3>2 DEF ParkedAtStart, Moved, OpenKeys, CallInv, OneOpen
      <4> QED BY <3>2, <4>2, <4>3 DEF ParkedAtStart, Moved, Rest
    <3>3. CASE NotDueAtStart
      <4>1. request = "awaiting" => run = "waiting_for_user"
        BY DEF AwaitFits
      <4> QED BY <1>1, <3>3, <4>1 DEF NotDueAtStart, PublishAtStart, OpenKeys, Rest
    <3> QED BY <2>3, <3>1, <3>2, <3>3, RestartEffect
  <2>4. ~UserAnswers /\ ~Raise
    BY <1>1 DEF UserAnswers, Raise
  <2> QED BY <1>1, <2>1, <2>2, <2>3, <2>4, RequestMoves
<1>2. ASSUME pc' = "publish" PROVE OpenKeys' = {} /\ request' = "collecting"
  <2>1. CASE Raise
    BY <2>1 DEF Raise, CallInv, CallFits, Free, OpenKeys
  <2>2. CASE ApplySynthesisDecision
    BY <2>2, AppliesCloses DEF ApplySynthesisDecision, AppendItem
  <2>3. CASE SettleQuestions
    <3>1. pc = "settle" /\ request = "collecting" /\ UNCHANGED <<ops, request>>
      BY <2>3 DEF SettleQuestions, questions
    <3>2. OpenKeys = {}
      BY <1>s, <3>1 DEF CallInv, CallFits, Late, AwaitFits, SummingUp
    <3> QED BY <3>1, <3>2 DEF OpenKeys
  <2>4. CASE UNCHANGED vars
    BY <1>2, <2>4 DEF vars, AwaitFits, OpenKeys
  <2>5. AppliesStep => ApplySynthesisDecision
    BY <1>2 DEF AppliesStep, ApplyQuery, ApplyOutcome, ApplyMediation, ApplyConsult, Tell,
       MediationAsksUser, ApplyReview, ReviewAsksUser, ReviewGivesUp, ApplySynthesis, AsksUser, Goto,
       Mediate, Review, HaveItDone, Invoking
  <2>6. ~Restart
    BY <1>2, RestartEffect DEF ParkedAtStart, TakenUpAtStart, NotDueAtStart
  <2>7. ~Chain
    BY <1>2, ChainGoesOn
  <2>8. ~SkipDependents
    BY <1>2 DEF SkipDependents
  <2> QED BY <1>2, <2>1, <2>2, <2>3, <2>4, <2>5, <2>6, <2>7, <2>8, StepKinds
      DEF QuietStep, Invoke, MarkFailed, RefuseFutileRetry, Complete, Repair, RepairSynthesis,
          Error, Consume, Publish, RefuseEffect, RecoverOpen, StartTask, LeaveLoop, Settle, Synthesize,
          Park, Crash, Reclaim, UserResumes, UserAnswers, Goto, Fails, Invoking, TakeUpInLoop, TakeUp
<1>3. ASSUME SummingUp' PROVE request' = "none"
  <2>1. request = "none"
    <3>1. CASE Settle /\ request # "collecting" /\ pc = "settle"
      BY <3>1 DEF QuestionsFit, AwaitFits, Rest
    <3> QED BY <1>3, <3>1, SumsUpNext DEF AwaitFits
  <2>2. CASE UNCHANGED questions
    BY <2>1, <2>2 DEF questions
  <2>3. CASE Restart
    BY <2>1, <2>3, RestartEffect DEF ParkedAtStart, TakenUpAtStart, NotDueAtStart, PublishAtStart
  <2>4. CASE UserAnswers
    BY <2>4 DEF UserAnswers
  <2>5. ~Publish
    BY <2>1 DEF Publish, AwaitFits
  <2>6. ~(Raise /\ OpenKeys = {} /\ UNCHANGED ops)
    BY <1>3 DEF Raise, SummingUp, OpenKeys, Goto, InCall
  <2>7. ~(OpenKeys' = {} /\ pc' \in {"loop", "settle", "publish"})
    BY <1>3 DEF SummingUp, InCall
  <2> QED BY <2>2, <2>3, <2>4, <2>5, <2>6, <2>7, RequestMoves
<1> QED BY <1>1, <1>2, <1>3 DEF AwaitFits

\* What a repeated call of a worker would lead to again: it is made once more after an
\* interruption, and as long as the outcome that the task holds is its own, that outcome
\* can be reviewed.
RepeatsFit ==
  \A k \in {call.key} :
    pc \in {"invoke", "apply"} /\ k[1] \in Workers /\ k \in AppliedKeys
      /\ (pc = "invoke" => ops[k].about = call.about) =>
        Last(k[2]) \notin resolved /\ (stored[k[2]] = k => Reviewable(k[2]))

\* A review that is made or open reviews what can be reviewed.
UnderReview ==
  /\ \A k \in {call.key} : pc \in InCall /\ k[1] \in Reviews => Reviewable(k[2])
  /\ \A k \in OpenKeys : k[1] \in Reviews => Reviewable(k[2])

LEMMA WorkerAnswers ==
  ASSUME OpsShape, NEW k \in AppliedKeys, k[1] \in Workers, ~Asking(<<k, ops[k].about>>)
  PROVE  ops[k].answer \in Outcomes
<1>1. ops[k].answer \in Parsed(k[1], ops[k].about)
  BY DEF AppliedKeys, OpsShape, IsRow
<1> QED BY <1>1 DEF Asking, Informed, Workers, Parsed, Reviews, Syntheses

\* Where only the call that is applied is added, a task's last call changes with it.
LEMMA ReviewableKept ==
  ASSUME CallInv, NumbersFit, [Next]_vars, NEW t, Reviewable(t), AppliedKeys' = AppliedKeys, UNCHANGED resolved
  PROVE  Reviewable(t)'
BY OwnStays, ReviewableStays DEF Reviewable

\* the review of an outcome that was just applied, or is applied again
LEMMA OutcomeIsReviewable ==
  ASSUME CallInv, NumbersFit, AskedFits, RepeatsFit, [Next]_vars, ApplyOutcome,
         NEW c, c = call.key
  PROVE  Reviewable(c[2])'
<1>c. c = call.key
  OBVIOUS
<1>1. /\ Applies(Workers, Outcomes) /\ UNCHANGED resolved
  BY DEF ApplyOutcome, questions
<1>2. /\ c[1] \in Workers /\ ops[c].answer \in Outcomes /\ IsKey(c) /\ Fits /\ pc = "apply"
      /\ AppliedKeys' = AppliedKeys \cup {c} /\ (Replayed <=> c \in AppliedKeys)
      /\ ops'[c].answer = ops[c].answer
  BY <1>1, <1>c, AppliesEffect, AppliedGrow
<1>3. CASE c \in AppliedKeys
  <2>1. stored[c[2]] = c
    BY <1>2, <1>3, <1>c, FitsEffect, StageKinds DEF OutcomeFits
  <2>2. Reviewable(c[2])
    BY <1>2, <1>3, <1>c, <2>1 DEF RepeatsFit
  <2>3. AppliedKeys' = AppliedKeys
    BY <1>2, <1>3
  <2> QED BY <1>1, <1>c, <2>2, <2>3, ReviewableKept
<1>4. CASE c \notin AppliedKeys
  <2>1. Last(c[2])' = c
    BY <1>2, <1>4, LastApplied
  <2>2. c \notin resolved'
    BY <1>1, <1>2, <1>4, StageKinds DEF AskedFits, System, Key, IsKey
  <2> QED BY <1>2, <1>c, <2>1, <2>2 DEF Reviewable
<1> QED BY <1>3, <1>4

LEMMA UnderReviewStep ==
  ASSUME WorkInv, NumbersFit, WaitingIsAsked, AskedFits, RepeatsFit, UnderReview, AwaitFits, [Next]_vars
  PROVE  UnderReview'
<1>i. CallInv /\ OpenWorks
  BY DEF WorkInv
<1>1. ASSUME NEW k, k = call'.key, pc' \in InCall, k[1] \in Reviews PROVE Reviewable(k[2])'
  <2>u. UNCHANGED resolved
    BY <1>1, ResolvedStays DEF UserAnswers, Goto, InCall
  <2>a. ASSUME NEW t, Reviewable(t), ~AppliesStep PROVE Reviewable(t)'
    BY <1>i, <2>u, <2>a, AppliedStay, ReviewableKept
  <2>1. CASE Stays
    <3>1. pc \in InCall /\ UNCHANGED call
      BY <2>1 DEF Stays
    <3>2. CASE AppliesStep
      <4>1. pc' = "invoke" /\ pc = "apply"
        BY <1>1, <1>i, <3>2, AppliesKinds, AppliesStepEffect DEF Applies
      <4> QED BY <2>1, <4>1 DEF Stays, vars, MarkFailed, RefuseFutileRetry
    <3>3. Reviewable(k[2])
      BY <1>1, <3>1 DEF UnderReview
    <3> QED BY <2>a, <3>2, <3>3
  <2>2. CASE Resumes
    <3>1. UNCHANGED ops /\ Reviewable(k[2])
      BY <1>1, <2>2 DEF Resumes, UnderReview
    <3>2. AppliedKeys' = AppliedKeys
      BY <3>1 DEF AppliedKeys
    <3> QED BY <1>i, <2>u, <3>1, <3>2, ReviewableKept
  <2>3. CASE Stumbles
    BY <1>1, <2>3 DEF Stumbles, NoCall, NoKey, Key, Reviews
  <2>4. CASE Makes
    <3>1. CASE Mends
      <4>1. call.key[1] \in Reviews /\ pc \in InCall /\ call.key[2] = k[2] /\ ~AppliesStep
        BY <1>1, <3>1 DEF Mends, RepairStages, Repaired, Key, Reviews, InCall, AppliesStep,
           ApplyQuery, ApplyOutcome, ApplyMediation, ApplyConsult, MediationAsksUser, ApplyReview,
           ReviewAsksUser, ReviewGivesUp, ApplySynthesis, ApplySynthesisDecision, Applies
      <4>2. Reviewable(k[2])
        BY <4>1 DEF UnderReview
      <4> QED BY <2>a, <4>1, <4>2
    <3>2. CASE Submits
      <4>c. PICK c : c = call.key
        OBVIOUS
      <4>1. ApplyOutcome /\ k[2] = c[2]
        BY <1>1, <3>2, <4>c DEF Submits, Key
      <4>2. Reviewable(c[2])'
        BY <1>i, <4>1, <4>c, OutcomeIsReviewable
      <4> QED BY <4>1, <4>2
    <3>3. ASSUME NEW u \in Tasks, SubmitsLate(u) PROVE Reviewable(k[2])'
      <4>1. ReviewDue(u) /\ k[2] = u /\ Chain
        BY <1>1, <3>3 DEF SubmitsLate, Key
      <4>2. Last(u) \notin resolved
        BY <4>1, StageKinds DEF ReviewDue, AskedFits, System, Key, Stages
      <4>3. Reviewable(k[2])
        BY <4>1, <4>2 DEF ReviewDue, Reviewable
      <4>4. AppliedKeys' = AppliedKeys
        BY <4>1, ChainGoesOn DEF AppliedKeys
      <4> QED BY <1>i, <2>u, <4>3, <4>4, ReviewableKept
    <3>4. Mends \/ Submits \/ \E u \in Tasks : SubmitsLate(u)
      BY <1>1, <2>4 DEF Makes, Enquires, BudgetSpent, Tells, TellsDecision, Begins, Returns, ReturnsLate,
         SumsUp, Key, Mediations, Syntheses, Reviews
    <3> QED BY <3>1, <3>2, <3>3, <3>4
  <2> QED BY <1>1, <1>i, <2>1, <2>2, <2>3, <2>4, NextCalls
<1>2. ASSUME NEW k \in OpenKeys', k[1] \in Reviews PROVE Reviewable(k[2])'
  <2>1. Reviewable(k[2]) /\ (k \in OpenKeys \/ ~UserAnswers)
    <3>1. CASE k \in DOMAIN ops
      <4>1. k \in OpenKeys
        BY <1>i, <3>1, CallInvStep, OpsStepEffect DEF CallInv, Reserved
      <4> QED BY <1>2, <4>1 DEF UnderReview
    <3>2. CASE k \notin DOMAIN ops
      <4>1. pc = "invoke" /\ k = call.key
        BY <1>i, <3>2, NewRow DEF OpenKeys
      <4> QED BY <1>2, <4>1 DEF UnderReview, InCall, UserAnswers
    <3> QED BY <3>1, <3>2
  <2>2. AppliedKeys' = AppliedKeys
    BY <1>i, AppliedStay, AppliesCloses, AppliesStepEffect
  <2>3. Last(k[2]) \notin resolved'
    <3>1. CASE UserAnswers
      <4>1. k \in OpenKeys /\ ops[k].st = "waiting" /\ request = "awaiting" /\ resolved' = resolved \cup items
        BY <2>1, <3>1 DEF UserAnswers, AwaitFits
      <4>2. k[2] \in Tasks /\ k[2] # 0
        BY <1>2, <1>i, <4>1, StageKinds, ExecutionConstants DEF CallInv, OpsShape, OpenKeys, IsKey, Tasks
      <4>3. tasks[k[2]] = "waiting_for_provider"
        BY <1>i, <4>1, <4>2 DEF OpenWorks
      <4>4. Last(k[2])[2] = k[2]
        BY <1>i, <2>1, LastOwn DEF Reviewable, Own, CallInv, Stages
      <4>5. Last(k[2]) \notin items
        BY <4>1, <4>2, <4>3, <4>4 DEF WaitingIsAsked
      <4> QED BY <2>1, <4>1, <4>5 DEF Reviewable
    <3>2. CASE ~UserAnswers
      BY <2>1, <3>2, ResolvedStays DEF Reviewable
    <3> QED BY <3>1, <3>2
  <2> QED BY <1>i, <2>1, <2>2, <2>3, OwnStays, ReviewableStays
<1> QED BY <1>1, <1>2 DEF UnderReview

\* The first call of a task that was interrupted, made again: nothing about the task is
\* unanswered, and if its outcome is held, what came after were reviews and their work.
LEMMA BeginsAgain ==
  ASSUME CallInv, TableInv, AskedFits, RepairsFit, QueriedFirst,
         NEW t \in Tasks, tasks[t] = "pending", Chained = {},
         NEW k \in AppliedKeys, k = Key("worker", t, 0)
  PROVE  Last(t) \notin resolved /\ (stored[t] = k => Reviewable(t))
<1>o. OpsShape /\ NumbersFit /\ StoredFits
  BY DEF CallInv, TableInv
<1>l. PICK l : l = Last(t)
  OBVIOUS
<1>1. k \in Own(t)
  BY DEF Own, Key
<1>2. l \in Own(t)
  BY <1>1, <1>o, <1>l, LastIs
<1>3. l \in AppliedKeys /\ l[2] = t /\ l \in DOMAIN ops /\ IsKey(l) /\ ops[l].st = "applied"
  BY <1>2, <1>o DEF Own, AppliedKeys, OpsShape
<1>4. l[1] \in Workers \cup Reviews \cup Mediations
  BY <1>3, ExecutionConstants DEF IsKey, Stages, Tasks
<1>5. l \notin resolved
  <2>1. ~UserDecided(t)
    BY DEF Chained
  <2>2. l \in resolved => l[1] \notin Workers
    BY <1>3, StageKinds DEF AskedFits, System, Key, IsKey
  <2> QED BY <1>4, <1>l, <2>1, <2>2 DEF UserDecided
<1>6. ASSUME stored[t] = k, l[1] \notin Reviews
      PROVE  l[1] \in Workers /\ ops[l].answer \in Outcomes
  <2>1. k # NoKey /\ k[1] = "worker" /\ k[2] = t /\ k[3] = 0 /\ k \in DOMAIN ops /\ ops[k].st = "applied"
    BY DEF NoKey, Key, AppliedKeys
  <2>2. ops[k].answer \in Outcomes
    BY <1>6, <1>o, <2>1 DEF StoredFits
  <2>3. \A w \in AppliedKeys : w[1] = "worker" /\ w[2] = t => w = k
    <3> SUFFICES ASSUME NEW w \in AppliedKeys, w[1] = "worker", w[2] = t PROVE w = k
      OBVIOUS
    <3>1. w \in DOMAIN ops /\ w \in Known /\ w = <<w[1], w[2], w[3]>>
      BY <1>o DEF AppliedKeys, Known, OpsShape, IsKey
    <3>2. w[3] # 0 => Repaired(w) = k /\ Repaired(w) # NoKey
      BY <2>1 DEF Repaired, Key, NoKey
    <3>3. w[3] = 0
      BY <2>1, <3>1, <3>2 DEF RepairsFit, Is
    <3> QED BY <3>1, <3>3 DEF Key
  <2>4. ~Queried(t)
    BY <2>2, <2>3, StageKinds DEF Queried, Answered, Of
  <2>5. l[1] \notin Mediations \cup {"mediation_worker"}
    BY <1>3, <2>4 DEF QueriedFirst, Known
  <2>6. l[1] \in Workers
    BY <1>4, <1>6, <2>5
  <2>7. CASE l[1] = "worker"
    BY <1>3, <2>2, <2>3, <2>6, <2>7
  <2>8. CASE l[1] # "worker"
    <3>1. ~Asking(<<l, ops[l].about>>)
      BY <2>5, <2>8 DEF Asking, Informed
    <3> QED BY <1>3, <1>o, <2>6, <3>1, WorkerAnswers
  <2> QED BY <2>7, <2>8
<1> QED BY <1>5, <1>6, <1>l DEF Reviewable

\* The worker that is told to finish was told so before: what the task did since was
\* delivered or reviewed.
LEMMA ToldAgain ==
  ASSUME CallInv, NumbersFit, AskedFits, InOrder,
         NEW b \in AppliedKeys, Budgeted(<<b, ops[b].about>>), Last(b[2]) \notin resolved
  PROVE  Reviewable(b[2])
<1>o. OpsShape
  BY DEF CallInv
<1>l. PICK l : l = Last(b[2])
  OBVIOUS
<1>1. b \in Own(b[2]) /\ b \in DOMAIN ops /\ b[1] = "mediation_worker" /\ IsKey(b)
  BY <1>o DEF Own, AppliedKeys, Budgeted, OpsShape
<1>2. l \in Own(b[2]) /\ ops[b].no <= ops[l].no
  BY <1>1, <1>o, <1>l, LastIs
<1>3. l \in AppliedKeys /\ l[2] = b[2] /\ l \in DOMAIN ops /\ IsKey(l)
  BY <1>2, <1>o DEF Own, AppliedKeys, OpsShape
<1>4. ~Asking(<<l, ops[l].about>>)
  <2>1. ops[b].no \in Nat /\ ops[l].no \in Nat
    BY <1>1, <1>3, <1>o DEF OpsShape, IsRow
  <2> QED BY <1>2, <1>3, <2>1 DEF InOrder
<1>5. l[1] \in Workers \cup Reviews \cup Mediations
  BY <1>1, <1>3, StageKinds DEF IsKey, Stages, Workers
<1>6. l[1] \in Workers \cup Reviews
  BY <1>4, <1>5 DEF Asking
<1> QED BY <1>3, <1>4, <1>6, <1>l, <1>o, WorkerAnswers DEF Reviewable

\* What the user decided about a review is told once.
LEMMA ToldOnce ==
  ASSUME CallInv, NumbersFit, RepairsFit, ReviewedFirst, NEW t \in Tasks, UserDecided(t),
         Last(t)[1] \in Reviews, NEW k \in AppliedKeys, k = Key("acceptance_worker", t, Last(t)[3])
  PROVE  FALSE
<1>o. OpsShape
  BY DEF CallInv
<1>l. PICK l : l = Last(t)
  OBVIOUS
<1>1. l \in Own(t) /\ \A x \in Own(t) : ops[x].no <= ops[l].no
  BY <1>o, <1>l, LastOwn DEF Stages
<1>2. l \in AppliedKeys /\ l[2] = t /\ k \in Own(t) /\ k[3] = l[3]
  BY <1>1, <1>l DEF Own, Key
<1>3. k \in Known /\ k \in DOMAIN ops /\ k[1] = "acceptance_worker"
  BY DEF Known, AppliedKeys, Key
<1>4. PICK r \in AppliedKeys : r[1] \in Reviews /\ r[2] = t /\ r[3] = l[3] /\ ops[r].no < ops[k].no
  BY <1>2, <1>3, <1>l DEF ReviewedFirst, Key
<1>5. /\ r \in DOMAIN ops /\ l \in DOMAIN ops /\ ops[r].st = "applied" /\ ops[l].st = "applied"
      /\ r = <<r[1], r[2], r[3]>> /\ l = <<l[1], l[2], l[3]>>
      /\ ops[r].no \in Nat /\ ops[k].no \in Nat /\ ops[l].no \in Nat
  BY <1>2, <1>3, <1>4, <1>o DEF AppliedKeys, OpsShape, IsKey, IsRow
<1>6. ops[k].no <= ops[l].no
  BY <1>1, <1>2
<1>7. r # l
  BY <1>4, <1>5, <1>6
<1>8. r[1] # l[1] /\ l[1] \in Reviews
  BY <1>2, <1>4, <1>5, <1>7, <1>l
<1>9. \A x, y \in AppliedKeys : ~(x[1] = "acceptance_lead_repair" /\ y = Key("acceptance_lead", x[2], x[3]))
  <2> SUFFICES ASSUME NEW x \in AppliedKeys, NEW y \in AppliedKeys, x[1] = "acceptance_lead_repair",
                      y = Key("acceptance_lead", x[2], x[3])
               PROVE  FALSE
    OBVIOUS
  <2>1. Repaired(x) = y /\ y # NoKey
    BY DEF Repaired, Key, NoKey
  <2> QED BY <2>1 DEF RepairsFit, Known, AppliedKeys, Is
<1>10. r[1] = "acceptance_lead_repair" => l = Key("acceptance_lead", r[2], r[3])
  BY <1>2, <1>4, <1>5, <1>8 DEF Reviews, Key
<1>11. l[1] = "acceptance_lead_repair" => r = Key("acceptance_lead", l[2], l[3])
  BY <1>2, <1>4, <1>5, <1>8 DEF Reviews, Key
<1> QED BY <1>2, <1>4, <1>8, <1>9, <1>10, <1>11 DEF Reviews

LEMMA RepeatsKept ==
  ASSUME CallInv, NumbersFit, [Next]_vars, NEW k, Last(k[2]) \notin resolved,
         stored[k[2]] = k => Reviewable(k[2]), AppliedKeys' = AppliedKeys, UNCHANGED <<resolved, stored>>
  PROVE  Last(k[2])' \notin resolved' /\ (stored'[k[2]] = k => Reviewable(k[2])')
<1>1. Last(k[2])' = Last(k[2])
  BY OwnStays, LastStays
<1>2. Reviewable(k[2]) => Reviewable(k[2])'
  BY ReviewableKept
<1> QED BY <1>1, <1>2

LEMMA RepeatsFitStep ==
  ASSUME WorkInv, TableInv, HistoryInv, RepeatsFit, UnderReview, [Next]_vars
  PROVE  RepeatsFit'
<1>i. /\ CallInv /\ OpsShape /\ NumbersFit /\ AskedFits /\ RepairsFit /\ QueriedFirst /\ InOrder
      /\ ReviewedFirst /\ HelpFits /\ BudgetInv
  BY DEF WorkInv, TableInv, HistoryInv, CallInv
<1>n. RepairsFit'
  BY <1>i, RepairsFitStep
<1> SUFFICES ASSUME NEW k, k = call'.key, pc' \in {"invoke", "apply"}, k[1] \in Workers,
                    k \in AppliedKeys', pc' = "invoke" => ops'[k].about = call'.about
             PROVE  Last(k[2])' \notin resolved' /\ (stored'[k[2]] = k => Reviewable(k[2])')
  BY DEF RepeatsFit
<1>u. UNCHANGED resolved
  BY ResolvedStays DEF UserAnswers, Goto
<1>k. ASSUME Last(k[2]) \notin resolved, stored[k[2]] = k => Reviewable(k[2]),
             UNCHANGED <<ops, stored>>
      PROVE  Last(k[2])' \notin resolved' /\ (stored'[k[2]] = k => Reviewable(k[2])')
  <2>1. AppliedKeys' = AppliedKeys
    BY <1>k DEF AppliedKeys
  <2> QED BY <1>i, <1>k, <1>u, <2>1, RepeatsKept
<1>1. CASE UNCHANGED vars
  <2>1. k = call.key /\ k \in AppliedKeys /\ UNCHANGED <<ops, stored>>
    BY <1>1 DEF vars, AppliedKeys
  <2>2. Last(k[2]) \notin resolved /\ (stored[k[2]] = k => Reviewable(k[2]))
    BY <1>1, <2>1 DEF vars, RepeatsFit
  <2> QED BY <1>k, <2>1, <2>2
<1>2. CASE Invoke /\ pc' = "apply"
  <2>1. /\ UNCHANGED <<ops, stored>> /\ k = call.key /\ Is(k, "applied") /\ ops[k].about = call.about
        /\ pc = "invoke"
    BY <1>i, <1>2, InvokeEffect DEF Invoke, counters
  <2>2. Last(k[2]) \notin resolved /\ (stored[k[2]] = k => Reviewable(k[2]))
    BY <2>1 DEF RepeatsFit, AppliedKeys, Is
  <2> QED BY <1>k, <2>1, <2>2
<1>3. ASSUME UNCHANGED call, NEW a \in Answers(call.key, call.about), Complete(a) PROVE FALSE
  <2>1. Stored(k, a)
    BY <1>i, <1>3, CompleteEffect
  <2> QED BY <2>1 DEF Stored, AppliedKeys
<1>4. ~Resumes
  BY DEF Resumes, OpenKeys, AppliedKeys, OpenOp
<1>5. CASE Makes /\ pc' = "invoke" /\ ~UNCHANGED vars
  <2>d. DOMAIN ops' = DOMAIN ops
    BY <1>5, <1>i, InvokesNext
  <2>1. CASE Mends
    <3>1. k \notin DOMAIN ops'
      BY <1>5, <1>n, <2>1 DEF RepairsFit, Mends, IsKey
    <3> QED BY <3>1 DEF AppliedKeys
  <2>2. ASSUME NEW t \in Tasks, Begins(t)
        PROVE  Last(k[2])' \notin resolved' /\ (stored'[k[2]] = k => Reviewable(k[2])')
    <3>1. k = Key("worker", t, 0) /\ k[2] = t /\ UNCHANGED <<ops, stored>> /\ tasks[t] = "pending"
          /\ Chained = {} /\ k \in AppliedKeys
      BY <2>2 DEF Begins, StartTask, Ready, counters, Key, AppliedKeys
    <3>2. Last(t) \notin resolved /\ (stored[t] = k => Reviewable(t))
      BY <1>i, <3>1, BeginsAgain
    <3> QED BY <1>k, <3>1, <3>2
  <2>3. CASE BudgetSpent
    <3>q. PICK q : q = call.key
      OBVIOUS
    <3>1. Applies(Workers, Queries) /\ k[2] = q[2] /\ UNCHANGED stored /\ call'.about = <<"budget", 0>>
          /\ k[1] = "mediation_worker"
      BY <2>3, <3>q DEF BudgetSpent, ApplyQuery, Key
    <3>2. /\ q \in DOMAIN ops /\ ops[q].answer \in Queries /\ q[1] \in Workers /\ pc = "apply"
          /\ AppliedKeys' = AppliedKeys \cup {q} /\ (Replayed <=> q \in AppliedKeys)
          /\ ops'[q].about = ops[q].about
      BY <1>i, <3>1, <3>q, AppliesEffect, AppliedGrow
    <3>3. Asking(<<q, ops[q].about>>)
      BY <1>i, <3>2, QueryKinds
    <3>4. Budgeted(<<k, ops'[k].about>>)
      BY <1>5, <3>1 DEF Budgeted
    <3>5. k # q
      BY <3>2, <3>3, <3>4 DEF Asking, Budgeted, Informed, Mediations
    <3>6. k \in AppliedKeys /\ ops'[k] = ops[k] /\ k \in DOMAIN ops
      BY <1>i, <3>2, <3>5, AppliedKept DEF AppliedKeys
    <3>7. ops[q].no < ops[k].no /\ ops[q].no \in Nat /\ ops[k].no \in Nat
      <4>1. ops[q].no < ops[k].no
        BY <1>i, <3>1, <3>2, <3>3, <3>4, <3>6 DEF InOrder
      <4> QED BY <1>i, <3>2, <3>6, <4>1, RowsOrder
    <3>8. q \in AppliedKeys
      BY <1>i, <3>2, <3>6, <3>7, NewlyApplied
    <3>9. AppliedKeys' = AppliedKeys
      BY <3>2, <3>8
    <3>10. Last(k[2]) \notin resolved
      BY <3>1, <3>2, <3>8, <3>q DEF RepeatsFit
    <3>11. Reviewable(k[2])
      BY <1>i, <3>4, <3>6, <3>10, ToldAgain
    <3> QED BY <1>i, <1>u, <3>1, <3>9, <3>10, <3>11, RepeatsKept
  <2>4. CASE Tells
    <3>1. PICK stages, answers : Applies(stages, answers) /\ stages \subseteq Mediations
      BY <2>4 DEF Tells, ApplyMediation, ApplyConsult, Mediations
    <3>2. RoundFits(call.key[2], call.key[3]) /\ call.key[1] \in Mediations
          /\ AppliedKeys' = AppliedKeys \cup {call.key}
      BY <1>i, <3>1, AppliesEffect, FitsEffect, AppliedGrow
    <3>3. k \in AppliedKeys /\ k[3] = rounds + 1 /\ k[1] = "mediation_worker" /\ call'.about = <<"answer", 0>>
      BY <2>4, <3>2 DEF Tells, RoundFits, Key, Mediations
    <3>4. ops[k].about = <<"answer", 0>> /\ k \in DOMAIN ops
      BY <1>5, <1>i, <3>3, AppliedKept DEF AppliedKeys
    <3>5. <<k, ops[k].about>> \in Made /\ Informed(<<k, ops[k].about>>)
      BY <3>3, <3>4 DEF Made, Informed
    <3>6. k[3] <= rounds /\ rounds \in Nat
      BY <1>i, <3>5 DEF HelpFits, CallInv, TasksShape
    <3> QED BY <3>3, <3>6
  <2>5. ASSUME NEW t \in Tasks, TellsDecision(t) PROVE FALSE
    <3>1. UNCHANGED ops /\ call'.about = <<"user", 0>> /\ Last(t)[1] \in Mediations
          /\ k = Key("mediation_worker", t, Last(t)[3])
      BY <2>5, QuietOps DEF TellsDecision, QuietStep
    <3>2. k \in AppliedKeys /\ k \in Own(t) /\ k \in DOMAIN ops /\ k[3] = Last(t)[3] /\ k[2] = t
          /\ Informed(<<k, ops[k].about>>)
      BY <1>5, <3>1 DEF AppliedKeys, Own, Key, Informed
    <3>3. Last(t) \in Own(t) /\ ops[k].no <= ops[Last(t)].no
      BY <1>i, <3>1, <3>2, LastOwn DEF Stages
    <3>4. Last(t) \in Helps /\ Last(t)[2] = t /\ Last(t) \in DOMAIN ops
      BY <3>1, <3>3 DEF Own, Helps, AppliedKeys
    <3>5. Last(t)[3] <= k[3]
      BY <1>i, <3>2, <3>4 DEF BudgetInv
    <3>6. ops[Last(t)].no < ops[k].no
      BY <1>i, <3>2, <3>4, <3>5 DEF InOrder
    <3>7. ops[Last(t)].no \in Nat /\ ops[k].no \in Nat
      BY <1>i, <3>2, <3>4, RowsOrder
    <3> QED BY <3>3, <3>6, <3>7
  <2>6. CASE Returns
    <3>r. PICK r : r = call.key
      OBVIOUS
    <3>1. Applies(Reviews, Again) /\ k[2] = r[2] /\ UNCHANGED stored
      BY <2>6, <3>r DEF Returns, ApplyReview, Key
    <3>2. /\ r[1] \in Reviews /\ pc = "apply" /\ IsKey(r) /\ AppliedKeys' = AppliedKeys \cup {r}
      BY <1>i, <3>1, <3>r, AppliesEffect, AppliedGrow
    <3>3. CASE r \in AppliedKeys
      <4>1. Reviewable(r[2]) /\ AppliedKeys' = AppliedKeys
        BY <3>2, <3>3, <3>r DEF UnderReview, InCall
      <4> QED BY <1>i, <1>u, <3>1, <4>1, RepeatsKept DEF Reviewable
    <3>4. CASE r \notin AppliedKeys
      <4>1. Last(r[2])' = r
        BY <1>i, <3>2, <3>4, LastApplied
      <4>2. r \notin resolved
        BY <1>i, <3>2, <3>4, StageKinds DEF AskedFits, System, Key, IsKey
      <4> QED BY <1>u, <3>1, <3>2, <4>1, <4>2 DEF Reviewable
    <3> QED BY <3>3, <3>4
  <2>7. ASSUME NEW t \in Tasks, ReturnsLate(t)
        PROVE  Last(k[2])' \notin resolved' /\ (stored'[k[2]] = k => Reviewable(k[2])')
    <3>1. UNCHANGED <<ops, stored>> /\ k = Key("acceptance_worker", t, Last(t)[3]) /\ k[2] = t
          /\ k \in AppliedKeys
      BY <2>7, ChainGoesOn DEF ReturnsLate, Chain, Key, AppliedKeys
    <3>2. ReviewGiven(t)
      BY <1>i, <2>7, <3>1, ToldOnce DEF ReturnsLate
    <3>3. Reviewable(t)
      BY <3>2 DEF ReviewGiven, Reviewable
    <3> QED BY <1>k, <3>1, <3>3 DEF Reviewable
  <2>8. ~Submits /\ ~SumsUp /\ ~Enquires /\ \A t \in Tasks : ~SubmitsLate(t)
    BY StageKinds DEF Submits, SumsUp, Enquires, SubmitsLate, Key, Workers
  <2> QED BY <1>5, <2>1, <2>2, <2>3, <2>4, <2>5, <2>6, <2>7, <2>8 DEF Makes
<1>6. UNCHANGED vars \/ (Invoke /\ pc' = "apply") \/ (Makes /\ pc' = "invoke")
  <2>1. CASE Stays
    <3>1. pc' = "invoke" => UNCHANGED vars
      BY <2>1, StillInvoking
    <3>2. pc' = "apply" => UNCHANGED vars \/ Invoke
      BY <2>1, <1>3 DEF Stays
    <3> QED BY <3>1, <3>2
  <2> QED BY <1>i, <1>4, <2>1, NextCalls DEF InCall, Stumbles
<1> QED BY <1>1, <1>2, <1>5, <1>6

-----------------------------------------------------------------------------
(* A task in progress is somebody's business                                 *)

\* A call of the task is open, the coroutine is at one, its last outcome is to be
\* reviewed, or the process is down and will interrupt it.
Occupied(t) ==
  \/ \E k \in OpenKeys : k[2] = t
  \/ \E k \in {call.key} : pc \in InCall /\ k[2] = t /\ OpenKeys \subseteq {k}
  \/ Reviewable(t)
  \/ pc = "down" /\ OpenKeys = {} /\ run \in {"running", "summarizing"}
Busy == \A t \in Tasks : Working(t) => Occupied(t)

LEMMA Closes ==
  ASSUME CallInv, [Next]_vars, NEW k \in OpenKeys, k \notin OpenKeys'
  PROVE  k = call.key /\ OpenKeys' = {} /\ (MarkFailed \/ RefuseFutileRetry \/ AppliesStep)
<1>u. ops' # ops
  BY DEF OpenKeys
<1>m. ASSUME NEW l, NEW to \in OpenOp, Moved(l, to) PROVE FALSE
  BY <1>m DEF Moved, OpenKeys
<1>o. "waiting" \in OpenOp /\ "prepared" \in OpenOp /\ "completed" \in OpenOp
  BY DEF OpenOp
<1>e. OpenKeys' = {}
  BY CallInvStep, OpsStepEffect DEF CallInv, OneOpen
<1>1. ~Invoke
  BY InvokeEffect
<1>2. ~QuietStep /\ ~Crash /\ ~UserResumes /\ ~UserAnswers /\ ~UNCHANGED vars
  BY <1>u, QuietOps DEF vars
<1>3. ~Restart
  BY <1>u, <1>m, <1>o, RestartEffect DEF ParkedAtStart, TakenUpAtStart, NotDueAtStart
<1>4. ~Park /\ ~Reclaim
  BY <1>m, <1>o, ParkEffect, ReclaimEffect
<1>5. \A a \in Answers(call.key, call.about) : ~Complete(a)
  <2> SUFFICES ASSUME NEW a \in Answers(call.key, call.about), Complete(a) PROVE FALSE
    OBVIOUS
  <2>1. Stored(call.key, a)
    BY CompleteEffect
  <2> QED BY <1>o, <2>1 DEF Stored, OpenKeys
<1>6. MarkFailed \/ RefuseFutileRetry \/ AppliesStep
  BY <1>1, <1>2, <1>3, <1>4, <1>5, StepKinds
<1>7. CASE MarkFailed \/ RefuseFutileRetry
  <2>1. Is(call.key, "prepared")
    BY <1>7, DropEffect
  <2> QED BY <1>e, <1>o, <1>6, <2>1 DEF Is, OpenKeys, CallInv, OneOpen
<1>8. CASE AppliesStep
  <2>1. call.key \in OpenKeys
    BY <1>8, <1>u, <1>o, AppliesStepEffect, AppliesEffect DEF Is, OpenKeys
  <2> QED BY <1>e, <1>6, <2>1 DEF CallInv, OneOpen
<1> QED BY <1>6, <1>7, <1>8

\* An effect that goes on with no call has moved its task.
LEMMA AppliesLeaves ==
  ASSUME CallInv, AppliesStep, call.key[2] \in Tasks, tasks'[call.key[2]] = "in_progress"
  PROVE  pc' = "invoke" /\ call'.key[2] = call.key[2] /\ OpenKeys' = {}
<1>e. OpenKeys' = {} /\ IsKey(call.key)
  BY AppliesStepEffect, AppliesCloses, AppliesEffect
<1>g. GoesOn
  BY AppliesGoesOn
<1>z. call.key[1] \notin Syntheses
  BY <1>e, ExecutionConstants DEF IsKey, Tasks
<1>m. ASSUME NEW s, tasks' = [tasks EXCEPT ![call.key[2]] = s] PROVE s = "in_progress"
  BY <1>m DEF CallInv, TasksShape
<1>1. CASE ApplyQuery \/ ApplyMediation \/ ApplyConsult \/ ApplyReview
  <2>1. pc' = "invoke"
    BY <1>1 DEF ApplyQuery, ApplyMediation, ApplyConsult, Tell, ApplyReview, Mediate, HaveItDone,
       Invoking
  <2> QED BY <1>e, <1>g, <2>1 DEF GoesOn
<1>2. CASE ApplyOutcome
  <2> DEFINE verdict == Verdict(call.key[2], ops[call.key].answer)
  <2>1. verdict \in {"completed", "failed", "blocked", "review"}
    BY VerdictKinds
  <2>2. verdict # "review" => tasks' = [tasks EXCEPT ![call.key[2]] = verdict]
    BY <1>2 DEF ApplyOutcome, FinishTask
  <2> HIDE DEF verdict
  <2>3. verdict = "review"
    BY <1>m, <2>1, <2>2
  <2>4. pc' = "invoke"
    BY <1>2, <2>3 DEF ApplyOutcome, Review, Invoking, verdict
  <2> QED BY <1>e, <1>g, <2>4 DEF GoesOn
<1>3. ~MediationAsksUser /\ ~ReviewAsksUser
  BY <1>m DEF MediationAsksUser, ReviewAsksUser, AsksUser
<1>4. ~ReviewGivesUp
  BY <1>m DEF ReviewGivesUp, FinishTask
<1>5. ~ApplySynthesis /\ ~ApplySynthesisDecision
  BY <1>z DEF ApplySynthesis, ApplySynthesisDecision, Applies
<1> QED BY <1>1, <1>2, <1>3, <1>4, <1>5 DEF AppliesStep

LEMMA LeavesCalls ==
  ASSUME CallInv, [Next]_vars, pc \in InCall, ~AppliesStep
  PROVE  pc' \in InCall \/ Error \/ Raise \/ Park \/ Crash
<1>1. ~Restart
  BY RestartEffect DEF InCall
<1>2. CASE Invoke \/ MarkFailed \/ RefuseFutileRetry \/ Repair \/ RepairSynthesis \/ Consume
           \/ RefuseEffect \/ UNCHANGED vars \/ \E a \in Answers(call.key, call.about) : Complete(a)
  BY <1>2 DEF InCall, Invoke, MarkFailed, RefuseFutileRetry, Repair, RepairSynthesis, Consume,
     RefuseEffect, Complete, Fails, Invoking, vars
<1> QED BY <1>1, <1>2, StepKinds
    DEF QuietStep, InCall, Publish, RecoverOpen, Chain, StartTask, LeaveLoop, SettleQuestions,
        SkipDependents, Settle, Synthesize, Reclaim, UserResumes, UserAnswers

LEMMA StaysAtCall ==
  ASSUME CallInv, [Next]_vars, pc \in InCall, pc' \in InCall, ~AppliesStep, OpenKeys = {},
         NEW t \in Tasks, call.key[2] = t
  PROVE  call'.key[2] = t /\ OpenKeys' \subseteq {call'.key}
<1>o. OpenKeys' \subseteq {call.key}
  BY CallInvStep, OpsStepEffect DEF CallInv
<1>1. CASE UNCHANGED call
  BY <1>o, <1>1
<1>2. CASE Repair
  <2>1. UNCHANGED call \/ call'.key[2] = t
    BY <1>2 DEF Repair, Fails, Invoking, Key
  <2>2. OpenKeys' = OpenKeys
    BY <1>2 DEF Repair, OpenKeys
  <2> QED BY <1>1, <2>1, <2>2
<1>3. CASE RepairSynthesis
  <2>1. call.key[1] \in Syntheses /\ IsKey(call.key)
    BY <1>3 DEF RepairSynthesis, CallInv, CallShape
  <2> QED BY <2>1, ExecutionConstants DEF IsKey, Tasks
<1>4. ~Restart
  BY RestartEffect DEF InCall
<1> QED BY <1>1, <1>2, <1>3, <1>4, StepKinds
    DEF QuietStep, InCall, Publish, RecoverOpen, Chain, StartTask, LeaveLoop, SettleQuestions,
        SkipDependents, Settle, Synthesize, Reclaim, UserResumes, UserAnswers, Error, Raise, Park,
        Crash, Goto, Invoke, MarkFailed, RefuseFutileRetry, Complete, Consume, Fails, RefuseEffect, vars

\* how a task comes to be in progress: its call is made, or open
LEMMA BecomesBusy ==
  ASSUME WorkInv, [Next]_vars, NEW t \in Tasks, ~Working(t), tasks'[t] = "in_progress"
  PROVE  Occupied(t)'
<1>i. CallInv /\ tasks \in [Tasks -> TaskStatus]
  BY DEF WorkInv, CallInv, TasksShape
<1>a. ASSUME UNCHANGED ops, OpenKeys = {}, pc' = "invoke", call'.key[2] = t PROVE Occupied(t)'
  BY <1>a DEF Occupied, OpenKeys, InCall
<1>1. CASE StartTask
  <2> DEFINE u == Min(Ready)
  <2>1. /\ BeginTask(u) /\ OpenKeys = {} /\ UNCHANGED ops
        /\ Invoking(Key("worker", u, 0), <<"task", Version(u)>>, TRUE)
    BY <1>1 DEF StartTask
  <2> HIDE DEF u
  <2>2. t = u
    BY <1>i, <2>1 DEF BeginTask, Working
  <2> QED BY <1>a, <2>1, <2>2 DEF Invoking, Key
<1>2. CASE Chain
  <2> DEFINE u == Min(Chained)  last == Last(u)
  <2>1. u \in Chained /\ BeginTask(u) /\ OpenKeys = {} /\ UNCHANGED ops
    BY <1>2, MinIsIn DEF Chain, Chained
  <2>2. t = u
    <3> HIDE DEF u
    <3> QED BY <1>i, <2>1 DEF BeginTask, Working
  <2>3. UserDecided(u) /\ ~ReviewDue(u) /\ ~ReviewGiven(u)
    <3> HIDE DEF u, last
    <3> QED BY <2>1, <2>2 DEF Chained, ReviewDue, ReviewGiven, Working
  <2>4. Invoking(Key(IF last[1] \in Reviews THEN "acceptance_worker" ELSE "mediation_worker", u, last[3]),
                 <<"user", 0>>, FALSE)
    BY <1>2, <2>3 DEF Chain
  <2> HIDE DEF u, last
  <2> QED BY <1>a, <2>1, <2>2, <2>4 DEF Invoking, Key
<1>3. CASE Reclaim
  <2>1. PICK k \in OpenKeys :
          /\ Moved(k, "prepared")
          /\ tasks' = [v \in Tasks |-> IF v = k[2] THEN "in_progress" ELSE tasks[v]]
    BY <1>3, <1>i, ReclaimEffect
  <2>2. t = k[2]
    BY <2>1 DEF Working
  <2>3. k \in OpenKeys'
    BY <2>1 DEF Moved, OpenKeys, OpenOp
  <2> QED BY <2>2, <2>3 DEF Occupied
<1> QED BY <1>1, <1>2, <1>3, TaskMoves DEF TaskMove, Started, Skipped, Stopped, Suspended, Resumed,
     ParkedLate, Delivered, Asked, Told, Working

LEMMA ReviewableWaits ==
  ASSUME WorkInv, NumbersFit, WaitingIsAsked, [Next]_vars, NEW t \in Tasks, Working(t), Reviewable(t),
         ~(AppliesStep /\ call.key[2] = t)
  PROVE  Reviewable(t)'
<1>i. CallInv
  BY DEF WorkInv
<1>1. Own(t)' = Own(t)
  <2>1. CASE AppliesStep
    <3>1. AppliedKeys' = AppliedKeys \cup {call.key}
      BY <1>i, <2>1, AppliesStepEffect, AppliedGrow
    <3> QED BY <2>1, <3>1 DEF Own
  <2> QED BY <1>i, <2>1, AppliedStay, OwnStays
<1>2. Last(t) \notin resolved'
  <2>1. CASE UserAnswers
    <3>1. request = "awaiting" /\ resolved' = resolved \cup items
      BY <2>1 DEF UserAnswers
    <3>2. Last(t)[2] = t
      BY <1>i, LastOwn DEF Reviewable, Own, CallInv, Stages
    <3>3. Last(t) \notin items
      BY <3>1, <3>2 DEF WaitingIsAsked, Working
    <3> QED BY <3>1, <3>3 DEF Reviewable
  <2>2. CASE ~UserAnswers
    BY <2>2, ResolvedStays DEF Reviewable
  <2> QED BY <2>1, <2>2
<1> QED BY <1>i, <1>1, <1>2, ReviewableStays

LEMMA BusyStep ==
  ASSUME WorkInv, NumbersFit, WaitingIsAsked, RaisedFits, UnderReview, Busy, [Next]_vars
  PROVE  Busy'
<1>i. CallInv /\ RunWorks
  BY DEF WorkInv
<1> SUFFICES ASSUME NEW t \in Tasks, tasks'[t] = "in_progress" PROVE Occupied(t)'
  BY DEF Busy, Working
<1>b. ASSUME AppliesStep, call.key[2] = t PROVE Occupied(t)'
  <2>1. pc' = "invoke" /\ call'.key[2] = t /\ OpenKeys' = {}
    BY <1>b, <1>i, AppliesLeaves
  <2> QED BY <2>1 DEF Occupied, InCall
<1>a. ASSUME NEW k \in OpenKeys, k[2] = t PROVE Occupied(t)'
  <2>1. CASE k \in OpenKeys'
    BY <1>a, <2>1 DEF Occupied
  <2>2. CASE k \notin OpenKeys'
    <3>1. k = call.key /\ OpenKeys' = {} /\ (MarkFailed \/ RefuseFutileRetry \/ AppliesStep)
      BY <1>i, <2>2, Closes
    <3>2. CASE MarkFailed \/ RefuseFutileRetry
      BY <1>a, <3>1, <3>2 DEF MarkFailed, RefuseFutileRetry, Occupied, InCall
    <3> QED BY <1>a, <1>b, <3>1, <3>2
  <2> QED BY <2>1, <2>2
<1>c. ASSUME pc \in InCall, call.key[2] = t, OpenKeys = {}, ~AppliesStep, Working(t)
      PROVE  Occupied(t)'
  <2>1. CASE pc' \in InCall
    <3>1. call'.key[2] = t /\ OpenKeys' \subseteq {call'.key}
      BY <1>c, <1>i, <2>1, StaysAtCall
    <3> QED BY <2>1, <3>1 DEF Occupied
  <2>2. ~Error
    <3> SUFFICES ASSUME Error PROVE FALSE
      OBVIOUS
    <3>1. CASE call.guarded
      <4>1. tasks' = [tasks EXCEPT ![t] = "failed"]
        BY <1>c, <3>1 DEF Error, FinishTask
      <4> QED BY <1>i, <4>1 DEF CallInv, TasksShape
    <3>2. CASE ~call.guarded
      <4>1. tasks' = [u \in Tasks |-> IF tasks[u] = "in_progress" THEN "failed" ELSE tasks[u]]
        BY <3>2 DEF Error
      <4> QED BY <4>1
    <3> QED BY <3>1, <3>2
  <2>3. CASE Raise
    <3>1. Reviewable(t)
      BY <1>c, <2>3 DEF Raise, RaisedFits, UnderReview
    <3>2. Reviewable(t)'
      BY <1>c, <3>1, ReviewableWaits
    <3> QED BY <3>2 DEF Occupied
  <2>4. ~Park
    BY <1>c, <1>i, ParkEffect DEF Is, OpenKeys, OpenOp
  <2>5. CASE Crash
    <3>1. pc' = "down" /\ OpenKeys' = {} /\ run' = run
      BY <1>c, <2>5 DEF Crash, Goto, OpenKeys
    <3>2. run \in {"running", "summarizing"}
      BY <1>c, <1>i DEF RunWorks, Rest, InCall
    <3> QED BY <3>1, <3>2 DEF Occupied
  <2> QED BY <1>c, <1>i, <2>1, <2>2, <2>3, <2>4, <2>5, LeavesCalls
<1>d. ASSUME pc = "down", OpenKeys = {}, run \in {"running", "summarizing"} PROVE Occupied(t)'
  <2>1. ~Restart
    <3>1. Restart => tasks' = Interrupted
      BY <1>d, <1>i, RestartEffect DEF TakenUpAtStart, NotDueAtStart
    <3> QED BY <3>1 DEF Interrupted
  <2>2. UNCHANGED vars
    BY <1>d, <2>1, RestMoves DEF Rest, Crash, Reclaim, UserResumes, UserAnswers
  <2> QED BY <1>d, <2>2 DEF vars, Occupied, OpenKeys
<1>1. CASE Working(t)
  <2>1. CASE AppliesStep /\ call.key[2] = t
    BY <1>b, <2>1
  <2>2. CASE Reviewable(t) /\ ~(AppliesStep /\ call.key[2] = t)
    <3>1. Reviewable(t)'
      BY <1>1, <2>2, ReviewableWaits
    <3> QED BY <3>1 DEF Occupied
  <2>3. CASE pc \in InCall /\ call.key[2] = t /\ OpenKeys \subseteq {call.key}
    BY <1>1, <1>a, <1>b, <1>c, <2>3
  <2> QED BY <1>1, <1>a, <1>d, <2>1, <2>2, <2>3 DEF Busy, Occupied
<1>2. CASE ~Working(t)
  BY <1>2, BecomesBusy
<1> QED BY <1>1, <1>2

-----------------------------------------------------------------------------
(* What remains when the loop is left                                        *)

\* A task that waits for its provider has a call that is open.
ParkedFits == \A t \in Tasks : tasks[t] = "waiting_for_provider" => \E k \in OpenKeys : k[2] = t

LEMMA Parks ==
  ASSUME CallInv, [Next]_vars, NEW t \in Tasks, tasks[t] # "waiting_for_provider",
         tasks'[t] = "waiting_for_provider"
  PROVE  Park \/ Restart
<1>u. tasks' # tasks
  OBVIOUS
<1>e. ASSUME NEW u, NEW s, tasks' = [tasks EXCEPT ![u] = s], s # "waiting_for_provider" PROVE FALSE
  BY <1>e DEF CallInv, TasksShape
<1>1. ~Error
  BY <1>e DEF Error, FinishTask
<1>2. ~Chain /\ ~StartTask
  BY <1>e DEF Chain, StartTask, BeginTask
<1>3. ~SkipDependents /\ ~Reclaim /\ ~UserAnswers
  BY DEF SkipDependents, Reclaim, UserAnswers, Released
<1>4. ~AppliesStep
  <2>1. ~ApplyOutcome
    <3> DEFINE verdict == Verdict(call.key[2], ops[call.key].answer)
    <3>1. verdict \in {"completed", "failed", "blocked", "review"}
      BY VerdictKinds
    <3>2. ApplyOutcome => UNCHANGED tasks \/ tasks' = [tasks EXCEPT ![call.key[2]] = verdict]
      BY DEF ApplyOutcome, FinishTask
    <3> HIDE DEF verdict
    <3> QED BY <1>e, <1>u, <3>1, <3>2
  <2>2. ~MediationAsksUser /\ ~ReviewAsksUser /\ ~ReviewGivesUp
    BY <1>e DEF MediationAsksUser, ReviewAsksUser, ReviewGivesUp, AsksUser, FinishTask
  <2> QED BY <1>u, <2>1, <2>2 DEF AppliesStep, ApplyQuery, ApplyMediation, ApplyConsult, Tell,
      ApplyReview, ApplySynthesis, ApplySynthesisDecision
<1> QED BY <1>u, <1>1, <1>2, <1>3, <1>4, QuietTables, StepKinds DEF QuietStep, KeepsTables, Consume

LEMMA ParkedStep ==
  ASSUME WorkInv, ParkedFits, [Next]_vars
  PROVE  ParkedFits'
<1>i. CallInv /\ OpenWorks
  BY DEF WorkInv
<1> SUFFICES ASSUME NEW t \in Tasks, tasks'[t] = "waiting_for_provider"
             PROVE  \E k \in OpenKeys' : k[2] = t
  BY DEF ParkedFits
<1>1. CASE tasks[t] = "waiting_for_provider"
  <2>1. PICK k \in OpenKeys : k[2] = t
    BY <1>1 DEF ParkedFits
  <2>2. k[1] \in Stages /\ k[2] # 0
    BY <1>i, <2>1, ExecutionConstants DEF CallInv, OpsShape, OpenKeys, IsKey, Tasks
  <2> SUFFICES ASSUME k \notin OpenKeys' PROVE FALSE
    BY <2>1
  <2>3. k = call.key /\ (MarkFailed \/ RefuseFutileRetry \/ AppliesStep)
    BY <1>i, Closes
  <2>4. ~MarkFailed /\ ~RefuseFutileRetry
    <3>1. ops[k].st # "prepared"
      BY <1>1, <1>i, <2>1, <2>2 DEF OpenWorks, Working
    <3> QED BY <1>i, <2>3, <3>1, DropEffect DEF Is
  <2>5. k \in AppliedKeys' /\ k \notin AppliedKeys
    <3>1. PICK stages, answers : Applies(stages, answers)
      BY <1>i, <2>3, <2>4, AppliesStepEffect
    <3>2. AppliedKeys' = AppliedKeys \cup {call.key}
      BY <1>i, <3>1, AppliedGrow
    <3> QED BY <2>1, <2>3, <3>2 DEF AppliedKeys, OpenKeys, OpenOp
  <2>6. Of(AppliedKeys, Stages, t)' = Of(AppliedKeys, Stages, t)
    BY <1>1, OwnApplied DEF Working
  <2> QED BY <2>1, <2>2, <2>5, <2>6 DEF Of
<1>2. CASE tasks[t] # "waiting_for_provider"
  <2>1. ASSUME NEW k, Moved(k, "waiting"), k[2] = t PROVE \E l \in OpenKeys' : l[2] = t
    BY <2>1 DEF Moved, OpenKeys, OpenOp
  <2>2. CASE Park
    <3>1. tasks' = [u \in Tasks |-> IF u = call.key[2] THEN "waiting_for_provider" ELSE tasks[u]]
      BY <2>2 DEF Park
    <3> QED BY <1>2, <1>i, <2>1, <2>2, <3>1, ParkEffect
  <2>3. CASE Restart
    <3>1. ASSUME NEW k \in OpenKeys, ParkedAtStart(k) PROVE \E l \in OpenKeys' : l[2] = t
      BY <1>2, <2>1, <3>1 DEF ParkedAtStart
    <3>2. ~TakenUpAtStart /\ ~NotDueAtStart
      BY <1>2 DEF TakenUpAtStart, NotDueAtStart, Interrupted
    <3> QED BY <1>i, <2>3, <3>1, <3>2, RestartEffect
  <2> QED BY <1>2, <1>i, <2>2, <2>3, Parks
<1> QED BY <1>1, <1>2

\* The leader sums up when every task has an end, and until it did nothing else is open.
Ended(t) == tasks[t] \in TerminalTask
SumsFits == SummingUp => (\A t \in Tasks : Ended(t)) /\ \A k \in OpenKeys : k[1] \in Syntheses

\* When the loop is left and nothing is to be asked, a task that has no end waits for
\* another that has none, or that did not complete.
LeftFits ==
  pc = "settle" /\ request # "collecting" =>
    \A t \in Tasks : Ended(t) \/ (tasks[t] = "pending" /\ t \notin Ready)

LEMMA EndsWhenComplete ==
  ASSUME TasksShape, Disposition(tasks, plan.required, plan.deps) # "incomplete"
  PROVE  \A t \in Tasks : Ended(t)
BY ExecutionConstants DEF TasksShape, Tasks, Ended, Disposition

LEMMA SumsFitsStep ==
  ASSUME WorkInv, SumsFits, [Next]_vars
  PROVE  SumsFits'
<1>i. CallInv /\ TasksShape
  BY DEF WorkInv, CallInv
<1> SUFFICES ASSUME SummingUp' PROVE (\A t \in Tasks : Ended(t)') /\ \A k \in OpenKeys' : k[1] \in Syntheses
  BY DEF SumsFits
<1>1. CASE SummingUp
  <2>1. (\A t \in Tasks : Ended(t)) /\ \A k \in OpenKeys : k[1] \in Syntheses
    BY <1>1 DEF SumsFits
  <2>2. ASSUME NEW t \in Tasks PROVE Ended(t)'
    <3>1. ~ParkedLate(t)
      <4> SUFFICES ASSUME ParkedLate(t) PROVE FALSE
        OBVIOUS
      <4>1. PICK k \in OpenKeys : ParkedAtStart(k)
        BY <1>i, RestartEffect DEF ParkedLate, TakenUpAtStart, NotDueAtStart, Interrupted
      <4>2. k[2] = 0
        BY <1>i, <2>1 DEF CallInv, OpsShape, OpenKeys, IsKey
      <4> QED BY <4>1, <4>2, ExecutionConstants DEF ParkedAtStart, ParkedLate, Tasks
    <3>2. TaskMove(t)
      BY TaskMoves
    <3> QED BY <2>1, <3>1, <3>2 DEF Ended, TerminalTask, TaskMove, Started, Skipped, Stopped, Suspended,
        Resumed, Delivered, Asked, Told, Working
  <2>3. ASSUME NEW k \in OpenKeys', k \notin OpenKeys PROVE k[1] \in Syntheses
    <3>1. k \notin DOMAIN ops
      BY <1>i, <2>3, CallInvStep, OpsStepEffect DEF CallInv, Reserved
    <3>2. pc = "invoke" /\ k = call.key /\ OpenKeys = {}
      BY <1>i, <2>3, <3>1, NewRow DEF OpenKeys
    <3> QED BY <1>1, <3>2 DEF SummingUp
  <2> QED BY <2>1, <2>2, <2>3
<1>2. CASE Settle /\ request # "collecting" /\ pc = "settle" /\ ~SummingUp
  <2>1. UNCHANGED <<ops, tasks>>
    BY <1>2 DEF Settle
  <2>2. OpenKeys' = OpenKeys /\ \A k \in OpenKeys : k[1] \in Syntheses
    BY <1>2, <1>i, <2>1 DEF CallInv, CallFits, Late, OpsShape, IsKey, OpenKeys
  <2>3. pc' = "synthesize" \/ pc' \in InCall
    BY <1>2, <2>2 DEF SummingUp
  <2>4. \A t \in Tasks : Ended(t)
    <3>1. Disposition(tasks, plan.required, plan.deps) # "incomplete"
      <4>1. Disposition(tasks, plan.required, plan.deps) = "incomplete" => Fails
        BY <1>2 DEF Settle
      <4>2. Fails => call' = NoCall /\ pc' = "error"
        BY <1>2, <1>i DEF Fails, CallInv, CallShape, InCall
      <4> QED BY <1>2, <2>2, <4>1, <4>2 DEF SummingUp, NoCall, NoKey, Key, Syntheses
    <3> QED BY <1>i, <3>1, EndsWhenComplete
  <2> QED BY <2>1, <2>2, <2>4 DEF Ended
<1> QED BY <1>1, <1>2, <1>i, SumsUpNext

\* how the loop is left
LEMMA SettlesNext ==
  ASSUME CallInv, [Next]_vars, pc' = "settle"
  PROVE  \/ RecoverOpen \/ LeaveLoop \/ SkipDependents \/ UNCHANGED vars
         \/ MediationAsksUser \/ ReviewAsksUser
<1>1. ~Restart
  BY RestartEffect DEF ParkedAtStart, TakenUpAtStart, NotDueAtStart
<1>2. ~Chain
  BY ChainGoesOn
<1>3. AppliesStep => MediationAsksUser \/ ReviewAsksUser
  BY DEF AppliesStep, ApplyQuery, ApplyOutcome, ApplyMediation, ApplyConsult, Tell, ApplyReview,
     ReviewGivesUp, ApplySynthesis, ApplySynthesisDecision, Goto, Mediate, Review, HaveItDone, Invoking
<1>4. ~Settle
  BY DEF Settle, Goto, Fails
<1> QED BY <1>1, <1>2, <1>3, <1>4, StepKinds
    DEF QuietStep, Invoke, MarkFailed, RefuseFutileRetry, Complete, Repair, RepairSynthesis,
        Error, Consume, Raise, Publish, RefuseEffect, StartTask, SettleQuestions, Synthesize,
        Park, Crash, Reclaim, UserResumes, UserAnswers, Goto, Fails, Invoking, TakeUp

LEMMA LeftStep ==
  ASSUME WorkInv, WorldFits, Busy, ParkedFits, WaitingIsAsked, AwaitFits, QuestionsFit, SumsFits,
         LeftFits, [Next]_vars
  PROVE  LeftFits'
<1>i. CallInv /\ TasksShape /\ plan' = plan
  BY PlanStays DEF WorkInv, CallInv
<1> SUFFICES ASSUME pc' = "settle", request' # "collecting", NEW t \in Tasks
             PROVE  Ended(t)' \/ (tasks'[t] = "pending" /\ t \notin Ready')
  BY DEF LeftFits
<1>u. UNCHANGED tasks => Ready' = Ready /\ (Ended(t)' <=> Ended(t))
  BY <1>i DEF Ready, Ended
<1>1. CASE RecoverOpen
  <2> DEFINE first == CHOOSE k \in OpenKeys : TRUE
  <2>1. first \in OpenKeys /\ TakeUpInLoop(first) /\ UNCHANGED tasks
    BY <1>1 DEF RecoverOpen
  <2> HIDE DEF first
  <2>2. first[1] \in Syntheses
    BY <2>1 DEF TakeUpInLoop, TakeUp
  <2>3. Ended(t)
    BY <2>1, <2>2 DEF SumsFits, SummingUp
  <2> QED BY <1>u, <2>1, <2>3
<1>2. CASE LeaveLoop
  <2>1. /\ pc = "loop" /\ OpenKeys = {} /\ Chained = {} /\ Ready = {} /\ UNCHANGED <<tasks, request>>
    BY <1>2 DEF LeaveLoop, questions
  <2>2. ~Working(t)
    <3> SUFFICES ASSUME Working(t) PROVE FALSE
      OBVIOUS
    <3>1. Reviewable(t)
      BY <2>1 DEF Busy, Occupied, InCall
    <3>2. ReviewDue(t) \/ ReviewGiven(t)
      BY <3>1 DEF Reviewable, ReviewDue, ReviewGiven, Working
    <3> QED BY <2>1, <3>2 DEF Chained
  <2>3. tasks[t] # "waiting_for_provider"
    BY <2>1 DEF ParkedFits
  <2>4. tasks[t] # "waiting_for_user"
    BY <2>1 DEF WaitingIsAsked, QuestionsFit, AwaitFits, Rest
  <2>5. Ended(t) \/ tasks[t] = "pending"
    BY <1>i, <2>2, <2>3, <2>4 DEF TasksShape, TaskStatus, Ended, Working
  <2> QED BY <1>u, <2>1, <2>5
<1>3. CASE SkipDependents
  <2>1. /\ pc = "settle" /\ request # "collecting"
        /\ tasks' = [u \in Tasks |-> IF u \in Skippable THEN "skipped" ELSE tasks[u]]
    BY <1>3 DEF SkipDependents
  <2>2. Ended(t) \/ (tasks[t] = "pending" /\ t \notin Ready)
    BY <2>1 DEF LeftFits
  <2>3. Skippable \cap {u \in Tasks : Ended(u)} = {}
    BY DEF Skippable, Ended, TerminalTask
  <2>4. CASE Ended(t) \/ t \in Skippable
    BY <2>1, <2>3, <2>4 DEF Ended, TerminalTask
  <2>5. CASE tasks[t] = "pending" /\ t \notin Ready /\ t \notin Skippable
    <3>1. tasks'[t] = "pending"
      BY <2>1, <2>5
    <3>2. plan.deps[t] \subseteq Tasks
      BY DEF WorldFits, Plans
    <3>3. t \notin Ready'
      <4> SUFFICES ASSUME Prerequisites({tasks'[d] : d \in plan.deps[t]}) = "ready" PROVE FALSE
        BY <1>i DEF Ready
      <4>1. \A d \in plan.deps[t] : tasks'[d] = "completed"
        BY DEF Prerequisites
      <4>2. \A d \in plan.deps[t] : tasks[d] = "completed"
        BY <2>1, <3>2, <4>1
      <4>3. Prerequisites({tasks[d] : d \in plan.deps[t]}) = "ready"
        BY <4>2 DEF Prerequisites
      <4> QED BY <2>5, <4>3 DEF Ready
    <3> QED BY <3>1, <3>3
  <2> QED BY <2>2, <2>4, <2>5
<1>4. CASE UNCHANGED vars
  BY <1>4, <1>u DEF vars, LeftFits
<1>5. ~MediationAsksUser /\ ~ReviewAsksUser
  BY DEF MediationAsksUser, ReviewAsksUser, AsksUser, AppendItem
<1> QED BY <1>i, <1>1, <1>2, <1>3, <1>4, <1>5, SettlesNext

\* As no dependency is cyclic, some task that has no end waits for none of those: it is
\* ready, or it can be skipped.
LEMMA LeftIsEnough ==
  ASSUME TasksShape, WorldFits, LeftFits
  PROVE  NothingRemains
<1> SUFFICES ASSUME pc = "settle", request # "collecting", Skippable = {}
             PROVE  Disposition(tasks, plan.required, plan.deps) # "incomplete"
  BY DEF NothingRemains
<1> DEFINE S == {t \in Tasks : ~Ended(t)}
<1>1. S = {}
  <2> SUFFICES ASSUME S # {} PROVE FALSE
    OBVIOUS
  <2>1. ValidDependencies(plan.deps) /\ \A u \in Tasks : plan.deps[u] \subseteq Tasks
    BY DEF WorldFits, Plans
  <2>2. PICK t \in S : plan.deps[t] \cap S = {}
    BY <2>1 DEF ValidDependencies
  <2>3. tasks[t] = "pending" /\ t \notin Ready
    BY <2>2 DEF LeftFits
  <2>4. \A d \in plan.deps[t] : tasks[d] \in TerminalTask
    BY <2>1, <2>2 DEF Ended
  <2>5. CASE \A d \in plan.deps[t] : tasks[d] = "completed"
    <3>1. Prerequisites({tasks[d] : d \in plan.deps[t]}) = "ready"
      BY <2>5 DEF Prerequisites
    <3> QED BY <2>2, <2>3, <3>1 DEF Ready
  <2>6. ASSUME NEW d \in plan.deps[t], tasks[d] # "completed" PROVE FALSE
    <3>1. Prerequisites({tasks[e] : e \in plan.deps[t]}) = "skip"
      BY <2>4, <2>6 DEF Prerequisites
    <3> QED BY <2>2, <2>3, <3>1 DEF Skippable
  <2> QED BY <2>5, <2>6
<1>2. \A t \in DOMAIN tasks : tasks[t] \in TerminalTask
  BY <1>1 DEF TasksShape, Ended
<1> HIDE DEF S
<1> DEFINE issues == {t \in DOMAIN tasks : tasks[t] # "completed"}
           causes == {Causes(tasks, plan.deps)[t] : t \in issues \cap plan.required}
<1>3. causes # {} => issues # {}
  OBVIOUS
<1>4. Disposition(tasks, plan.required, plan.deps) =
        IF DOMAIN tasks = {} THEN "failed"
        ELSE CASE causes \cap {"failed", "canceled"} # {} -> "failed"
               [] causes \cap {"failed", "canceled"} = {} /\ "blocked" \in causes -> "blocked"
               [] causes # {} /\ causes \cap {"failed", "canceled", "blocked"} = {} -> "unresolved"
               [] causes = {} /\ issues # {} -> "completed_with_failures"
               [] issues = {} -> "completed"
  BY <1>2 DEF Disposition
<1> HIDE DEF issues, causes
<1> QED BY <1>3, <1>4

PlanInv ==
  /\ OrderInv /\ FinalStatusAgrees /\ HistoryInv
  /\ RaisedFits /\ AwaitFits /\ RepeatsFit /\ UnderReview
  /\ Busy /\ ParkedFits /\ SumsFits /\ LeftFits

LEMMA PlanInvInit == Init => PlanInv
<1> SUFFICES ASSUME Init PROVE PlanInv
  OBVIOUS
<1>1. OpenKeys = {} /\ DOMAIN ops = {}
  BY DEF Init, OpenKeys
<1>2. /\ pc = "loop" /\ request = "none" /\ run = "running"
      /\ \A t \in Tasks : tasks[t] = "pending"
  BY DEF Init
<1>3. ~SummingUp
  BY <1>1, <1>2 DEF SummingUp, InCall
<1> QED BY <1>1, <1>2, <1>3, HistoryInit
    DEF PlanInv, OrderInv, PrerequisitesAreDone, FinalStatusAgrees, RaisedFits, AwaitFits, RepeatsFit,
        UnderReview, Busy, Working, ParkedFits, SumsFits, LeftFits, InCall

LEMMA PlanInvStep ==
  ASSUME WorkInv, TableInv, EarnedInv, PlanInv, [Next]_vars
  PROVE  PlanInv'
<1>1. CallInv /\ NumbersFit /\ QuestionsFit /\ WorldFits /\ WaitingIsAsked /\ RepairsReview
  BY DEF WorkInv, TableInv, EarnedInv, StatusIsEarned
<1>2. HistoryInv /\ AskedFits
  BY DEF PlanInv, HistoryInv
<1>3. OrderInv' /\ FinalStatusAgrees' /\ HistoryInv'
  BY <1>1, <1>2, OrderStep, FinalStep, HistoryStep DEF PlanInv
<1>4. RaisedFits' /\ AwaitFits'
  BY <1>1, RaisedStep, AwaitStep DEF PlanInv
<1>5. RepeatsFit' /\ UnderReview'
  BY <1>1, <1>2, RepeatsFitStep, UnderReviewStep DEF PlanInv
<1>6. Busy' /\ ParkedFits' /\ SumsFits' /\ LeftFits'
  BY <1>1, BusyStep, ParkedStep, SumsFitsStep, LeftStep DEF PlanInv
<1> QED BY <1>3, <1>4, <1>5, <1>6 DEF PlanInv

\* The plan's order and its required tasks are kept from the first task to the status of
\* the run: no task is started before all it waits for is completed, a run that says it
\* completed has its required tasks completed and says what _terminal_status and
\* cycle_execution_disposition agree on, and when _execute_and_synthesize leaves its loop
\* no task is forgotten, whatever was asked, reviewed, parked, interrupted and answered.
THEOREM PlanStaysKept == Spec => []PlanIsKept
<1>1. WorkInv /\ TableInv /\ PlanInv => PlanIsKept
  BY LeftIsEnough DEF WorkInv, CallInv, TableInv, PlanInv, OrderInv, PlanIsKept
<1>2. WorkInv => CallInv
  BY DEF WorkInv
<1>3. WorkInv /\ TableInv /\ EarnedInv /\ PlanInv /\ [Next]_vars => PlanInv'
  BY PlanInvStep
<1> QED BY <1>1, <1>2, <1>3, WorkInvInit, WorkInvStep, TableInit, TableStep, EarnedInit, EarnedStep,
        PlanInvInit, PTL DEF Spec
=============================================================================
